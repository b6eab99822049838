SPECIFICATION Spec
CONSTANTS
    w1 = w1
    w2 = w2
    Msgs = {1, 2}
    Workers = {w1, w2}
    Scenarios <- OrderedQuiet
    MaxDeliver = 2
    AdvanceBatch = 2
SYMMETRY Symmetry
INVARIANTS
    OneInFlight
