SPECIFICATION Spec
CONSTANTS
    w1 = w1
    w2 = w2
    Msgs = {1, 2, 3}
    Workers = {w1, w2}
    Scenarios <- Everything
    MaxDeliver = 2
    AdvanceBatch = 2
SYMMETRY Symmetry
INVARIANTS
    NothingSkipped
    EffectOnce
    HandledOrDead
    OrderedEffects
