SPECIFICATION Spec
CONSTANTS
    f1 = f1
    f2 = f2
    Forwarders = {f1, f2}
    Scenarios <- Quiet
    Batch = 3
    PurgeBatch = 1
    MaxEvents = 3
SYMMETRY Symmetry
INVARIANTS
    ReadAfterSkipsNothing
CHECK_DEADLOCK FALSE
