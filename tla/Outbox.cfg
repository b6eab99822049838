SPECIFICATION Spec
CONSTANTS
    f1 = f1
    f2 = f2
    Forwarders = {f1, f2}
    Scenarios <- Everything
    Batch = 2
    PurgeBatch = 2
    MaxEvents = 3
SYMMETRY Symmetry
INVARIANTS
    PositionsContiguous
    CausalOrder
    FirstPublishedInOrder
    MarkedMeansPublished
    MarksFollowPositions
    JudgeSound
    CursorSkipsNothing
    ResendSendsKept
CHECK_DEADLOCK FALSE
