SPECIFICATION FairSpec
CONSTANTS
    a = a
    w1 = w1
    w2 = w2
    Items = {a}
    Workers = {w1, w2}
    Scenarios <- EveryJob
    MaxAttempts = 2
    Segments = 2
    MaxFaults = 2
    MaxClaims = 3
INVARIANTS
    TypeOK
    AtMostOneHolder
    EffectOnce
    SegmentsOnce
    CallSentAtMostOnce
    DeadOutcomeKnown
PROPERTIES
    FinishedStays
    EverySettles
CHECK_DEADLOCK FALSE
