SPECIFICATION Spec
CONSTANTS
    a = a
    w1 = w1
    w2 = w2
    Items = {a}
    Workers = {w1, w2}
    Scenarios <- CallOnHold
    MaxAttempts = 2
    Segments = 2
    MaxFaults = 2
    MaxClaims = 3
INVARIANTS
    CallSentAtMostOnce
CHECK_DEADLOCK FALSE
