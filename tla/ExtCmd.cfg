SPECIFICATION FairSpec
CONSTANTS
    Scenarios <- Everything
    Margin = 3
    ManualAfter = 3
    SendLease = 2
    Transit = 1
    MaxAge = 6
INVARIANTS
    EffectAtMostOnce
    FinalStateTrue
    IssuedAccounted
PROPERTIES
    FinalStays
    EveryCommandEnds
