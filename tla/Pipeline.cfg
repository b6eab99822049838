SPECIFICATION FairSpec
CONSTANTS
    f1 = f1
    f2 = f2
    w1 = w1
    Forwarders = {f1, f2}
    Workers = {w1}
    Batch = 2
    PurgeBatch = 2
    MaxEvents = 2
    MaxDeliver = 2
    AdvanceBatch = 2
    Deployments <- Everything
INVARIANTS
    TypeOK
    QueueFollowsPositions
PROPERTIES
    ImplementsEventFlow
    EveryEventEnds
CHECK_DEADLOCK FALSE
