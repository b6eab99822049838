SPECIFICATION FairSpec
CONSTANTS
    Aggs = {"a", "b"}
    MaxUnits = 2
    MaxMembers = 2
    Batch = 1
    EraseAttempts = 2
    OpSlots = {1, 2}
    Workers = {1, 2}
    PullPage = 1
    RecordPage = 1
    QuarantineAttempts = 2
    MaxDeliver = 3
    Lifetime = 2
    Callers = {1, 2, 3}
    MaxAttempts = 3
    OutboundLimit = 2
    BreakerWindow = 2
    BreakerTrialsToClose = 2
    BreakerOpenFirst = 1
    BreakerOpenMax = 2
    budgetMax = 4
    budgetSuccess = 1
    budgetFailure = 1
    budgetThreshold = 2
    Branches = {"p", "q"}
    Consumptions = {"c", "d"}
    ExpireBatch = 1
    Handlers = {1, 2}
    maxAttempts = 3
    Runners = {"old", "new"}
    MigrationLockAttempts = 2
    AuditRecords = {1, 2, 3, 4}
    Cycles = {"job", "host"}
    RoundBatch = 2
    Capacity = 2
    DenialBudget = 1
    Minutes = {1, 2, 3}
    Tightenings = {"t", "u", "v"}
    Widenings = {"w", "x"}
    TransferBatch = 2
    Requests = {1, 2}
    Asking = {1}
    WRead = 3
    WHigh = 2
    CommitWindow = 1
    Verifying = {1, 2}
    KeyMaxAge = 1
    UnknownKIDRefresh = 1
    FetchMax = 1
    Limit = 1
    Replicas = {1, 2}
    Day = 4
    Minute = 0
    Takers = {1, 2}
    MemoryMaxDeliver = 3
    Advancers = {1, 2}
    Skew = 1
    Question = "liveness"
PROPERTIES
    CatchesUp
    WorkEnds
CHECK_DEADLOCK FALSE
