SPECIFICATION Spec
CONSTANTS
    j1 = j1
    j2 = j2
    w1 = w1
    w2 = w2
    s1 = s1
    s2 = s2
    NULL = NULL
    Jobs = {j1}
    Workers = {w1, w2}
    Agents = {w1, w2}
    WorkerOf <- OwnName
    Schedulers = {s1}
    MaxTime = 1
    Concurrency = 1
    RuntimeLimited = {j1}
    MemoryLimited = {j1}
    ForkingJobs = {}
    HealthPort = 80
    Faults = {"crash", "restart", "heartbeat", "probe", "db", "spawn", "instant", "shutdown"}
INVARIANTS
    TypeOK
    SingleExecutor
    TaskMatchesRow
    KilledBeforeReported
    RecordedEndsHappened
    FleetCountsEveryJob
PROPERTIES
    LifecycleImplemented
    
SYMMETRY WorkerSymmetry
