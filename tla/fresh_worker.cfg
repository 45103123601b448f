SPECIFICATION Spec
CONSTANTS
    j1 = j1
    j2 = j2
    w1 = w1
    w2 = w2
    s1 = s1
    s2 = s2
    NULL = NULL
    Jobs = {j1}
    Workers = {w1}
    Agents = {w1}
    WorkerOf <- OwnName
    Schedulers = {s1}
    MaxTime = 1
    Concurrency = 1
    RuntimeLimited = {}
    MemoryLimited = {}
    ForkingJobs = {}
    HealthPort = 80
    Faults = {"crash", "restart"}
PROPERTIES
    FreshWorkerLeftAlone
