SPECIFICATION PoolSpec
CONSTANTS
    Jobs = {j1, j2}
    NoJob = NoJob
    NWorkers = 3
    Workers <- MCWorkers
    MaxSize = 2
    RecycleInterval = 1
    CrashBudget = 2
    MaxConcurrentSpawn = 1
    MaxRecycles = 1
INVARIANTS
    JobsAccounted
    NoneStranded
PROPERTIES
    ServiceSpec
CHECK_DEADLOCK FALSE
