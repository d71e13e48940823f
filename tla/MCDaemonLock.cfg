SPECIFICATION Spec
CONSTANTS
    d1 = d1
    d2 = d2
    d3 = d3
    Procs <- MCProcs
    Nobody = Nobody
    MaxRetries = 2
INVARIANTS
    OneDaemonUnlessRaced
    StartFindsNoDaemon
    ReachableUnlessRaced
PROPERTIES
    StalePidfileIsCleared
CHECK_DEADLOCK FALSE
