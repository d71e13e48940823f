SPECIFICATION LockSpec
CONSTANTS
    p1 = p1
    p2 = p2
    p3 = p3
    Procs <- MCProcs
    NoFile = NoFile
    NoPid = NoPid
INVARIANTS
    ExclusiveUnlessBroken
    LockNotLeaked
PROPERTIES
    DeadLockIsCleared
CHECK_DEADLOCK FALSE
