SPECIFICATION ClientsSpec
CONSTANTS
    Conns = {c1, c2, c3}
    IdleExit = TRUE
    Backstop = TRUE
    Sweep = TRUE
INVARIANTS
    IdleTimerIsRight
PROPERTIES
    LivePeerIsKept
    UnusedDaemonLeaves
CHECK_DEADLOCK FALSE
