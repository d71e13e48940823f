SPECIFICATION Spec
CONSTANTS
    h = h
    u = u
    a = a
    b = b
    Files <- MCHeaders
    Headers <- MCHeaders
    Users <- MCUsers
    Defs <- MCDefs
    DefAt <- MCDefAt
    NoDef = NoDef
    Ambiguous = Ambiguous
    NoManifest = NoManifest
    MaxChanges = 2
    MaxExtras = 2
INVARIANTS
    UnmarkedManifestIsTrue
    FullSyncRepairs
CONSTRAINT MCNoCause
CHECK_DEADLOCK FALSE
