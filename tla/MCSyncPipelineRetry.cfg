SPECIFICATION Spec
CONSTANTS
    h = h
    u = u
    a = a
    b = b
    Files <- MCHeaders
    Headers <- MCHeaders
    Users <- MCUsers
    Defs <- MCDefs
    DefAt <- MCDefAt
    NoDef = NoDef
    Ambiguous = Ambiguous
    NoManifest = NoManifest
    MaxChanges = 1
    MaxExtras = 0
INVARIANTS
    RetryNeverTrustsNewerContext
CHECK_DEADLOCK FALSE
