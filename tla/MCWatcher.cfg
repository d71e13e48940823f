SPECIFICATION Spec
CONSTANTS
    fr = fr
    fd = fd
    d1 = d1
    Root = Root
    Files <- MCFiles
    Dirs <- MCDirs
    DirOf <- MCDirOf
    ScopedMax = 1
    WatchCap = 2
    MaxChanges = 3
INVARIANTS
    NoReportedChangeForgotten
    WorkIsScheduled
    IndexingIsHonest
PROPERTIES
    EventuallyIndexed
CHECK_DEADLOCK FALSE
