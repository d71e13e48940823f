SPECIFICATION Spec
CONSTANTS
    fr = fr
    fd = fd
    d1 = d1
    Root = Root
    Files <- MCFiles
    Dirs <- MCDirs
    DirOf <- MCDirOf
    ScopedMax = 1
    WatchCap = 3
    MaxChanges = 3
INVARIANTS
    NewDirIsWatched
CHECK_DEADLOCK FALSE
