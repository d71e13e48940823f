SPECIFICATION Spec
CONSTANTS
    w1 = w1
    w2 = w2
    Resolvers <- MCResolvers
    Settings <- MCSettings
    ChunkSize = 1
    BatchSize = 2
    MinParallel = 2
    NFiles = 3
    NRefs = 3
    Window = 2
    OldFrames = 1
    Soft = 1
    MaxPasses = 2
    MaxCrashes = 1
INVARIANTS
    StoredBeforeResolving
    FullTextIsTrue
    RowsAdmittedInOrder
    GrowthIsBounded
    NothingLeftBehind
PROPERTY
    IndexRunEnds
CHECK_DEADLOCK FALSE
