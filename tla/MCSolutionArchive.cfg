SPECIFICATION Spec
CONSTANTS
    a = a
    b = b
    coarse = coarse
    fine = fine
    v1 = v1
    v2 = v2
    rt = rt
    None = None
    SolutionIDs <- MCSolutionIDs
    Meshes <- MCMeshes
    Vectors <- MCVectors
    Cells <- MCCells
    RunTimes <- MCRunTimes
    CacheSize = 2
CONSTRAINT Bounds
CHECK_DEADLOCK FALSE
INVARIANTS
    TypeOK
    FilesMatchIndex
    CacheCoherent
    JsonMatchesIndex
    ArchiveIsComplete
PROPERTY StoreIsAMap
