SPECIFICATION Spec
CONSTANTS
    coarse = coarse
    fine = fine
    None = None
    FirstMesh = coarse
    SolutionIDs <- MCSolutionIDs
    Meshes <- MCMeshes
    Cells <- MCCells
    Vectors <- MCVectors
    RunTimes <- MCVectors
    PluginCouplings <- MCPluginCouplings
    SolvedFields = {"heat"}
    MaxAdaptivityStep = 0
    CacheSize = 2
    TimeTotal = 10
    Problems <- TransientProblems
INVARIANTS
    TypeOK
    AssertsHold
    CacheIsBounded
    StoredStepsMatchLengths
    FormulaIsExact
    EndsAtTotalTime
PROPERTY SolvingEnds
