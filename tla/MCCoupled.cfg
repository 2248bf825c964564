SPECIFICATION Spec
CONSTANTS
    coarse = coarse
    fine = fine
    None = None
    FirstMesh = coarse
    SolutionIDs <- MCSolutionIDs
    Meshes <- MCMeshes
    Cells <- MCCells
    Vectors <- MCVectors
    RunTimes <- MCVectors
    PluginCouplings <- MCPluginCouplings
    SolvedFields = {"current", "elasticity", "heat", "magnetic"}
    MaxAdaptivityStep = 2
    CacheSize = 2
    TimeTotal = 4
    Problems <- CoupledProblems
INVARIANTS
    AssertsHold
    HeldSourcesStayCached
    CouplingsUseFinalSolutions
PROPERTY SolvingEnds
