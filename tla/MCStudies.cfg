SPECIFICATION Spec
CONSTANTS
    Kinds <- MCKinds
    Goals <- MCGoals
    Clears = {TRUE}
    Evaluations = 2
    MaxStudies = 1
    MaxPagmo = 1
    MaxComputations = 4
    MaxRuns = 2
    MaxFiles = 2
INVARIANTS
    TypeOK
    ListedIsRegistered
    NothingBegunAfterAbort
    FrontIsPareto
PROPERTIES
    StudyEnds
CHECK_DEADLOCK FALSE
