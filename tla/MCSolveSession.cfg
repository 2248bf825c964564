SPECIFICATION Spec
CONSTANTS
    Document <- MCDocument
    MaxSteps = 1
    MaxObjects = 3
    MaxSolves = 2
    MaxOpens = 1
INVARIANTS
    TypeOK
    AbortIsOfThisSolve
    SolvedIsRegistered
    ShownFieldIsAlive
PROPERTIES
    AbortEndsTheSolve
    WindowIsUnblocked
CHECK_DEADLOCK FALSE
