SPECIFICATION Spec
CONSTANTS
    Settings <- MCSettings
    Norms <- MCNorms
    MaxIters = 4
    Hundred = 2
    One = 32
    MinDamping = 4
INVARIANTS
    TypeOK
    DampingInRange
    ResidualIsOfIterate
    JacobianIsRecent
PROPERTY IterationsEnd
