SPECIFICATION Spec
CONSTANTS
    Settings <- StrictSettings
    Norms <- MCNorms
    MaxIters = 4
    Hundred = 2
    One = 32
    MinDamping = 4
PROPERTY AbortEnds
