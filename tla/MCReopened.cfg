SPECIFICATION Spec
CONSTANTS
    Document <- MCDocument
    MaxSteps = 1
    MaxObjects = 3
    MaxSolves = 1
    MaxOpens = 2
INVARIANT RegisteredIsOnDisk
CHECK_DEADLOCK FALSE
