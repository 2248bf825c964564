SPECIFICATION Spec
CONSTANTS
    Null = Null
    Points = {0, 1, 2}
    Angles = {0, 90}
    SegmentCounts = {4, 6}
    DefaultSegments = 4
    Shifts <- MCShifts
    FirstScene <- MCFirstScene
    Documents <- NoDocuments
    MaxNodes = 3
    MaxFaces = 2
    MaxEdits = 3
INVARIANT NoFaceIsCutLoose
CHECK_DEADLOCK FALSE
