SPECIFICATION Spec
CONSTANTS
    FieldIds <- MCFieldIds
    AnalysesOf <- MCAnalysesOf
    DefaultAnalysis <- MCDefaultAnalysis
    Couples <- MCCouples
    WeakForms <- MCWeakForms
    CouplingTypes <- MCCouplingTypes
    Names <- MCNames
    p = p
    q = q
    Points = {p, q}
    Files <- MCFiles
    Addresses = {1, 2}
    LocalOrders <- MCLocalOrders
    MaxRecipes = 1
    MaxCommands = 1
    MaxEdits = 3
CONSTRAINT Bounds
INVARIANTS
    TypeOK
    MarkersAreAlive
    CouplingsOfComputationHaveWeakForms
PROPERTIES
    CopyIsFaithful
    OpenedIsWhatWasSaved
CHECK_DEADLOCK FALSE
