CONSTANTS
    Nodes = {n1, n2, n3, n4}
    NoNode = NoNode
    Infra = {absia}
    MaxCauses = 2
    MaxEdges = 4
    MaxTraced = 1
    MaxFlat = 1
    TraceAges = {14, 15}
SYMMETRY MCSymmetry
SPECIFICATION Spec
CHECK_DEADLOCK FALSE
INVARIANTS
    DSepIsTextbook
    AdjustmentIsValid
    HypothesisLeadsToTarget
    PhysicsRootsAreOrigins
    FusionAgreesWithPhysics
    ChainIsReal
    RootLeadsToTarget
PROPERTIES
    GraphIsKept
