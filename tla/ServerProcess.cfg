SPECIFICATION Spec
CONSTANTS
    Requests = {q1, q2}
    Shapes = {s1, s2}
    NotYet = none
    Missing = missing
    Partial = partial
    Targets <- MCTargets
    SafeChars = {"a", "b", "c"}
    Nodes = {n1, n2}
    CacheSizes = {1, 2}
    HistorySizes = {1, 2}
    Values = {"v1"}
    Parsed = {"v1"}
INVARIANTS
    TypeOK
    SaveIsAtomic
    TrainingAccumulates
    ObservationsAreKept
SYMMETRY Symmetry
CHECK_DEADLOCK FALSE
