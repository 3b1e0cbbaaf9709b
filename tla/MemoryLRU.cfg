SPECIFICATION Spec
CONSTANTS
    Keys = {k1, k2, k3, k4}
    Values = {v1, v2}
    Miss = miss
    Capacity = 3
INVARIANTS
    KeepsTheRecentlyUsed
PROPERTY ImplementsCacheStore
CHECK_DEADLOCK FALSE
