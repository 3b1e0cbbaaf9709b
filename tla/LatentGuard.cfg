SPECIFICATION Spec
CONSTANTS
    Requests = {q1, q2}
    Rankings = {none, r1, r2}
    NoCauses = none
    MinObs = 3
    MaxObs = 12
INVARIANTS
    FlipIsSeen
    RareFlipFires
SYMMETRY Symmetry
CHECK_DEADLOCK FALSE
