SPECIFICATION Spec
CONSTANTS
    Variances = {0, 30, 45}
    Instabilities = {0, 75}
    QueueBonuses = {14}
    Loads = {70, 110}
    MaxBlast = 2
    NameKinds = {"db", "other"}
    Clients = {c1, c2}
    MaxRequests = 2
SYMMETRY Symmetry
INVARIANTS
    ActSafe
    HighRiskHalts
    AutomationIsConfirmed
    UnknownIsNotReassuring
    PollIsOneAnalysis
CHECK_DEADLOCK FALSE
