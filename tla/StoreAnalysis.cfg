SPECIFICATION AnalysisSpec
CONSTANTS
    NodeIDs = {1, 2}
    Samples <- AnalysisSamples
    WindowArg = 3
    MinSamples = 2
    MaxPuts = 5
    MaxRemovals = 1
INVARIANTS
    WindowIsNewest
    DatasetInArrivalOrder
    FaultsAreRaces
PROPERTY
    Answered
