SPECIFICATION SignalSpec
CONSTANTS
    NodeIDs = {1, 2}
    MaxTick = 3
    MaxSamples = 3
    PoolSizes = {1, 2}
    ChannelSize = 2
    MaxArrivalWindow = 1
INVARIANTS
    SignalTypeOK
    WindowIsContiguous
    NothingLostWithinLimits
PROPERTY PhaseEnds
CHECK_DEADLOCK FALSE
