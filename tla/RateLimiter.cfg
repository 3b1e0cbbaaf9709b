SPECIFICATION LimiterSpec
CONSTANTS
    IPs = {ip1, ip2}
    Cost = 2
    Burst = 2
    Idle = 3
    MaxTime = 7
INVARIANTS
    WindowBound
PROPERTY NoNeedlessRefusal
CHECK_DEADLOCK FALSE
