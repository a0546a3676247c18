SPECIFICATION Spec
CONSTANTS
    Scale = 2
    DirScale = 4
    CheckScale = 6
    Cache = 2
    Misses = 2
    MaxSweep = 0
    Cap = 2
    Start = 4
    MaxTime = 6
    MaxPost = 3
    MaxCrash = 0
    MaxFail = 1
    MaxFault = 2
    MaxConn = 1
PROPERTY WriteRecovers
CHECK_DEADLOCK FALSE
