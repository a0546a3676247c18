SPECIFICATION Spec
CONSTANTS
    Scale = 2
    DirScale = 3
    CheckScale = 6
    Cache = 2
    Misses = 2
    MaxSweep = 1
    Cap = 2
    Start = 5
    MaxTime = 15
    MaxPost = 3
    MaxCrash = 1
    MaxFail = 0
    MaxFault = 1
    MaxConn = 2
PROPERTIES PaddedWhenDown QueueDrains NoEarlyRemoval
CHECK_DEADLOCK FALSE
