SPECIFICATION Spec
CONSTANTS
    Scale = 2
    DirScale = 4
    CheckScale = 6
    Cache = 2
    Misses = 2
    MaxSweep = 1
    Cap = 2
    Start = 4
    MaxTime = 12
    MaxPost = 4
    MaxCrash = 1
    MaxFail = 1
    MaxFault = 2
    MaxConn = 2
INVARIANTS  FreshId LiveEdge HeaderMatches QueueOnDisk
CHECK_DEADLOCK FALSE
