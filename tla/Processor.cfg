SPECIFICATION FairSpec
CONSTANTS
    Guid <- MCGuid
    Url <- MCUrl
    RtmpUrl <- MCRtmpUrl
    Pid <- MCPid
    g1 = g1
    g2 = g2
    g3 = g3
    u1 = u1
    u2 = u2
    p1 = p1
    p2 = p2
    p3 = p3
    p4 = p4
    None = None
    Lists <- MCLists
    MaxProcess = 4
    WaitTicks = 1
    MaxEdit = 1
    MaxDeath = 2
    MaxFault = 1
INVARIANTS SlotsAgree 
PROPERTIES KillsDeleted 
