SPECIFICATION Spec
CONSTANTS
    r1 = r1
    r2 = r2
    g1 = g1
    g2 = g2
    g3 = g3
    u1 = u1
    u2 = u2
    None = None
    Empty = Empty
    Dead = Dead
    Run <- MCRun
    Guid <- MCGuid
    Url <- MCUrl
    Proper <- MCProper
    Lists <- MCLists
    MaxStart = 4
    MaxEdit = 2
    MaxFault = 1
SYMMETRY Instances
INVARIANTS Exclusive  
CHECK_DEADLOCK FALSE
