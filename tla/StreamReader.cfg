SPECIFICATION Spec
CONSTANTS
    CutScale = 2
    Bump = 1
    Half = 16
    WrapHi = 5
    WrapLo = 2
    Times = {0, 6, 15}
    ResumeTs = 13
    NeedKf = TRUE
    StartDown = 1
    Pending = 2
    OpenLimit = 1
    MaxTags = 4
    MaxOpens = 2
INVARIANTS OneOperation
PROPERTIES FollowsProtocol TimeGoesOn SilenceEnds OpensAgain
CHECK_DEADLOCK FALSE
