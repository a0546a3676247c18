SPECIFICATION Spec
CONSTANTS
    Max = 8
    Hdr = 2
    Sizes = {1, 3}
    Producers = {video, audio}
    NoOne = none
    MaxPush = 5
    RecLimit = 6
    Word = 2
INVARIANTS  Intact TokenPerFrame
PROPERTIES FirstInFirstOut PushReturns FramesLeave
CHECK_DEADLOCK FALSE
