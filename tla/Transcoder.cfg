SPECIFICATION Spec
CONSTANTS
    w1 = w1
    w2 = w2
    w3 = w3
    w4 = w4
    c1 = c1
    c2 = c2
    a1 = a1
    a2 = a2
    b1 = b1
    Worker <- MCWorker
    PoolOf <- MCPoolOf
    Client <- MCClient
    Seg <- MCSeg
    ChannelOf <- MCChannelOf
    BlockKind <- MCBlockKind
    Late <- MCLate
    Ask <- MCAsk
    NoSeg = NoSeg
    Nobody = Nobody
    MaxAsk = 2
    MaxFault = 1
INVARIANTS  ChannelsApart 
PROPERTY Answered
CHECK_DEADLOCK FALSE
