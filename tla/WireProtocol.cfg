SPECIFICATION FairSpec
CONSTANTS
    Chan <- MCChan
    Messages <- MCMessages
    c1 = c1
    c2 = c2
    Wide <- MCWide
INVARIANT MessagesIntact
PROPERTY AllDelivered
CHECK_DEADLOCK FALSE
