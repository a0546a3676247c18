SPECIFICATION Spec
CONSTANTS
    get = get
    post = post
    NoReq = NoReq
    Req <- MCReq
    Method <- MCMethod
    Client <- MCClient
    MaxRetries = 1
    MaxCancel = 1
INVARIANTS PostOnce OneResult
PROPERTY DialogEnds
CHECK_DEADLOCK FALSE
