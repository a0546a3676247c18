SPECIFICATION RelaySpec
CONSTANTS
    N = 2
    Cap = 3
    MaxFail = 2
INVARIANTS QueuesBounded HeadInFront
