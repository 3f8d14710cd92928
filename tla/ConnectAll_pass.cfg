SPECIFICATION FairSpec
CONSTANTS
    Peers = {p1}
    Workers = {w1, w2}
    MaxRetries = 2
    PriorityFloor = 2
    QueueCap = 1
    MaxPeers = 1
    MaxCopies = 3
INVARIANT RetriedUntilBanned
PROPERTY StopReturns
CHECK_DEADLOCK FALSE
