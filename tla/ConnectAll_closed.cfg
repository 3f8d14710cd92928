SPECIFICATION Spec
CONSTANTS
    Peers = {p1}
    Workers = {w1}
    MaxRetries = 2
    PriorityFloor = 2
    QueueCap = 2
    MaxPeers = 1
    MaxCopies = 1
INVARIANT NoSendOnClosed
CHECK_DEADLOCK FALSE
