SPECIFICATION FairSpec
CONSTANTS
    W = 2
    Syncs = {s1, s2}
    Requests <- MCRequests
INVARIANT RequestedOnly
 
PROPERTY HandleReturns
PROPERTY ImplementsFlow
CHECK_DEADLOCK FALSE
