SPECIFICATION FairSpec
CONSTANTS
    Procs = {p1, p2}
    Plans <- MCPlans
    Stored = 1
    Cap = 1
    Dest = "evcsv"
    Match <- MCMatch
    NoJob = NoJob
    NoOne = NoOne
 
INVARIANT UndisturbedUpdateHolds
INVARIANT NoSendOnClosed
 
CHECK_DEADLOCK FALSE
