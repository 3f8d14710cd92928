SPECIFICATION FairSpec
CONSTANTS
    Listeners = {l1}
    MaxStreams = 2
    Sessions = {c1, c2}
    Sizes = {8, 9}
    MinSize = 8
    MaxSize = 8
    Snappy = TRUE
INVARIANT Answerable
INVARIANT ClosesItsOwn
PROPERTY ImplementsTable
 
CHECK_DEADLOCK FALSE
