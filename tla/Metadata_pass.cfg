SPECIFICATION FairSpec
CONSTANTS
    Peers = {p1}
    Threads = {t1, t2}
    MaxSeq = 1
    MaxTries = 1
    MaxRestarts = 1
    MaxResets = 1
    StoreMayFail = TRUE
INVARIANT TriesBounded
INVARIANT ClaimIsHighest
PROPERTY MetaMonotone
PROPERTY ImplementsBook
PROPERTY MetaCatchesUp
