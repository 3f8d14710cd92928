SPECIFICATION FairSpec
CONSTANTS
    Sessions = {s1, s2}
    Closer = closer
    Names = {n1}
    IDs = {i1}
    CustomIDs = {}
    Builtins = {"cancel", "next", "exit", "close"}
    Tasks = {t1, t2}
    Stepwise = {t1}
    MaxCalls = 1
    MaxActors = 1
    StopMayFail = TRUE
INVARIANT TypeOK
 
 
PROPERTY OverIsFreed
 
PROPERTY CloseEnds
