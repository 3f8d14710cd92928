SPECIFICATION FairSpec
CONSTANTS
    u1 = u1
    u2 = u2
    u3 = u3
    Conns = {u1, u2, u3}
    Plans <- MCPlans
    Auth = {u1, u3}
    Includes = {i1, i2}
    None = None
INVARIANT OpenDataKept
INVARIANT DefaultActorRestored
 
PROPERTY ExitClosesConn
CHECK_DEADLOCK FALSE
