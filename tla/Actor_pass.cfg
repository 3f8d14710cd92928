SPECIFICATION Spec
CONSTANTS
    p1 = p1
    p2 = p2
    p3 = p3
    p4 = p4
    p5 = p5
    p6 = p6
    k1 = k1
    Procs <- MCProcs
    Plans <- MCPlans
    Keys = {k1}
    None = None
INVARIANT OneKey
INVARIANT KeyFollowsHost
INVARIANT TopicsKept
CHECK_DEADLOCK FALSE
