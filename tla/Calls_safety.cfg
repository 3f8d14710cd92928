SPECIFICATION Spec
CONSTANTS
    Sessions = {s1, s2}
    Closer = closer
    Names = {n1}
    IDs = {i1, i2, i3}
    CustomIDs = {i3}
    Builtins = {"kill", "lvl"}
    Tasks = {t1}
    Stepwise = {}
    MaxCalls = 2
    MaxActors = 2
    StopMayFail = FALSE
INVARIANT OngoingIsOpen
INVARIANT LogsReachMaker
INVARIANT KilledActorUnbound
PROPERTY ImplementsCallLife
SYMMETRY Symmetry
CHECK_DEADLOCK FALSE
