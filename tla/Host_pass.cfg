SPECIFICATION FairSpec
CONSTANTS
    Listens = {a1}
    Procs = {p1, p2}
    Inbound = {s1}
    Machines <- MCMachines
    MaxEvents = 3
    MaxResolution = 2
    Answers <- MCAnswers
    IDFirst = TRUE
    Timeout = TRUE
 
INVARIANT ClosedIsQuiet
PROPERTY AddrsAnnounced
 
CHECK_DEADLOCK FALSE
