------------------------------ MODULE MCTrack ------------------------------
(* A small instance of Track for TLC. *)
EXTENDS Track

Set(head, finalized) ==
    [op |-> "set", merge |-> TRUE,
     val |-> [f \in Fields |-> IF f = "head" THEN head ELSE finalized]]

ENR(by, seq) == [op |-> "enr", by |-> by, val |-> seq]
Register(by, st) == [op |-> "register", by |-> by, val |-> st]
Write(puts, dels) == [op |-> "write", puts |-> puts, dels |-> dels]

Plan(jobs, cmds) == [jobs |-> jobs, cmds |-> cmds]

\* Records that compete, a status against lookups and a close, merges into the
\* local status, and a batch that does not fit into the channel.
MCPlans ==
    {Plan({ENR("connect", 1), ENR("dv5", 2)}, {"ws"}),
     Plan({ENR("add", 1), ENR("dv5", 2)}, {"out"}),
     Plan({Register("poll", 2), Register("serve", 3), [op |-> "status"]}, {"poll", "serve"}),
     Plan({Register("req", 2), [op |-> "status"], [op |-> "close"]}, {"out"}),
     Plan({Set(0, 1), Set(1, 0)}, {}),
     Plan({Write(<<"misc", "claim">>, <<"addrs">>), ENR("connect", 1)}, Tees)}

MCMatch == [t \in Tees |-> IF t = "ws" THEN Keys \ {"priv"} ELSE Keys]
=============================================================================
