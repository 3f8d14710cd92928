------------------------------ MODULE MCActor ------------------------------
(* A small instance of Actor for TLC. *)
EXTENDS Actor, Sequences

CONSTANTS k1, p1, p2, p3, p4, p5, p6

Op(op) == [op |-> op]
Start(k) == [op |-> "start", key |-> k]
Create(switch) == [op |-> "create", switch |-> switch]
Enr(k, changed) ==
    [op |-> "enr", key |-> k, gen |-> TRUE, changed |-> changed, rmip |-> FALSE]

MCProcs == {p1, p2, p3, p4, p5, p6}

\* The commands of a sequence, and processes without a command.
Plan(s) ==
    LET names == <<p1, p2, p3, p4, p5, p6>>
    IN  [p \in MCProcs |-> LET i == CHOOSE i \in 1..6 : names[i] = p
                           IN  IF i <= Len(s) THEN s[i] ELSE Op("none")]

\* Keys that race, stores that are switched around a start and a stop, entries of
\* the ENR, nodes of discv5 that race, and joins and leaves of a topic.
MCPlans ==
    {Plan(<<Start(None), Start(k1), Enr(None, {"ip"}), Op("stop")>>),
     Plan(<<Start(None), Create(TRUE), Op("switch"), Op("stop"), Start(None)>>),
     Plan(<<Enr(k1, {"eth2"}), [Enr(None, {}) EXCEPT !.rmip = TRUE],
            [Enr(None, {}) EXCEPT !.gen = FALSE], Create(FALSE)>>),
     Plan(<<Enr(None, {}), Op("dv5"), Op("dv5"), Op("ping"), Op("random")>>),
     Plan(<<Start(None), Op("gossip"), Op("join"), Op("leave"), Op("leave"), Op("join")>>),
     Plan(<<Start(None), Op("gossip"), Op("join"), Op("log"), Op("events"), Op("leave")>>),
     Plan(<<Start(None), Op("gossip"), Op("gossip"), Op("join"), Op("join"), Op("publish")>>)}
=============================================================================
