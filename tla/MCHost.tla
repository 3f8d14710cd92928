------------------------------- MODULE MCHost -------------------------------
(* A small instance of Host for TLC. *)
EXTENDS Host

\* Nothing, and a name that resolves to itself and an address.
MCAnswers == {<<>>, <<"dns", "ip">>}

Machine(routes, ifaces, err) == [routes |-> routes, ifaces |-> ifaces, err |-> err]

\* With a default route, and with the loopback only.
MCMachines == {Machine({"eth"}, Ifaces, FALSE), Machine({}, {"lo"}, FALSE)}
=============================================================================
