------------------------------ MODULE MCShell ------------------------------
(* A small instance of Shell for TLC. *)
EXTENDS Shell, TLC

CONSTANTS u1, u2, u3

Plan(k1, s1, k2, s2, k3, s3) ==
    [kind   |-> (u1 :> k1) @@ (u2 :> k2) @@ (u3 :> k3),
     script |-> (u1 :> s1) @@ (u2 :> s2) @@ (u3 :> s3)]

\* Users of a server, one of them refused, and the processes with one user.
MCPlans ==
    {Plan("post", <<"call">>, "net", <<"lvl", "exit">>, "post", <<>>),
     Plan("ws", <<"fail", "grab", "exit">>, "ws", <<>>, None, <<>>),
     Plan("ssh", <<"call", "interrupt">>, None, <<>>, "net", <<"lvl">>),
     Plan("net", <<"call", "call">>, None, <<>>, "post", <<"clear", "grab">>),
     Plan("net", <<"include", "include", "me", "fail">>, "post", <<>>, None, <<>>),
     Plan("bare", <<"call", "fail", "exit">>, None, <<>>, None, <<>>),
     Plan("shell", <<"include", "call", "exit">>, None, <<>>, None, <<>>),
     Plan("file", <<"call", "grab", "fail", "call">>, None, <<>>, None, <<>>)}
=============================================================================
