---------------------------- MODULE MCConnectAll ----------------------------
(* Small instances of ConnectAll for TLC. *)
EXTENDS ConnectAll, TLC

Symmetry == Permutations(Workers)
=============================================================================
