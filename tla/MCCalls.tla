------------------------------ MODULE MCCalls ------------------------------
(* Small instances of Calls for TLC. *)
EXTENDS Calls, TLC

\* Sessions are alike, tasks are where none of them or all of them offer steps,
\* and so are the auto-generated IDs.
Symmetry ==
    Permutations(Sessions) \cup Permutations(Tasks) \cup Permutations(IDs \ CustomIDs)
=============================================================================
