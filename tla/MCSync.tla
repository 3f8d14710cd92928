------------------------------- MODULE MCSync -------------------------------
(* Small instances of Sync for TLC. *)
EXTENDS Sync

Range(start, count, step) ==
    [kind |-> "range", start |-> start, count |-> count, step |-> step,
     process |-> TRUE, store |-> TRUE]
Roots(roots, process, store) ==
    [kind |-> "root", roots |-> roots, process |-> process, store |-> store]

\* A range that fits, one of 1, 4 and 7 that overflows, and roots.
MCRequests ==
    {Range(1, 2, 1), Range(1, 3, 3), Roots(<<1, 2>>, FALSE, FALSE)}
=============================================================================
