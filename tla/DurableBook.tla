---------------------------- MODULE DurableBook ----------------------------
(***************************************************************************)
(* What the metadata book promises to those who read it: of each peer it   *)
(* knows the newest metadata it was told of. What it knows is stored at    *)
(* once or not at all, and a restart may take it back to what is stored,   *)
(* never to anything else.                                                 *)
(***************************************************************************)
EXTENDS Integers

CONSTANTS
    Peers,      \* the peers
    Numbers,    \* the sequence numbers of metadata
    Nothing     \* below all numbers: no metadata

VARIABLES
    known,      \* what the book answers for each peer
    stored      \* what would be left of it after a crash

bookVars == <<known, stored>>

BookInit ==
    /\ known = [p \in Peers |-> Nothing]
    /\ stored = [p \in Peers |-> Nothing]

\* The book is told of metadata that is newer; storing it may fail.
Learn(p, n) ==
    /\ known[p] < n
    /\ known' = [known EXCEPT ![p] = n]
    /\ stored' \in {stored, [stored EXCEPT ![p] = n]}

\* The program stops and starts again. Before, it may store of some peers what it
\* knows of them.
Reopen ==
    /\ stored' = [p \in Peers |-> stored'[p]]
    /\ \A p \in Peers : stored'[p] \in {stored[p], known[p]}
    /\ known' = stored'

BookNext ==
    \/ \E p \in Peers, n \in Numbers : Learn(p, n)
    \/ Reopen

BookSpec == BookInit /\ [][BookNext]_bookVars
=============================================================================
