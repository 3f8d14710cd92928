---------------------------- MODULE RequestTable ----------------------------
(***************************************************************************)
(* What the table of open requests promises to those who answer them: a    *)
(* key stands for one request for ever, and a request is open until it is  *)
(* closed, which happens once. Entering and closing are atomic.            *)
(***************************************************************************)
CONSTANTS
    Requests,   \* the requests, 0 is none of them
    Keys        \* the keys

VARIABLES
    table,      \* the open request under each key, or 0
    given,      \* the keys that were given to a request so far
    closed      \* the requests that were closed

tableVars == <<table, given, closed>>

TableInit ==
    /\ table = [k \in Keys |-> 0]
    /\ given = {}
    /\ closed = {}

\* A request is entered under a key that nobody had before.
Enter(k, r) ==
    /\ k \notin given
    /\ r \notin closed
    /\ \A j \in Keys : table[j] # r
    /\ table' = [table EXCEPT ![k] = r]
    /\ given' = given \cup {k}
    /\ UNCHANGED closed

\* The request under a key is closed.
CloseKey(k) ==
    /\ table[k] # 0
    /\ closed' = closed \cup {table[k]}
    /\ table' = [table EXCEPT ![k] = 0]
    /\ UNCHANGED given

TableNext ==
    \/ \E k \in Keys, r \in Requests : Enter(k, r)
    \/ \E k \in Keys : CloseKey(k)

TableSpec == TableInit /\ [][TableNext]_tableVars
=============================================================================
