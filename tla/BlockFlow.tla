------------------------------ MODULE BlockFlow ------------------------------
(***************************************************************************)
(* What a sync command promises: the blocks that come are handled one by   *)
(* one in the order in which they came, the peer is never more than two    *)
(* ahead, nothing is handled once the command has returned, and it returns *)
(* nil only when nothing is left and nothing more will come.               *)
(***************************************************************************)
EXTENDS Integers, Sequences

CONSTANTS
    Commands,   \* the commands
    Blocks      \* the blocks

VARIABLES
    came,       \* the blocks that came for each command
    taken,      \* the ones that it handled
    outcome     \* what it returned: none yet, nil or err

flowVars == <<came, taken, outcome>>

FlowInit ==
    /\ came = [c \in Commands |-> <<>>]
    /\ taken = [c \in Commands |-> <<>>]
    /\ outcome = [c \in Commands |-> "none"]

\* Two blocks at most are not handled: one in the hands of each end of the channel.
Ahead == 2

\* A block comes. It may do so after the command has given up.
Come(c, b) ==
    /\ outcome[c] # "nil"
    /\ Len(came[c]) < Len(taken[c]) + Ahead
    /\ came' = [came EXCEPT ![c] = Append(@, b)]
    /\ UNCHANGED <<taken, outcome>>

\* The next block is handled.
Take(c) ==
    /\ outcome[c] = "none"
    /\ Len(taken[c]) < Len(came[c])
    /\ taken' = [taken EXCEPT ![c] = Append(@, came[c][Len(@) + 1])]
    /\ UNCHANGED <<came, outcome>>

\* The command returns, once.
Finish(c, e) ==
    /\ outcome[c] = "none"
    /\ e = "nil" => taken[c] = came[c]
    /\ outcome' = [outcome EXCEPT ![c] = e]
    /\ UNCHANGED <<came, taken>>

FlowNext ==
    \E c \in Commands :
        \/ \E b \in Blocks : Come(c, b)
        \/ Take(c)
        \/ \E e \in {"nil", "err"} : Finish(c, e)

FlowSpec == FlowInit /\ [][FlowNext]_flowVars
=============================================================================
