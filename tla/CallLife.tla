------------------------------ MODULE CallLife ------------------------------
(***************************************************************************)
(* What a call promises to those who made it: it lives, it is over once    *)
(* its context is done, and only then are its resources freed.             *)
(***************************************************************************)
CONSTANT Calls     \* the calls
VARIABLE phase     \* the phase of each call

Phases == {"none", "live", "over", "freed"}

LifeInit == phase = [c \in Calls |-> "none"]

\* A call is made; its actor may already be gone, and the call over with it.
Make(c) ==
    /\ phase[c] = "none"
    /\ \E ph \in {"live", "over"} : phase' = [phase EXCEPT ![c] = ph]

\* One call ends, or several at once with their actor.
Finish(S) ==
    /\ S # {}
    /\ \A c \in S : phase[c] = "live"
    /\ phase' = [c \in Calls |-> IF c \in S THEN "over" ELSE phase[c]]

Free(c) ==
    /\ phase[c] = "over"
    /\ phase' = [phase EXCEPT ![c] = "freed"]

LifeNext ==
    \/ \E c \in Calls : Make(c) \/ Free(c)
    \/ \E S \in SUBSET Calls : Finish(S)

LifeSpec == LifeInit /\ [][LifeNext]_phase
=============================================================================
