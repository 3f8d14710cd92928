---------------------------- MODULE CallsProofs ----------------------------
(***************************************************************************)
(* What holds of Calls for every number of sessions, calls, actors, IDs    *)
(* and tasks.                                                              *)
(***************************************************************************)
EXTENDS Calls, TLAPS

-----------------------------------------------------------------------------
(* The parts of the inductive invariant that are not properties themselves. *)

\* A session that is killing an actor knows which one.
KillHasVictim ==
    \A s \in Sessions : pc[s] \in {"killClose", "killDelete"} => victim[s] \in 1..born

\* A session that is in MakeCall works on a call of its own.
MakerInv ==
    \A s \in Sessions : pc[s] \in {"load", "exec"} =>
        /\ cur[s] \in 1..made
        /\ stage[cur[s]] = pc[s]
        /\ maker[cur[s]] = s

\* A call exists once it was made, and has no stop function before it runs.
StageInv ==
    \A c \in Calls :
        /\ stage[c] = "none" <=> c \notin 1..made
        /\ stage[c] \in {"none", "load", "failed"} => onStop[c] = {}

\* Only custom IDs are shared.
IDInv ==
    \A c, d \in 1..made : c # d /\ callId[c] = callId[d] => callId[c] \in CustomIDs

\* An actor in the registry is there under its own name.
ActorInv ==
    /\ \A n \in Names : actors[n] # 0 => actors[n] \in 1..born /\ nameOf[actors[n]] = n
    /\ closedActors \subseteq 1..born
-----------------------------------------------------------------------------
(* Types. *)

\* A call number is extended by one more value of the same type.
LEMMA ExtendType ==
    ASSUME NEW S, NEW n \in Nat, NEW f \in [1..n -> S], NEW v \in S
    PROVE  /\ Extend(f, n, v) \in [1..(n + 1) -> S]
           /\ Extend(f, n, v)[n + 1] = v
           /\ \A i \in 1..n : Extend(f, n, v)[i] = f[i]
BY DEF Extend

\* Every actor that GetActor returns has a number, and the registry of actors
\* keeps its type.
LEMMA GetActorType ==
    ASSUME TypeOK, NEW n \in Names, NEW a \in Actors, GetActor(n, a)
    PROVE  /\ born' \in 0..MaxActors
           /\ nameOf' \in [1..born' -> Names]
           /\ actors' \in [Names -> Actors \cup {0}]
<1>1. CASE actors[n] # 0
  BY <1>1 DEF TypeOK, GetActor
<1>2. CASE actors[n] = 0
  <2>1. born' = born + 1 /\ nameOf' = Extend(nameOf, born, n) /\ born < MaxActors
    BY <1>2 DEF GetActor
  <2>2. born \in Nat /\ nameOf \in [1..born -> Names]
    BY DEF TypeOK
  <2>3. nameOf' \in [1..(born + 1) -> Names]
    BY <2>1, <2>2, ExtendType
  <2> QED
    BY <1>2, <2>1, <2>2, <2>3, CallsAssumption DEF TypeOK, GetActor, Actors
<1> QED
  BY <1>1, <1>2

\* The type invariant holds initially.
LEMMA InitType == Init => TypeOK
<1> SUFFICES ASSUME Init PROVE TypeOK
  OBVIOUS
<1> USE CallsAssumption
<1>1. /\ pc \in [Procs -> SessionPC \cup CloserPC]
      /\ \A s \in Sessions : pc[s] \in SessionPC
      /\ pc[Closer] \in CloserPC
  BY DEF Init, Procs, SessionPC, CloserPC
<1>2. /\ made \in 0..MaxCalls
      /\ maker \in [1..made -> Sessions]
      /\ callId \in [1..made -> IDs]
      /\ callActor \in [1..made -> Actors]
      /\ born \in 0..MaxActors
      /\ nameOf \in [1..born -> Names]
  BY DEF Init
<1>3. stage \in [Calls -> Stages]
  BY DEF Init, Stages
<1> QED
  BY <1>1, <1>2, <1>3 DEF Init, TypeOK

\* Every step of a session keeps the types of all variables.
LEMMA SessionType ==
    ASSUME TypeOK, KillHasVictim, NEW s \in Sessions, SessionStep(s)
    PROVE  TypeOK'
<1> USE CallsAssumption
<1>p. Sessions \subseteq Procs /\ Closer \in Procs /\ s # Closer /\ s \in Procs
  BY DEF Procs
<1>1. ASSUME NEW n \in Names, NEW id \in IDs, MakeCall(s, n, id) PROVE TypeOK'
  <2>1. PICK a \in Actors : GetActor(n, a) /\ callActor' = Extend(callActor, made, a)
    BY <1>1 DEF MakeCall
  <2>2. /\ born' \in 0..MaxActors
        /\ nameOf' \in [1..born' -> Names]
        /\ actors' \in [Names -> Actors \cup {0}]
    BY <2>1, GetActorType
  <2>3. /\ made \in Nat
        /\ maker \in [1..made -> Sessions]
        /\ callId \in [1..made -> IDs]
        /\ callActor \in [1..made -> Actors]
    BY DEF TypeOK
  <2>4. /\ made' = made + 1
        /\ maker' \in [1..(made + 1) -> Sessions]
        /\ callId' \in [1..(made + 1) -> IDs]
        /\ callActor' \in [1..(made + 1) -> Actors]
    BY <1>1, <2>1, <2>3, ExtendType DEF MakeCall
  <2>5. made + 1 \in Calls
    BY <1>1, <2>3 DEF MakeCall, Calls
  <2>6. /\ made' \in 0..MaxCalls
        /\ maker' \in [1..made' -> Sessions]
        /\ callId' \in [1..made' -> IDs]
        /\ callActor' \in [1..made' -> Actors]
    BY <2>3, <2>4, <2>5 DEF Calls
  <2>7. /\ interests' \in [Sessions -> SUBSET IDs]
        /\ stage' \in [Calls -> Stages]
        /\ cur' \in [Procs -> Calls \cup {0}]
        /\ pc' \in [Procs -> SessionPC \cup CloserPC]
        /\ \A q \in Sessions : pc'[q] \in SessionPC
        /\ pc'[Closer] \in CloserPC
    BY <1>1, <1>p, <2>5 DEF MakeCall, TypeOK, Stages, SessionPC
  <2> QED
    BY <1>1, <2>2, <2>6, <2>7 DEF MakeCall, TypeOK, taskVars, closeVars
<1>2. CASE LoadFail(s)
  <2>1. /\ interests' \in [Sessions -> SUBSET IDs]
        /\ cancelled' \in [Calls -> BOOLEAN]
        /\ stage' \in [Calls -> Stages]
    BY <1>2 DEF LoadFail, RemoveInterests, TypeOK, Stages
  <2>2. /\ cur' \in [Procs -> Calls \cup {0}]
        /\ lastCall' \in [Sessions -> Calls \cup {0}]
        /\ pc' \in [Procs -> SessionPC \cup CloserPC]
        /\ \A q \in Sessions : pc'[q] \in SessionPC
        /\ pc'[Closer] \in CloserPC
    BY <1>2, <1>p DEF LoadFail, TypeOK, SessionPC
  <2> QED
    BY <1>2, <2>1, <2>2 DEF LoadFail, TypeOK, actorVars, closeVars, SessionPC, Stages
<1>3. CASE LoadOk(s)
  BY <1>3, <1>p DEF LoadOk, TypeOK, taskVars, actorVars, closeVars, SessionPC, Stages
<1>4. ASSUME NEW t \in Tasks, RegisterStop(s, t) PROVE TypeOK'
  BY <1>4 DEF RegisterStop, Chain, TypeOK, sessVars, callVars, actorVars, closeVars
<1>5. CASE ExecReturn(s)
  BY <1>5, <1>p DEF ExecReturn, TypeOK, taskVars, actorVars, closeVars, SessionPC, Stages
<1>6. ASSUME NEW c \in Calls, NextCmd(s, c) \/ CancelCmd(s, c) PROVE TypeOK'
  <2>1. CASE NextCmd(s, c)
    BY <2>1, <1>p DEF NextCmd, TypeOK, callVars, taskVars, actorVars, closeVars, SessionPC
  <2>2. CASE CancelCmd(s, c)
    BY <2>2, <1>p DEF CancelCmd, TypeOK, callVars, taskVars, actorVars, closeVars, SessionPC
  <2> QED
    BY <1>6, <2>1, <2>2
<1>7. ASSUME NEW t \in Tasks, RequestStep(s, t) PROVE TypeOK'
  BY <1>7, <1>p DEF RequestStep, TypeOK, callVars, actorVars, closeVars, SessionPC
<1>8. CASE StepReturn(s) \/ NextOver(s) \/ NextTimeout(s)
  BY <1>8, <1>p DEF StepReturn, NextOver, NextTimeout, SessionReturns, TypeOK,
                    callVars, taskVars, actorVars, closeVars, SessionPC
<1>9. ASSUME NEW n \in Names, KillLoad(s, n) PROVE TypeOK'
  BY <1>9, <1>p DEF KillLoad, TypeOK, callVars, taskVars, actorVars, closeVars, SessionPC
<1>10. CASE KillClose(s)
  <2>1. victim[s] \in Actors
    BY <1>10 DEF KillClose, KillHasVictim, TypeOK, Actors
  <2> QED
    BY <1>10, <1>p, <2>1 DEF KillClose, TypeOK, callVars, taskVars, closeVars, SessionPC
<1>11. CASE KillDelete(s)
  BY <1>11, <1>p DEF KillDelete, Unbound, TypeOK, callVars, taskVars, closeVars, SessionPC
<1>12. ASSUME NEW id \in IDs, SetLevel(s, id) PROVE TypeOK'
  BY <1>12 DEF SetLevel, TypeOK, callVars, taskVars, actorVars, closeVars
<1>13. CASE ExitSession(s)
  BY <1>13, <1>p DEF ExitSession, TypeOK, callVars, taskVars, actorVars, closeVars, SessionPC
<1> QED
  BY <1>1, <1>2, <1>3, <1>4, <1>5, <1>6, <1>7, <1>8, <1>9, <1>10, <1>11, <1>12, <1>13
  DEF SessionStep

\* Every other step keeps the types of all variables.
LEMMA OtherType ==
    ASSUME TypeOK,
           \/ \E c \in Calls : FreeStep(c)
           \/ \E c \in Calls, t \in Tasks : TaskStep(c, t)
           \/ \E p \in Procs : RequestStop(p)
           \/ CloseStep
           \/ UNCHANGED vars
    PROVE  TypeOK'
<1> USE CallsAssumption
<1>p. Sessions \subseteq Procs /\ Closer \in Procs /\ Closer \notin Sessions
  BY DEF Procs
<1>1. ASSUME NEW c \in Calls, FreeStep(c) PROVE TypeOK'
  <2>1. CASE FreeWait(c)
    BY <2>1 DEF FreeWait, TypeOK, sessVars, actorVars, closeVars, Stages
  <2>2. CASE FreeInterests(c)
    BY <2>2 DEF FreeInterests, RemoveInterests, TypeOK, taskVars, actorVars, closeVars, Stages
  <2>3. CASE FreeDelete(c)
    BY <2>3 DEF FreeDelete, Deleted, TypeOK, sessVars, taskVars, actorVars, Stages
  <2> QED
    BY <1>1, <2>1, <2>2, <2>3 DEF FreeStep
<1>2. ASSUME NEW c \in Calls, NEW t \in Tasks, TaskStep(c, t) PROVE TypeOK'
  <2>1. CASE TaskEnds(c, t)
    BY <2>1 DEF TaskEnds, TypeOK, sessVars, callVars, actorVars, closeVars
  <2>2. CASE StepOffer(c, t)
    BY <2>2 DEF StepOffer, TypeOK, sessVars, callVars, actorVars, closeVars
  <2>3. CASE StepOver(c, t)
    BY <2>3 DEF StepOver, TypeOK, sessVars, callVars, actorVars, closeVars
  <2> QED
    BY <1>2, <2>1, <2>2, <2>3 DEF TaskStep
<1>3. ASSUME NEW p \in Procs, StopLock(p) PROVE TypeOK'
  BY <1>3, <1>p DEF StopLock, TypeOK, callVars, actorVars, closeVars, SessionPC, CloserPC, Procs
<1>4. ASSUME NEW p \in Procs, NEW failed \in SUBSET Tasks, StopRun(p, failed) PROVE TypeOK'
  <2>1. /\ running' \in [Calls -> SUBSET Tasks]
        /\ offers' \in [Calls -> SUBSET Tasks]
        /\ locked' \in [Calls -> BOOLEAN]
    BY <1>4 DEF StopRun, TypeOK, Unlocked
  <2>2. /\ onStop' \in [Calls -> SUBSET Tasks]
        /\ cancelled' \in [Calls -> BOOLEAN]
        /\ lastCall' \in [Sessions -> Calls \cup {0}]
    <3>1. CASE Stopped(failed)
      <4>1. /\ onStop' = [onStop EXCEPT ![cur[p]] = {}]
            /\ cancelled' = [cancelled EXCEPT ![cur[p]] = TRUE]
            /\ lastCall' = [s \in Sessions |->
                   IF s = p /\ lastCall[s] = cur[p] THEN 0 ELSE lastCall[s]]
        BY <1>4, <3>1, Zenon DEF StopRun
      <4> QED
        BY <4>1 DEF TypeOK
    <3>2. CASE ~Stopped(failed)
      BY <1>4, <3>2 DEF StopRun, TypeOK
    <3> QED
      BY <3>1, <3>2
  <2>3. /\ pc' \in [Procs -> SessionPC \cup CloserPC]
        /\ \A q \in Sessions : pc'[q] \in SessionPC
        /\ pc'[Closer] \in CloserPC
        /\ cur' \in [Procs -> Calls \cup {0}]
    BY <1>4, <1>p DEF StopRun, TypeOK, SessionPC, CloserPC, Procs
  <2> QED
    BY <1>4, <2>1, <2>2, <2>3 DEF StopRun, TypeOK, callVars, actorVars, closeVars
<1>5. CASE CloseStep
  <2>1. CASE CloseStart
    BY <2>1, <1>p DEF CloseStart, TypeOK, callVars, taskVars, actorVars, CloserPC
  <2>2. ASSUME NEW id \in IDs, CloseVisit(id) PROVE TypeOK'
    BY <2>2, <1>p DEF CloseVisit, TypeOK, callVars, taskVars, actorVars, CloserPC
  <2>3. CASE CloseRangeEnd
    BY <2>3, <1>p DEF CloseRangeEnd, TypeOK, callVars, taskVars, actorVars, closeVars, CloserPC
  <2>4. CASE CloseActors
    BY <2>4, <1>p DEF CloseActors, TypeOK, callVars, taskVars, closeVars, CloserPC
  <2>5. CASE CloseGlobals
    BY <2>5, <1>p DEF CloseGlobals, TypeOK, callVars, taskVars, closeVars, CloserPC
  <2> QED
    BY <1>5, <2>1, <2>2, <2>3, <2>4, <2>5 DEF CloseStep
<1>6. CASE UNCHANGED vars
  BY <1>6 DEF TypeOK, vars, sessVars, callVars, taskVars, actorVars, closeVars
<1> QED
  BY <1>1, <1>2, <1>3, <1>4, <1>5, <1>6 DEF RequestStop
-----------------------------------------------------------------------------
(* Frames: which actions change which variables. *)

MakesCall == \E s \in Sessions, n \in Names, id \in IDs : MakeCall(s, n, id)

CallFrame == MakesCall \/ UNCHANGED <<made, maker, callId, callActor>>

StageFrame ==
    \/ MakesCall
    \/ \E s \in Sessions : LoadFail(s) \/ LoadOk(s) \/ ExecReturn(s)
    \/ \E c \in Calls : FreeStep(c)
    \/ UNCHANGED stage

StopFrame ==
    \/ \E s \in Sessions, t \in Tasks : RegisterStop(s, t)
    \/ \E p \in Procs, failed \in SUBSET Tasks : StopRun(p, failed)
    \/ UNCHANGED <<onStop, spawned>>

RunFrame ==
    \/ \E s \in Sessions, t \in Tasks : RegisterStop(s, t)
    \/ \E p \in Procs, failed \in SUBSET Tasks : StopRun(p, failed)
    \/ \E c \in Calls, t \in Tasks : TaskEnds(c, t)
    \/ UNCHANGED running

CancelFrame ==
    \/ \E s \in Sessions : LoadFail(s)
    \/ \E c \in Calls : FreeWait(c)
    \/ \E p \in Procs, failed \in SUBSET Tasks : StopRun(p, failed)
    \/ UNCHANGED cancelled

OngoingFrame ==
    \/ \E s \in Sessions : LoadOk(s)
    \/ \E c \in Calls : FreeDelete(c)
    \/ UNCHANGED ongoing

InterestFrame ==
    \/ MakesCall
    \/ \E s \in Sessions : LoadFail(s)
    \/ \E c \in Calls : FreeInterests(c)
    \/ \E s \in Sessions, id \in IDs : SetLevel(s, id)
    \/ UNCHANGED interests

ActorFrame ==
    \/ MakesCall
    \/ \E s \in Sessions : KillDelete(s)
    \/ UNCHANGED <<born, nameOf, actors>>

ClosedFrame ==
    \/ \E s \in Sessions : KillClose(s)
    \/ CloseActors
    \/ UNCHANGED closedActors

VictimFrame ==
    \/ \E s \in Sessions, n \in Names : KillLoad(s, n)
    \/ \E s \in Sessions : KillDelete(s)
    \/ UNCHANGED victim

GlobalFrame == CloseGlobals \/ UNCHANGED globalDone

\* Every variable changes only in the actions its frame names.
LEMMA Frames ==
    ASSUME [Next]_vars
    PROVE  /\ CallFrame
           /\ StageFrame
           /\ StopFrame
           /\ RunFrame
           /\ CancelFrame
           /\ OngoingFrame
           /\ InterestFrame
           /\ ActorFrame
           /\ ClosedFrame
           /\ VictimFrame
<1> USE DEF Next, SessionStep, TaskStep, RequestStop, CloseStep, Exited,
            NextCmd, RequestStep, StepReturn, NextOver, NextTimeout, SessionReturns,
            CancelCmd, ExitSession, StepOffer, StepOver, StopLock, CloseStart,
            CloseVisit, CloseRangeEnd, CloseGlobals,
            vars, sessVars, callVars, taskVars, actorVars, closeVars
<1>1. CallFrame
  BY ZenonT(60) DEF CallFrame, MakesCall, FreeStep, LoadFail, LoadOk,
                    ExecReturn, FreeWait, FreeInterests, FreeDelete,
                    RegisterStop, StopRun, TaskEnds, SetLevel, KillDelete,
                    KillClose, KillLoad, CloseActors
<1>2. StageFrame
  BY ZenonT(60) DEF StageFrame, MakesCall, RegisterStop, StopRun, TaskEnds,
                    SetLevel, KillDelete, KillClose, KillLoad, CloseActors
<1>3. StopFrame
  BY ZenonT(60) DEF StopFrame, MakeCall, FreeStep, LoadFail, LoadOk,
                    ExecReturn, FreeWait, FreeInterests, FreeDelete, TaskEnds,
                    SetLevel, KillDelete, KillClose, KillLoad, CloseActors
<1>4. RunFrame
  BY ZenonT(60) DEF RunFrame, MakeCall, FreeStep, LoadFail, LoadOk,
                    ExecReturn, FreeWait, FreeInterests, FreeDelete, SetLevel,
                    KillDelete, KillClose, KillLoad, CloseActors
<1>5. CancelFrame
  BY ZenonT(60) DEF CancelFrame, MakeCall, FreeStep, LoadOk, ExecReturn,
                    FreeInterests, FreeDelete, RegisterStop, TaskEnds,
                    SetLevel, KillDelete, KillClose, KillLoad, CloseActors
<1>6. OngoingFrame
  BY ZenonT(60) DEF OngoingFrame, MakeCall, FreeStep, LoadFail, ExecReturn,
                    FreeWait, FreeInterests, RegisterStop, StopRun, TaskEnds,
                    SetLevel, KillDelete, KillClose, KillLoad, CloseActors
<1>7. InterestFrame
  BY ZenonT(60) DEF InterestFrame, MakesCall, FreeStep, LoadOk, ExecReturn,
                    FreeWait, FreeDelete, RegisterStop, StopRun, TaskEnds,
                    KillDelete, KillClose, KillLoad, CloseActors
<1>8. ActorFrame
  BY ZenonT(60) DEF ActorFrame, MakesCall, FreeStep, LoadFail, LoadOk,
                    ExecReturn, FreeWait, FreeInterests, FreeDelete,
                    RegisterStop, StopRun, TaskEnds, SetLevel, KillClose,
                    KillLoad, CloseActors
<1>9. ClosedFrame
  BY ZenonT(60) DEF ClosedFrame, MakeCall, FreeStep, LoadFail, LoadOk,
                    ExecReturn, FreeWait, FreeInterests, FreeDelete,
                    RegisterStop, StopRun, TaskEnds, SetLevel, KillDelete,
                    KillLoad
<1>10. VictimFrame
  BY ZenonT(60) DEF VictimFrame, MakeCall, FreeStep, LoadFail, LoadOk,
                    ExecReturn, FreeWait, FreeInterests, FreeDelete,
                    RegisterStop, StopRun, TaskEnds, SetLevel, KillClose,
                    CloseActors
<1> QED
  BY <1>1, <1>2, <1>3, <1>4, <1>5, <1>6, <1>7, <1>8, <1>9, <1>10

\* The global context ends in CloseGlobals only.
LEMMA GlobalFrames == ASSUME [Next]_vars PROVE GlobalFrame
BY ZenonT(60) DEF GlobalFrame, Next, SessionStep, TaskStep, RequestStop, CloseStep, Exited,
       MakeCall, LoadFail, LoadOk, RegisterStop, ExecReturn, NextCmd, RequestStep,
       StepReturn, NextOver, NextTimeout, SessionReturns, CancelCmd, KillLoad, KillClose,
       KillDelete, SetLevel, ExitSession, FreeStep, FreeWait, FreeInterests, FreeDelete,
       TaskEnds, StepOffer, StepOver, StopLock, StopRun, CloseStart, CloseVisit,
       CloseRangeEnd, CloseActors, vars, sessVars, callVars, taskVars, actorVars, closeVars

\* A session enters MakeCall and KillActor at their start, goes through them step
\* by step, and nobody else changes the call or the actor it works on.
PcFrame(s) ==
    /\ pc'[s] \in {"load", "exec"} =>
          \/ \E n \in Names, id \in IDs : MakeCall(s, n, id)
          \/ LoadOk(s)
          \/ pc'[s] = pc[s] /\ cur'[s] = cur[s]
    /\ pc'[s] \in {"killClose", "killDelete"} =>
          \/ \E n \in Names : KillLoad(s, n)
          \/ KillClose(s)
          \/ pc'[s] = pc[s] /\ victim'[s] = victim[s]
    /\ pc[s] = "killDelete" =>
          KillDelete(s) \/ (pc'[s] = pc[s] /\ victim'[s] = victim[s])

\* Close does not go back.
CloserFrame == pc[Closer] \in {"globals", "closed"} => pc'[Closer] \in {"globals", "closed"}

\* Both frames hold of every step.
LEMMA PcFrames ==
    ASSUME TypeOK, [Next]_vars
    PROVE  CloserFrame /\ \A s \in Sessions : PcFrame(s)
<1>p. /\ pc \in [Procs -> SessionPC \cup CloserPC]
      /\ cur \in [Procs -> Calls \cup {0}]
      /\ victim \in [Sessions -> Actors \cup {0}]
      /\ Sessions \subseteq Procs /\ Closer \in Procs /\ Closer \notin Sessions
  BY CallsAssumption DEF TypeOK, Procs
<1>1. ASSUME NEW q \in Sessions, NEW n \in Names, NEW id \in IDs, MakeCall(q, n, id)
      PROVE  CloserFrame /\ \A s \in Sessions : PcFrame(s)
  BY <1>1, <1>p DEF PcFrame, CloserFrame, MakeCall
<1>2. ASSUME NEW q \in Sessions, LoadFail(q)
      PROVE  CloserFrame /\ \A s \in Sessions : PcFrame(s)
  BY <1>2, <1>p DEF PcFrame, CloserFrame, LoadFail
<1>3. ASSUME NEW q \in Sessions, LoadOk(q)
      PROVE  CloserFrame /\ \A s \in Sessions : PcFrame(s)
  BY <1>3, <1>p DEF PcFrame, CloserFrame, LoadOk
<1>4. ASSUME NEW q \in Sessions, ExecReturn(q)
      PROVE  CloserFrame /\ \A s \in Sessions : PcFrame(s)
  BY <1>4, <1>p DEF PcFrame, CloserFrame, ExecReturn
<1>5. ASSUME NEW q \in Sessions, NEW c \in Calls, NextCmd(q, c)
      PROVE  CloserFrame /\ \A s \in Sessions : PcFrame(s)
  BY <1>5, <1>p DEF PcFrame, CloserFrame, NextCmd
<1>6. ASSUME NEW q \in Sessions, NEW t \in Tasks, RequestStep(q, t)
      PROVE  CloserFrame /\ \A s \in Sessions : PcFrame(s)
  BY <1>6, <1>p DEF PcFrame, CloserFrame, RequestStep
<1>7. ASSUME NEW q \in Sessions, StepReturn(q) \/ NextOver(q) \/ NextTimeout(q)
      PROVE  CloserFrame /\ \A s \in Sessions : PcFrame(s)
  BY <1>7, <1>p DEF PcFrame, CloserFrame, StepReturn, NextOver, NextTimeout, SessionReturns
<1>8. ASSUME NEW q \in Sessions, NEW c \in Calls, CancelCmd(q, c)
      PROVE  CloserFrame /\ \A s \in Sessions : PcFrame(s)
  BY <1>8, <1>p DEF PcFrame, CloserFrame, CancelCmd
<1>9. ASSUME NEW q \in Sessions, NEW n \in Names, KillLoad(q, n)
      PROVE  CloserFrame /\ \A s \in Sessions : PcFrame(s)
  BY <1>9, <1>p DEF PcFrame, CloserFrame, KillLoad
<1>10. ASSUME NEW q \in Sessions, KillClose(q)
      PROVE  CloserFrame /\ \A s \in Sessions : PcFrame(s)
  BY <1>10, <1>p DEF PcFrame, CloserFrame, KillClose
<1>11. ASSUME NEW q \in Sessions, KillDelete(q)
      PROVE  CloserFrame /\ \A s \in Sessions : PcFrame(s)
  BY <1>11, <1>p DEF PcFrame, CloserFrame, KillDelete
<1>12. ASSUME NEW q \in Sessions, ExitSession(q)
      PROVE  CloserFrame /\ \A s \in Sessions : PcFrame(s)
  BY <1>12, <1>p DEF PcFrame, CloserFrame, ExitSession
<1>13. ASSUME NEW q \in Procs, StopLock(q)
      PROVE  CloserFrame /\ \A s \in Sessions : PcFrame(s)
  BY <1>13, <1>p DEF PcFrame, CloserFrame, StopLock
<1>14. ASSUME NEW q \in Procs, NEW failed \in SUBSET Tasks, StopRun(q, failed)
      PROVE  CloserFrame /\ \A s \in Sessions : PcFrame(s)
  BY <1>14, <1>p DEF PcFrame, CloserFrame, StopRun
<1>15. ASSUME CloseStep
      PROVE  CloserFrame /\ \A s \in Sessions : PcFrame(s)
  BY <1>15, <1>p DEF PcFrame, CloserFrame, CloseStep, CloseStart, CloseVisit, CloseRangeEnd, CloseActors, CloseGlobals
<1>16. CASE UNCHANGED <<pc, cur, victim>>
  BY <1>16 DEF PcFrame, CloserFrame
<1>17. ASSUME NEW q \in Sessions, NEW t \in Tasks, RegisterStop(q, t)
      PROVE UNCHANGED <<pc, cur, victim>>
  BY <1>17 DEF RegisterStop, sessVars
<1>18. ASSUME NEW q \in Sessions, NEW id \in IDs, SetLevel(q, id)
      PROVE UNCHANGED <<pc, cur, victim>>
  BY <1>18 DEF SetLevel
<1>19. ASSUME NEW c \in Calls, FreeStep(c) PROVE UNCHANGED <<pc, cur, victim>>
  BY <1>19 DEF FreeStep, FreeWait, FreeInterests, FreeDelete, sessVars
<1>20. ASSUME NEW c \in Calls, NEW t \in Tasks, TaskStep(c, t)
      PROVE UNCHANGED <<pc, cur, victim>>
  BY <1>20 DEF TaskStep, TaskEnds, StepOffer, StepOver, sessVars
<1>21. CASE Exited \/ UNCHANGED vars
  BY <1>21, <1>16 DEF Exited, vars, sessVars
<1> QED
  BY <1>1, <1>2, <1>3, <1>4, <1>5, <1>6, <1>7, <1>8, <1>9, <1>10, <1>11, <1>12, <1>13, <1>14, <1>15, <1>16, <1>17, <1>18, <1>19, <1>20, <1>21
  DEF Next, SessionStep, RequestStop
-----------------------------------------------------------------------------
(* The inductive invariant, part by part. *)

\* What MakeCall does to the calls that were made before, and to the new one.
LEMMA MadeCall ==
    ASSUME TypeOK, NEW s \in Sessions, NEW n \in Names, NEW id \in IDs, MakeCall(s, n, id)
    PROVE  /\ made \in Nat /\ made' = made + 1 /\ made + 1 \in Calls
           /\ \A c \in 1..made : maker'[c] = maker[c] /\ callId'[c] = callId[c]
           /\ maker'[made + 1] = s /\ callId'[made + 1] = id
           /\ stage' = [stage EXCEPT ![made + 1] = "load"]
<1>1. /\ made \in Nat /\ made + 1 \in Calls
      /\ maker \in [1..made -> Sessions]
      /\ callId \in [1..made -> IDs]
  BY CallsAssumption DEF TypeOK, MakeCall, Calls
<1>2. /\ made' = made + 1
      /\ maker' = Extend(maker, made, s)
      /\ callId' = Extend(callId, made, id)
      /\ stage' = [stage EXCEPT ![made + 1] = "load"]
  BY DEF MakeCall
<1>3. /\ Extend(maker, made, s)[made + 1] = s
      /\ \A c \in 1..made : Extend(maker, made, s)[c] = maker[c]
  BY <1>1 DEF Extend
<1>4. /\ Extend(callId, made, id)[made + 1] = id
      /\ \A c \in 1..made : Extend(callId, made, id)[c] = callId[c]
  BY <1>1 DEF Extend
<1> QED
  BY <1>1, <1>2, <1>3, <1>4

\* Every call that exists is one of Calls.
LEMMA MadeCalls == TypeOK => 1..made \subseteq Calls
BY CallsAssumption DEF TypeOK, Calls

\* MakerInv is preserved.
LEMMA MakerStep ==
    ASSUME TypeOK, MakerInv, StageInv, [Next]_vars
    PROVE  MakerInv'
<1> SUFFICES ASSUME NEW s \in Sessions, pc'[s] \in {"load", "exec"}
             PROVE  /\ cur'[s] \in 1..made'
                    /\ stage'[cur'[s]] = pc'[s]
                    /\ maker'[cur'[s]] = s
  BY DEF MakerInv
<1>t. /\ pc \in [Procs -> SessionPC \cup CloserPC]
      /\ cur \in [Procs -> Calls \cup {0}]
      /\ stage \in [Calls -> Stages]
      /\ s \in Procs /\ made \in Nat
  BY DEF TypeOK, Procs
<1>1. ASSUME NEW n \in Names, NEW id \in IDs, MakeCall(s, n, id)
      PROVE  /\ cur'[s] \in 1..made'
             /\ stage'[cur'[s]] = pc'[s]
             /\ maker'[cur'[s]] = s
  <2>1. cur'[s] = made + 1 /\ pc'[s] = "load"
    BY <1>1, <1>t DEF MakeCall
  <2> QED
    BY <1>1, <1>t, <2>1, MadeCall
<1>2. CASE LoadOk(s)
  <2>1. cur[s] \in 1..made /\ maker[cur[s]] = s /\ cur[s] \in Calls
    BY <1>2, MadeCalls DEF LoadOk, MakerInv
  <2>2. /\ cur'[s] = cur[s] /\ pc'[s] = "exec"
        /\ made' = made /\ maker' = maker
        /\ stage' = [stage EXCEPT ![cur[s]] = "exec"]
    BY <1>2, <1>t DEF LoadOk
  <2> QED
    BY <1>t, <2>1, <2>2
<1>3. CASE pc'[s] = pc[s] /\ cur'[s] = cur[s] /\ ~LoadOk(s)
  <2>1. cur[s] \in 1..made /\ maker[cur[s]] = s /\ stage[cur[s]] = pc[s] /\ cur[s] \in Calls
    BY <1>3, MadeCalls DEF MakerInv
  <2>2. cur[s] \in 1..made' /\ maker'[cur[s]] = s
    <3>1. CASE MakesCall
      BY <3>1, <2>1, <1>t, MadeCall DEF MakesCall
    <3>2. CASE UNCHANGED <<made, maker, callId, callActor>>
      BY <3>2, <2>1
    <3> QED
      BY <3>1, <3>2, Frames DEF CallFrame
  <2>3. stage'[cur[s]] = stage[cur[s]]
    <3>1. CASE MakesCall
      BY <3>1, <2>1, <1>t, MadeCall DEF MakesCall
    <3>2. ASSUME NEW q \in Sessions, LoadFail(q) \/ LoadOk(q) \/ ExecReturn(q)
          PROVE  stage'[cur[s]] = stage[cur[s]]
      <4>1. q # s
        BY <3>2, <1>3, <1>t DEF LoadFail, ExecReturn
      <4>2. pc[q] \in {"load", "exec"} /\ maker[cur[q]] = q
        BY <3>2 DEF LoadFail, LoadOk, ExecReturn, MakerInv
      <4>3. cur[q] # cur[s]
        BY <4>1, <4>2, <2>1
      <4> QED
        BY <3>2, <4>3, <2>1, <1>t DEF LoadFail, LoadOk, ExecReturn
    <3>3. ASSUME NEW c \in Calls, FreeStep(c) PROVE stage'[cur[s]] = stage[cur[s]]
      <4>1. c # cur[s]
        BY <3>3, <2>1, <1>3 DEF FreeStep, FreeWait, FreeInterests, FreeDelete
      <4> QED
        BY <3>3, <4>1, <2>1, <1>t DEF FreeStep, FreeWait, FreeInterests, FreeDelete
    <3> QED
      BY <3>1, <3>2, <3>3, Frames DEF StageFrame
  <2> QED
    BY <1>3, <2>1, <2>2, <2>3
<1> QED
  BY <1>1, <1>2, <1>3, PcFrames DEF PcFrame

\* StageInv is preserved.
LEMMA StageStep ==
    ASSUME TypeOK, MakerInv, StageInv, [Next]_vars
    PROVE  StageInv'
<1> SUFFICES ASSUME NEW c \in Calls
             PROVE  /\ stage'[c] = "none" <=> c \notin 1..made'
                    /\ stage'[c] \in {"none", "load", "failed"} => onStop'[c] = {}
  BY DEF StageInv
<1>t. stage \in [Calls -> Stages] /\ onStop \in [Calls -> SUBSET Tasks] /\ made \in Nat
  BY DEF TypeOK
<1>i. /\ stage[c] = "none" <=> c \notin 1..made
      /\ stage[c] \in {"none", "load", "failed"} => onStop[c] = {}
  BY DEF StageInv
<1>1. \/ stage'[c] = stage[c] /\ (c \in 1..made' <=> c \in 1..made)
      \/ c = made + 1 /\ stage[c] = "none" /\ stage'[c] = "load" /\ made' = made + 1
      \/ /\ stage[c] \in {"load", "exec", "wait", "unset", "delete"}
         /\ stage'[c] # "none" /\ made' = made
         /\ stage'[c] \in {"load", "failed"} => stage[c] = "load"
  <2>1. CASE MakesCall
    <3>1. made' = made + 1 /\ stage' = [stage EXCEPT ![made + 1] = "load"]
      BY <2>1, MadeCall DEF MakesCall
    <3>2. CASE c = made + 1
      BY <3>1, <3>2, <1>t, <1>i
    <3>3. CASE c # made + 1
      BY <3>1, <3>3, <1>t DEF Calls
    <3> QED
      BY <3>2, <3>3
  <2>2. ASSUME NEW s \in Sessions, LoadFail(s) \/ LoadOk(s) \/ ExecReturn(s)
        PROVE  \/ stage'[c] = stage[c] /\ made' = made
               \/ /\ stage[c] \in {"load", "exec"}
                  /\ stage'[c] # "none" /\ made' = made
                  /\ stage'[c] \in {"load", "failed"} => stage[c] = "load"
    <3>1. stage[cur[s]] = pc[s] /\ pc[s] \in {"load", "exec"}
      BY <2>2 DEF MakerInv, LoadFail, LoadOk, ExecReturn
    <3>2. CASE LoadFail(s)
      BY <3>1, <3>2, <1>t DEF LoadFail
    <3>3. CASE LoadOk(s)
      BY <3>1, <3>3, <1>t DEF LoadOk
    <3>4. CASE ExecReturn(s)
      BY <3>1, <3>4, <1>t DEF ExecReturn
    <3> QED
      BY <2>2, <3>2, <3>3, <3>4
  <2>3. ASSUME NEW d \in Calls, FreeStep(d)
        PROVE  \/ stage'[c] = stage[c] /\ made' = made
               \/ /\ stage[c] \in {"wait", "unset", "delete"}
                  /\ stage'[c] \in {"unset", "delete", "freed"} /\ made' = made
    BY <2>3, <1>t DEF FreeStep, FreeWait, FreeInterests, FreeDelete
  <2>4. CASE UNCHANGED stage /\ ~MakesCall
    BY <2>4, Frames DEF CallFrame
  <2> QED
    BY <2>1, <2>2, <2>3, <2>4, Frames DEF StageFrame
<1>2. onStop'[c] = onStop[c] \/ onStop'[c] = {} \/ (stage[c] = "exec" /\ stage'[c] = "exec")
  <2>1. ASSUME NEW s \in Sessions, NEW t \in Tasks, RegisterStop(s, t)
        PROVE  onStop'[c] = onStop[c] \/ (stage[c] = "exec" /\ stage'[c] = "exec")
    BY <2>1, <1>t DEF RegisterStop, MakerInv, callVars
  <2>2. ASSUME NEW p \in Procs, NEW failed \in SUBSET Tasks, StopRun(p, failed)
        PROVE  onStop'[c] = onStop[c] \/ onStop'[c] = {}
    <3>1. onStop' = [onStop EXCEPT ![cur[p]] = {}] \/ onStop' = onStop
      BY <2>2, Zenon DEF StopRun
    <3> QED
      BY <3>1, <1>t
  <2> QED
    BY <2>1, <2>2, Frames DEF StopFrame
<1> QED
  BY <1>i, <1>1, <1>2, <1>t

\* IDInv is preserved: a new ID is custom, or was never used.
LEMMA IDStep ==
    ASSUME TypeOK, IDInv, [Next]_vars
    PROVE  IDInv'
<1>1. ASSUME NEW s \in Sessions, NEW n \in Names, NEW id \in IDs, MakeCall(s, n, id)
      PROVE  IDInv'
  <2>1. id \in CustomIDs \/ \A c \in 1..made : callId[c] # id
    BY <1>1 DEF MakeCall, FreshID
  <2> QED
    BY <1>1, <2>1, MadeCall DEF IDInv
<1>2. CASE UNCHANGED <<made, maker, callId, callActor>>
  BY <1>2 DEF IDInv
<1> QED
  BY <1>1, <1>2, Frames DEF CallFrame, MakesCall

\* TaskCovered is preserved.
LEMMA CoveredStep ==
    ASSUME TypeOK, TaskCovered, [Next]_vars
    PROVE  TaskCovered'
<1>t. /\ onStop \in [Calls -> SUBSET Tasks]
      /\ running \in [Calls -> SUBSET Tasks]
      /\ spawned \in [Calls -> BOOLEAN]
  BY DEF TypeOK
<1>1. ASSUME NEW s \in Sessions, NEW t \in Tasks, RegisterStop(s, t) PROVE TaskCovered'
  BY <1>1, <1>t DEF RegisterStop, Chain, TaskCovered
<1>2. ASSUME NEW p \in Procs, NEW failed \in SUBSET Tasks, StopRun(p, failed)
      PROVE  TaskCovered'
  <2>1. /\ running' = [running EXCEPT ![cur[p]] = @ \ (onStop[cur[p]] \ failed)]
        /\ spawned' = spawned
    BY <1>2 DEF StopRun
  <2>2. \/ failed = {} /\ onStop' = [onStop EXCEPT ![cur[p]] = {}]
        \/ onStop' = onStop
    BY <1>2, Zenon DEF StopRun, Stopped
  <2> QED
    BY <2>1, <2>2, <1>t DEF TaskCovered
<1>3. ASSUME NEW c \in Calls, NEW t \in Tasks, TaskEnds(c, t) PROVE TaskCovered'
  BY <1>3, <1>t DEF TaskEnds, TaskCovered
<1>4. CASE UNCHANGED running /\ UNCHANGED <<onStop, spawned>>
  BY <1>4 DEF TaskCovered
<1> QED
  BY <1>1, <1>2, <1>3, <1>4, Frames DEF StopFrame, RunFrame

\* Calls that are open, or about to be, exist.
LEMMA OpenExists ==
    ASSUME TypeOK, StageInv, NEW c \in Calls, stage[c] # "none"
    PROVE  c \in 1..made /\ callId[c] \in IDs /\ maker[c] \in Sessions
BY DEF StageInv, TypeOK

\* A session that loads or runs a call has its own one in that stage.
LEMMA MakerOf ==
    ASSUME TypeOK, MakerInv, NEW s \in Sessions, pc[s] \in {"load", "exec"}
    PROVE  cur[s] \in 1..made /\ cur[s] \in Calls /\ stage[cur[s]] = pc[s]
BY MadeCalls DEF MakerInv

\* OngoingIsOpen is preserved.
LEMMA OngoingStep ==
    ASSUME TypeOK, MakerInv, StageInv, OngoingIsOpen, [Next]_vars
    PROVE  OngoingIsOpen'
<1> SUFFICES ASSUME NEW id \in IDs, NEW c, c = ongoing'[id], c # 0
             PROVE  stage'[c] \in OpenStages /\ callId'[c] = id
  BY DEF OngoingIsOpen, OpenStages, Open
<1>t. /\ stage \in [Calls -> Stages] /\ made \in Nat
      /\ ongoing \in [IDs -> Calls \cup {0}]
      /\ callId \in [1..made -> IDs]
  BY DEF TypeOK
<1>1. ASSUME NEW s \in Sessions, LoadOk(s) PROVE stage'[c] \in OpenStages /\ callId'[c] = id
  <2>1. cur[s] \in 1..made /\ cur[s] \in Calls
    BY <1>1, MakerOf DEF LoadOk
  <2>2. /\ ongoing' = [ongoing EXCEPT ![callId[cur[s]]] = cur[s]]
        /\ stage' = [stage EXCEPT ![cur[s]] = "exec"]
        /\ callId' = callId
    BY <1>1 DEF LoadOk
  <2>3. CASE id = callId[cur[s]]
    BY <2>1, <2>2, <2>3, <1>t DEF OpenStages, Open
  <2>4. CASE id # callId[cur[s]]
    BY <2>1, <2>2, <2>4, <1>t DEF OpenStages, Open, OngoingIsOpen
  <2> QED
    BY <2>3, <2>4
<1>2. ASSUME NEW d \in Calls, FreeDelete(d) PROVE stage'[c] \in OpenStages /\ callId'[c] = id
  <2>1. d \in 1..made /\ callId[d] \in IDs
    BY <1>2, OpenExists DEF FreeDelete
  <2>2. /\ ongoing' = [ongoing EXCEPT ![callId[d]] = 0]
        /\ stage' = [stage EXCEPT ![d] = "freed"]
        /\ callId' = callId
    BY <1>2 DEF FreeDelete, Deleted
  <2>3. id # callId[d] /\ ongoing[id] = c /\ c \in Calls
    BY <2>1, <2>2, <1>t
  <2>4. c # d
    BY <2>3 DEF OngoingIsOpen
  <2> QED
    BY <2>2, <2>3, <2>4, <1>t DEF OpenStages, Open, OngoingIsOpen
<1>3. CASE UNCHANGED ongoing /\ ~(\E s \in Sessions : LoadOk(s)) /\ ~(\E d \in Calls : FreeDelete(d))
  <2>1. c \in Calls /\ Open(c) /\ callId[c] = id
    BY <1>3, <1>t DEF OngoingIsOpen
  <2>2. c \in 1..made
    BY <2>1, OpenExists DEF OpenStages, Open
  <2>3. callId'[c] = id
    BY <2>1, <2>2, Frames, MadeCall DEF CallFrame, MakesCall
  <2>4. stage'[c] \in OpenStages
    <3>1. CASE MakesCall
      BY <3>1, <2>1, <2>2, <1>t, MadeCall DEF MakesCall, OpenStages, Open
    <3>2. ASSUME NEW s \in Sessions, LoadFail(s) PROVE stage'[c] \in OpenStages
      <4>1. cur[s] \in Calls /\ stage[cur[s]] = "load"
        BY <3>2, MakerOf DEF LoadFail
      <4> QED
        BY <3>2, <4>1, <2>1, <1>t DEF LoadFail, OpenStages, Open
    <3>3. ASSUME NEW s \in Sessions, ExecReturn(s) PROVE stage'[c] \in OpenStages
      BY <3>3, <2>1, <1>t DEF ExecReturn, OpenStages, Open
    <3>4. ASSUME NEW d \in Calls, FreeWait(d) \/ FreeInterests(d) PROVE stage'[c] \in OpenStages
      BY <3>4, <2>1, <1>t DEF FreeWait, FreeInterests, OpenStages, Open
    <3>5. CASE UNCHANGED stage
      BY <3>5, <2>1 DEF OpenStages, Open
    <3> QED
      BY <1>3, <3>1, <3>2, <3>3, <3>4, <3>5, Frames DEF StageFrame, FreeStep
  <2> QED
    BY <2>3, <2>4
<1> QED
  BY <1>1, <1>2, <1>3, Frames DEF OngoingFrame

\* OpenIsOngoing is preserved.
LEMMA ListedStep ==
    ASSUME TypeOK, MakerInv, StageInv, IDInv, OpenIsOngoing, [Next]_vars
    PROVE  OpenIsOngoing'
<1> SUFFICES ASSUME NEW c \in 1..made', stage'[c] \in OpenStages, callId'[c] \notin CustomIDs
             PROVE  ongoing'[callId'[c]] = c
  BY DEF OpenIsOngoing, OpenStages, Open
<1>t. /\ stage \in [Calls -> Stages] /\ made \in Nat
      /\ ongoing \in [IDs -> Calls \cup {0}]
      /\ callId \in [1..made -> IDs]
  BY DEF TypeOK
<1>1. CASE MakesCall
  <2>1. c # made + 1
    BY <1>1, <1>t, MadeCall DEF MakesCall, OpenStages, Open
  <2>2. c \in 1..made /\ c \in Calls
    BY <1>1, <2>1, <1>t, MadeCall, MadeCalls DEF MakesCall
  <2>3. callId'[c] = callId[c] /\ stage'[c] = stage[c]
    BY <1>1, <2>1, <2>2, <1>t, MadeCall DEF MakesCall
  <2>4. ongoing' = ongoing
    BY <1>1 DEF MakesCall, MakeCall
  <2> QED
    BY <2>2, <2>3, <2>4 DEF OpenIsOngoing, OpenStages, Open
<1>2. CASE ~MakesCall
  <2>1. made' = made /\ callId' = callId /\ c \in 1..made /\ c \in Calls
    BY <1>2, Frames, MadeCalls DEF CallFrame
  <2>2. ASSUME NEW s \in Sessions, LoadOk(s) PROVE ongoing'[callId'[c]] = c
    <3>1. cur[s] \in 1..made /\ cur[s] \in Calls
      BY <2>2, MakerOf DEF LoadOk
    <3>2. /\ ongoing' = [ongoing EXCEPT ![callId[cur[s]]] = cur[s]]
          /\ stage' = [stage EXCEPT ![cur[s]] = "exec"]
      BY <2>2 DEF LoadOk
    <3>3. CASE c = cur[s]
      BY <2>1, <3>1, <3>2, <3>3, <1>t
    <3>4. CASE c # cur[s]
      <4>1. callId[c] # callId[cur[s]]
        BY <2>1, <3>1, <3>4 DEF IDInv
      <4>2. Open(c)
        BY <2>1, <3>1, <3>2, <3>4, <1>t DEF OpenStages, Open
      <4> QED
        BY <2>1, <3>1, <3>2, <4>1, <4>2, <1>t DEF OpenIsOngoing
    <3> QED
      BY <3>3, <3>4
  <2>3. ASSUME NEW d \in Calls, FreeDelete(d) PROVE ongoing'[callId'[c]] = c
    <3>1. d \in 1..made
      BY <2>3, OpenExists DEF FreeDelete
    <3>2. /\ ongoing' = [ongoing EXCEPT ![callId[d]] = 0]
          /\ stage' = [stage EXCEPT ![d] = "freed"]
      BY <2>3 DEF FreeDelete, Deleted
    <3>3. c # d
      BY <3>2, <1>t DEF OpenStages, Open
    <3>4. callId[c] # callId[d]
      BY <2>1, <3>1, <3>3 DEF IDInv
    <3>5. Open(c)
      BY <2>1, <3>2, <3>3, <1>t DEF OpenStages, Open
    <3> QED
      BY <2>1, <3>1, <3>2, <3>4, <3>5, <1>t DEF OpenIsOngoing
  <2>4. CASE UNCHANGED ongoing /\ ~(\E s \in Sessions : LoadOk(s)) /\ ~(\E d \in Calls : FreeDelete(d))
    <3>1. Open(c)
      <4>1. ASSUME NEW s \in Sessions, LoadFail(s) PROVE Open(c)
        BY <4>1, <2>1, <1>t, MakerOf DEF LoadFail, OpenStages, Open
      <4>2. ASSUME NEW s \in Sessions, ExecReturn(s) PROVE Open(c)
        BY <4>2, <2>1, <1>t, MakerOf DEF ExecReturn, OpenStages, Open
      <4>3. ASSUME NEW d \in Calls, FreeWait(d) \/ FreeInterests(d) PROVE Open(c)
        BY <4>3, <2>1, <1>t DEF FreeWait, FreeInterests, OpenStages, Open
      <4>4. CASE UNCHANGED stage
        BY <4>4 DEF OpenStages, Open
      <4> QED
        BY <1>2, <2>4, <4>1, <4>2, <4>3, <4>4, Frames DEF StageFrame, FreeStep
    <3> QED
      BY <2>1, <2>4, <3>1 DEF OpenIsOngoing
  <2> QED
    BY <2>2, <2>3, <2>4, Frames DEF OngoingFrame
<1> QED
  BY <1>1, <1>2

\* The stages in which the maker of a call still receives its logs.
LogStages == {"load", "exec", "wait", "unset"}

\* LogsReachMaker is preserved.
LEMMA LogsStep ==
    ASSUME TypeOK, MakerInv, StageInv, IDInv, LogsReachMaker, [Next]_vars
    PROVE  LogsReachMaker'
<1> SUFFICES ASSUME NEW c \in 1..made', stage'[c] \in LogStages, callId'[c] \notin CustomIDs
             PROVE  callId'[c] \in interests'[maker'[c]]
  BY DEF LogsReachMaker, LogStages
<1>t. /\ stage \in [Calls -> Stages] /\ made \in Nat
      /\ interests \in [Sessions -> SUBSET IDs]
      /\ callId \in [1..made -> IDs]
      /\ maker \in [1..made -> Sessions]
  BY DEF TypeOK
<1>1. ASSUME NEW s \in Sessions, NEW n \in Names, NEW id \in IDs, MakeCall(s, n, id)
      PROVE  callId'[c] \in interests'[maker'[c]]
  <2>1. interests' = [interests EXCEPT ![s] = @ \cup {id}]
    BY <1>1 DEF MakeCall
  <2>2. CASE c = made + 1
    BY <1>1, <2>1, <2>2, <1>t, MadeCall
  <2>3. CASE c # made + 1
    <3>1. c \in 1..made /\ c \in Calls
      BY <1>1, <2>3, <1>t, MadeCall, MadeCalls
    <3>2. callId'[c] = callId[c] /\ maker'[c] = maker[c] /\ stage'[c] = stage[c]
      BY <1>1, <2>3, <3>1, <1>t, MadeCall
    <3> QED
      BY <2>1, <3>1, <3>2, <1>t DEF LogsReachMaker, LogStages
  <2> QED
    BY <2>2, <2>3
<1>2. CASE ~MakesCall
  <2>1. made' = made /\ callId' = callId /\ maker' = maker /\ c \in 1..made /\ c \in Calls
    BY <1>2, Frames, MadeCalls DEF CallFrame
  <2>2. ASSUME NEW s \in Sessions, LoadFail(s) PROVE callId'[c] \in interests'[maker'[c]]
    <3>1. cur[s] \in 1..made /\ cur[s] \in Calls
      BY <2>2, MakerOf DEF LoadFail
    <3>2. /\ interests' = [q \in Sessions |-> interests[q] \ {callId[cur[s]]}]
          /\ stage' = [stage EXCEPT ![cur[s]] = "failed"]
      BY <2>2 DEF LoadFail, RemoveInterests
    <3>3. c # cur[s]
      BY <3>1, <3>2, <1>t DEF LogStages
    <3>4. callId[c] # callId[cur[s]]
      BY <2>1, <3>1, <3>3 DEF IDInv
    <3>5. stage[c] \in LogStages
      BY <2>1, <3>2, <3>3, <1>t
    <3> QED
      BY <2>1, <3>2, <3>4, <3>5, <1>t DEF LogsReachMaker, LogStages
  <2>3. ASSUME NEW d \in Calls, FreeInterests(d) PROVE callId'[c] \in interests'[maker'[c]]
    <3>1. d \in 1..made
      BY <2>3, OpenExists DEF FreeInterests
    <3>2. /\ interests' = [q \in Sessions |-> interests[q] \ {callId[d]}]
          /\ stage' = [stage EXCEPT ![d] = "delete"]
      BY <2>3 DEF FreeInterests, RemoveInterests
    <3>3. c # d
      BY <3>2, <1>t DEF LogStages
    <3>4. callId[c] # callId[d]
      BY <2>1, <3>1, <3>3 DEF IDInv
    <3>5. stage[c] \in LogStages
      BY <2>1, <3>2, <3>3, <1>t
    <3> QED
      BY <2>1, <3>2, <3>4, <3>5, <1>t DEF LogsReachMaker, LogStages
  <2>4. CASE ~(\E s \in Sessions : LoadFail(s)) /\ ~(\E d \in Calls : FreeInterests(d))
    <3>1. stage[c] \in LogStages
      <4>1. ASSUME NEW s \in Sessions, LoadOk(s) \/ ExecReturn(s) PROVE stage[c] \in LogStages
        <5>1. cur[s] \in Calls /\ stage[cur[s]] \in {"load", "exec"}
          BY <4>1, MakerOf DEF LoadOk, ExecReturn
        <5> QED
          BY <4>1, <5>1, <2>1, <1>t DEF LoadOk, ExecReturn, LogStages
      <4>2. ASSUME NEW d \in Calls, FreeWait(d) \/ FreeDelete(d) PROVE stage[c] \in LogStages
        BY <4>2, <2>1, <1>t DEF FreeWait, FreeDelete, LogStages
      <4> QED
        BY <1>2, <2>4, <4>1, <4>2, Frames DEF StageFrame, FreeStep
    <3>2. \A s \in Sessions : interests[s] \subseteq interests'[s]
      <4>1. ASSUME NEW q \in Sessions, NEW id \in IDs, SetLevel(q, id)
            PROVE  \A s \in Sessions : interests[s] \subseteq interests'[s]
        BY <4>1, <1>t DEF SetLevel
      <4> QED
        BY <1>2, <2>4, <4>1, Frames DEF InterestFrame
    <3> QED
      BY <2>1, <3>1, <3>2, <1>t DEF LogsReachMaker, LogStages
  <2> QED
    BY <2>2, <2>3, <2>4
<1> QED
  BY <1>1, <1>2 DEF MakesCall

\* What MakeCall does to the actors.
LEMMA MadeActor ==
    ASSUME TypeOK, ActorInv, MakesCall
    PROVE  /\ ActorInv' /\ closedActors' = closedActors
           /\ 1..born \subseteq 1..born'
           /\ \A n \in Names : actors'[n] = actors[n] \/ actors'[n] \notin 1..born
<1>1. PICK s \in Sessions, n \in Names, id \in IDs : MakeCall(s, n, id)
  BY DEF MakesCall
<1>2. PICK a \in Actors : GetActor(n, a)
  BY <1>1 DEF MakeCall
<1>3. closedActors' = closedActors
  BY <1>1 DEF MakeCall
<1>t. /\ born \in Nat /\ nameOf \in [1..born -> Names]
      /\ actors \in [Names -> Actors \cup {0}]
  BY DEF TypeOK
<1>4. CASE actors[n] # 0
  BY <1>2, <1>3, <1>4 DEF GetActor, ActorInv
<1>5. CASE actors[n] = 0
  <2>1. /\ born' = born + 1
        /\ nameOf' = Extend(nameOf, born, n)
        /\ actors' = [actors EXCEPT ![n] = born + 1]
    BY <1>2, <1>5 DEF GetActor
  <2>2. nameOf'[born + 1] = n /\ \A b \in 1..born : nameOf'[b] = nameOf[b]
    BY <2>1, <1>t DEF Extend
  <2> QED
    BY <1>3, <2>1, <2>2, <1>t DEF ActorInv
<1> QED
  BY <1>4, <1>5

\* ActorInv and KillHasVictim are preserved.
LEMMA ActorStep ==
    ASSUME TypeOK, ActorInv, KillHasVictim, [Next]_vars
    PROVE  ActorInv' /\ KillHasVictim'
<1>t. /\ born \in Nat /\ nameOf \in [1..born -> Names]
      /\ actors \in [Names -> Actors \cup {0}]
      /\ victim \in [Sessions -> Actors \cup {0}]
      /\ pc \in [Procs -> SessionPC \cup CloserPC] /\ Sessions \subseteq Procs
  BY DEF TypeOK, Procs
<1>1. 1..born \subseteq 1..born'
  BY MadeActor, Frames DEF ActorFrame, KillDelete
<1>2. KillHasVictim'
  <2> SUFFICES ASSUME NEW s \in Sessions, pc'[s] \in {"killClose", "killDelete"}
               PROVE  victim'[s] \in 1..born
    BY <1>1 DEF KillHasVictim
  <2>1. ASSUME NEW n \in Names, KillLoad(s, n) PROVE victim'[s] \in 1..born
    BY <2>1, <1>t DEF KillLoad, ActorInv
  <2>2. CASE KillClose(s)
    BY <2>2 DEF KillClose, KillHasVictim
  <2>3. CASE pc'[s] = pc[s] /\ victim'[s] = victim[s]
    BY <2>3 DEF KillHasVictim
  <2> QED
    BY <2>1, <2>2, <2>3, PcFrames DEF PcFrame
<1>3. ActorInv'
  <2>1. CASE MakesCall
    BY <2>1, MadeActor
  <2>2. ASSUME NEW s \in Sessions, KillDelete(s) PROVE ActorInv'
    <3>1. /\ actors' = [actors EXCEPT ![nameOf[victim[s]]] = 0]
          /\ UNCHANGED <<born, nameOf, closedActors>>
      BY <2>2 DEF KillDelete, Unbound
    <3> QED
      BY <3>1, <1>t DEF ActorInv
  <2>3. ASSUME NEW s \in Sessions, KillClose(s) PROVE ActorInv'
    <3>1. victim[s] \in 1..born
      BY <2>3 DEF KillClose, KillHasVictim
    <3> QED
      BY <2>3, <3>1 DEF KillClose, ActorInv
  <2>4. CASE CloseActors
    BY <2>4 DEF CloseActors, ActorInv
  <2>5. CASE UNCHANGED <<born, nameOf, actors>> /\ UNCHANGED closedActors
    BY <2>5 DEF ActorInv
  <2> QED
    BY <2>1, <2>2, <2>3, <2>4, <2>5, Frames DEF ActorFrame, ClosedFrame
<1> QED
  BY <1>2, <1>3

\* KilledActorUnbound is preserved.
LEMMA KilledStep ==
    ASSUME TypeOK, ActorInv, KillHasVictim, KilledActorUnbound, [Next]_vars
    PROVE  KilledActorUnbound'
<1> SUFFICES ASSUME NEW n \in Names, actors'[n] \in closedActors',
                    pc'[Closer] \notin {"globals", "closed"}
             PROVE  \E s \in Sessions : pc'[s] = "killDelete" /\ victim'[s] = actors'[n]
  BY DEF KilledActorUnbound
<1>t. /\ born \in Nat /\ nameOf \in [1..born -> Names]
      /\ actors \in [Names -> Actors \cup {0}]
      /\ pc \in [Procs -> SessionPC \cup CloserPC]
      /\ Sessions \subseteq Procs /\ Closer \in Procs
  BY DEF TypeOK, Procs
<1>1. ASSUME NEW s \in Sessions, KillClose(s)
      PROVE  \E q \in Sessions : pc'[q] = "killDelete" /\ victim'[q] = actors'[n]
  <2>1. /\ closedActors' = closedActors \cup {victim[s]}
        /\ pc' = [pc EXCEPT ![s] = "killDelete"]
        /\ victim' = victim /\ actors' = actors
    BY <1>1 DEF KillClose
  <2>2. CASE actors[n] = victim[s]
    BY <2>1, <2>2, <1>t
  <2>3. CASE actors[n] # victim[s]
    <3>1. pc[Closer] \notin {"globals", "closed"}
      BY PcFrames DEF CloserFrame
    <3>2. PICK q \in Sessions : pc[q] = "killDelete" /\ victim[q] = actors[n]
      BY <2>1, <2>3, <3>1 DEF KilledActorUnbound
    <3> QED
      BY <2>1, <3>2, <1>t
  <2> QED
    BY <2>2, <2>3
<1>2. CASE ~(\E s \in Sessions : KillClose(s))
  <2>1. ~CloseActors
    BY <1>t DEF CloseActors
  <2>2. closedActors' = closedActors
    BY <1>2, <2>1, Frames DEF ClosedFrame
  <2>3. actors'[n] = actors[n] /\ actors[n] \in closedActors
    <3>1. CASE MakesCall
      BY <3>1, <2>2, MadeActor DEF ActorInv
    <3>2. ASSUME NEW s \in Sessions, KillDelete(s) PROVE actors'[n] = actors[n]
      <4>1. actors' = [actors EXCEPT ![nameOf[victim[s]]] = 0]
        BY <3>2 DEF KillDelete, Unbound
      <4>2. 0 \notin closedActors
        BY DEF ActorInv
      <4> QED
        BY <4>1, <4>2, <2>2, <1>t
    <3> QED
      BY <2>2, <3>1, <3>2, Frames DEF ActorFrame
  <2>4. pc[Closer] \notin {"globals", "closed"}
    BY PcFrames DEF CloserFrame
  <2>5. PICK q \in Sessions : pc[q] = "killDelete" /\ victim[q] = actors[n]
    BY <2>3, <2>4 DEF KilledActorUnbound
  <2>6. ~KillDelete(q)
    <3>1. actors[n] # 0 /\ nameOf[actors[n]] = n
      BY <2>3 DEF ActorInv
    <3>2. SUFFICES ASSUME KillDelete(q) PROVE FALSE
      OBVIOUS
    <3>3. actors'[n] = 0
      BY <3>2, <3>1, <2>5, <1>t DEF KillDelete, Unbound
    <3> QED
      BY <3>1, <3>3, <2>3
  <2>7. pc'[q] = "killDelete" /\ victim'[q] = victim[q]
    BY <2>5, <2>6, PcFrames DEF PcFrame
  <2> QED
    BY <2>3, <2>5, <2>7
<1> QED
  BY <1>1, <1>2
-----------------------------------------------------------------------------
(* The theorems. *)

\* The inductive invariant.
IndInv ==
    /\ TypeOK
    /\ KillHasVictim
    /\ MakerInv
    /\ StageInv
    /\ IDInv
    /\ ActorInv
    /\ TaskCovered
    /\ OngoingIsOpen
    /\ OpenIsOngoing
    /\ LogsReachMaker
    /\ KilledActorUnbound

\* It holds initially.
LEMMA InitInd == Init => IndInv
<1> SUFFICES ASSUME Init PROVE IndInv
  OBVIOUS
<1>1. TypeOK
  BY InitType
<1>2. /\ \A s \in Sessions : pc[s] = "idle"
      /\ made = 0 /\ born = 0
      /\ \A c \in Calls : stage[c] = "none" /\ onStop[c] = {} /\ running[c] = {}
      /\ \A id \in IDs : ongoing[id] = 0
      /\ \A n \in Names : actors[n] = 0
      /\ closedActors = {}
  BY CallsAssumption DEF Init, Procs
<1>3. 1..made = {} /\ 1..born = {}
  BY <1>2
<1>4. KillHasVictim /\ MakerInv /\ StageInv /\ IDInv /\ ActorInv
  BY <1>2, <1>3 DEF KillHasVictim, MakerInv, StageInv, IDInv, ActorInv
<1>5. TaskCovered /\ OngoingIsOpen /\ OpenIsOngoing /\ LogsReachMaker /\ KilledActorUnbound
  BY <1>2, <1>3 DEF TaskCovered, OngoingIsOpen, OpenIsOngoing, LogsReachMaker, KilledActorUnbound
<1> QED
  BY <1>1, <1>4, <1>5 DEF IndInv

\* Every step preserves it.
LEMMA NextInd == IndInv /\ [Next]_vars => IndInv'
<1> SUFFICES ASSUME IndInv, [Next]_vars PROVE IndInv'
  OBVIOUS
<1> USE DEF IndInv
<1>1. TypeOK'
  BY SessionType, OtherType DEF Next, Exited
<1>2. MakerInv' /\ StageInv'
  BY MakerStep, StageStep
<1>3. IDInv' /\ TaskCovered'
  BY IDStep, CoveredStep
<1>4. OngoingIsOpen' /\ OpenIsOngoing' /\ LogsReachMaker'
  BY OngoingStep, ListedStep, LogsStep
<1>5. ActorInv' /\ KillHasVictim' /\ KilledActorUnbound'
  BY ActorStep, KilledStep
<1> QED
  BY <1>1, <1>2, <1>3, <1>4, <1>5

\* The inductive invariant always holds.
THEOREM Invariance == Spec => []IndInv
<1>1. Init => IndInv
  BY InitInd
<1>2. IndInv /\ [Next]_vars => IndInv'
  BY NextInd
<1> QED
  BY <1>1, <1>2, PTL DEF Spec

\* Types are correct.
THEOREM TypeCorrect == Spec => []TypeOK
<1>1. IndInv => TypeOK
  BY DEF IndInv
<1> QED
  BY <1>1, Invariance, PTL

\* However many tasks a command registers and however stops fail, the stop
\* function of a call (call.go:82-100, 126-148) reaches every task that runs.
THEOREM TasksAreCovered == Spec => []TaskCovered
<1>1. IndInv => TaskCovered
  BY DEF IndInv
<1> QED
  BY <1>1, Invariance, PTL

\* The registry of calls is sound, and complete for auto-generated IDs
\* (session_processor.go:222, 239): `cancel`, `next` and Close find what is open.
THEOREM RegistryIsExact == Spec => [](OngoingIsOpen /\ OpenIsOngoing)
<1>1. IndInv => OngoingIsOpen /\ OpenIsOngoing
  BY DEF IndInv
<1> QED
  BY <1>1, Invariance, PTL

\* The maker of a call receives its logs as long as the call is not freed
\* (session.go:376, session_processor.go:218, 238).
THEOREM LogsAreDelivered == Spec => []LogsReachMaker
<1>1. IndInv => LogsReachMaker
  BY DEF IndInv
<1> QED
  BY <1>1, Invariance, PTL

\* No interleaving of KillActor with itself and with GetActor brings a closed
\* actor back (session_processor.go:144-164).
THEOREM KilledStaysUnbound == Spec => []KilledActorUnbound
<1>1. IndInv => KilledActorUnbound
  BY DEF IndInv
<1> QED
  BY <1>1, Invariance, PTL

\* bgCancel is only called on a call without running tasks
\* (session_processor.go:217, 230; call.go:139).
THEOREM CancelsAreClean == Spec => CancelIsClean
<1>1. ASSUME IndInv, [Next]_vars, NEW c \in Calls, ~cancelled[c], cancelled'[c]
      PROVE  running'[c] = {}
  <2>t. /\ TypeOK /\ MakerInv /\ StageInv /\ TaskCovered
        /\ cancelled \in [Calls -> BOOLEAN]
        /\ running \in [Calls -> SUBSET Tasks]
    BY <1>1 DEF IndInv, TypeOK
  <2>1. ASSUME NEW s \in Sessions, LoadFail(s) PROVE running'[c] = {}
    <3>1. c = cur[s] /\ running' = running
      BY <1>1, <2>1, <2>t DEF LoadFail
    <3>2. stage[c] = "load"
      BY <2>1, <2>t, <3>1, MakerOf DEF LoadFail
    <3> QED
      BY <2>t, <3>1, <3>2 DEF StageInv, TaskCovered
  <2>2. ASSUME NEW d \in Calls, FreeWait(d) PROVE running'[c] = {}
    <3>1. c = d /\ ~spawned[c] /\ running' = running
      BY <1>1, <2>2, <2>t DEF FreeWait
    <3> QED
      BY <2>t, <3>1 DEF TaskCovered
  <2>3. ASSUME NEW p \in Procs, NEW failed \in SUBSET Tasks, StopRun(p, failed)
        PROVE  running'[c] = {}
    <3>1. \/ failed = {} /\ cancelled' = [cancelled EXCEPT ![cur[p]] = TRUE]
          \/ cancelled' = cancelled
      BY <2>3, Zenon DEF StopRun, Stopped
    <3>2. c = cur[p] /\ failed = {}
      BY <1>1, <2>t, <3>1
    <3>3. running' = [running EXCEPT ![cur[p]] = @ \ (onStop[cur[p]] \ failed)]
      BY <2>3 DEF StopRun
    <3> QED
      BY <2>t, <3>2, <3>3 DEF TaskCovered
  <2> QED
    BY <1>1, <2>1, <2>2, <2>3, Frames DEF CancelFrame
<1>2. IndInv /\ [Next]_vars => [\A c \in Calls : ~cancelled[c] /\ cancelled'[c] => running'[c] = {}]_vars
  BY <1>1
<1> QED
  BY <1>2, Invariance, PTL DEF Spec, CancelIsClean
-----------------------------------------------------------------------------
(* Calls implements CallLife. *)

\* The freeing goroutine is past its wait only when the call is over.
OverInv == \A c \in Calls : stage[c] \in {"unset", "delete"} => BgDone(c)

\* The contexts of a call only ever end.
LEMMA BgDoneStays ==
    ASSUME IndInv, [Next]_vars, NEW c \in 1..made
    PROVE  BgDone(c) => BgDone(c)'
<1>t. /\ TypeOK /\ c \in Calls /\ made \in Nat
      /\ cancelled \in [Calls -> BOOLEAN]
      /\ callActor \in [1..made -> Actors]
  BY MadeCalls DEF IndInv, TypeOK
<1>1. cancelled[c] => cancelled'[c]
  <2>1. ASSUME NEW s \in Sessions, LoadFail(s) PROVE cancelled[c] => cancelled'[c]
    BY <2>1, <1>t DEF LoadFail
  <2>2. ASSUME NEW d \in Calls, FreeWait(d) PROVE cancelled[c] => cancelled'[c]
    BY <2>2, <1>t DEF FreeWait
  <2>3. ASSUME NEW p \in Procs, NEW failed \in SUBSET Tasks, StopRun(p, failed)
        PROVE  cancelled[c] => cancelled'[c]
    <3>1. cancelled' = [cancelled EXCEPT ![cur[p]] = TRUE] \/ cancelled' = cancelled
      BY <2>3, Zenon DEF StopRun
    <3> QED
      BY <3>1, <1>t
  <2> QED
    BY <2>1, <2>2, <2>3, Frames DEF CancelFrame
<1>2. closedActors \subseteq closedActors'
  BY Frames DEF ClosedFrame, KillClose, CloseActors
<1>3. globalDone => globalDone'
  BY GlobalFrames DEF GlobalFrame, CloseGlobals
<1>4. callActor'[c] = callActor[c]
  <2>1. ASSUME NEW s \in Sessions, NEW n \in Names, NEW id \in IDs, MakeCall(s, n, id)
        PROVE  callActor'[c] = callActor[c]
    <3>1. PICK a \in Actors : callActor' = Extend(callActor, made, a)
      BY <2>1 DEF MakeCall
    <3> QED
      BY <3>1, <1>t DEF Extend
  <2> QED
    BY <2>1, Frames DEF CallFrame, MakesCall
<1> QED
  BY <1>1, <1>2, <1>3, <1>4 DEF BgDone, ActorDone

\* OverInv is an invariant.
LEMMA OverStep == IndInv /\ OverInv /\ [Next]_vars => OverInv'
<1> SUFFICES ASSUME IndInv, OverInv, [Next]_vars, NEW c \in Calls,
                    stage'[c] \in {"unset", "delete"}
             PROVE  BgDone(c)'
  BY DEF OverInv
<1>t. TypeOK /\ StageInv /\ MakerInv /\ stage \in [Calls -> Stages] /\ made \in Nat
      /\ cancelled \in [Calls -> BOOLEAN] /\ spawned \in [Calls -> BOOLEAN]
  BY DEF IndInv, TypeOK
<1>1. CASE stage[c] \in {"unset", "delete"}
  <2>1. c \in 1..made
    BY <1>1, <1>t, OpenExists
  <2> QED
    BY <1>1, <2>1, BgDoneStays DEF OverInv
<1>2. CASE stage[c] \notin {"unset", "delete"}
  <2>1. ASSUME NEW d \in Calls, FreeStep(d) PROVE BgDone(c)'
    <3>1. d = c /\ FreeWait(c)
      BY <1>2, <2>1, <1>t DEF FreeStep, FreeWait, FreeInterests, FreeDelete
    <3>2. c \in 1..made
      BY <3>1, <1>t, OpenExists DEF FreeWait
    <3>3. CASE spawned[c]
      BY <3>1, <3>2, <3>3, BgDoneStays DEF FreeWait, MayFree
    <3>4. CASE ~spawned[c]
      BY <3>1, <3>4, <1>t DEF FreeWait, BgDone
    <3> QED
      BY <3>3, <3>4
  <2>2. CASE MakesCall
    BY <1>2, <2>2, <1>t, MadeCall DEF MakesCall
  <2>3. ASSUME NEW s \in Sessions, LoadFail(s) \/ LoadOk(s) \/ ExecReturn(s) PROVE FALSE
    BY <1>2, <2>3, <1>t DEF LoadFail, LoadOk, ExecReturn
  <2> QED
    BY <1>2, <2>1, <2>2, <2>3, Frames DEF StageFrame
<1> QED
  BY <1>1, <1>2
-----------------------------------------------------------------------------
(* The phases of the calls, step by step. *)

MidStages == {"load", "exec", "wait", "unset", "delete"}

\* The phase of a call, by its stage.
LEMMA PhaseOf ==
    ASSUME NEW c
    PROVE  /\ stage[c] = "none" => Phase(c) = "none"
           /\ stage[c] = "freed" => Phase(c) = "freed"
           /\ stage[c] = "failed" => Phase(c) = "over"
           /\ stage[c] \in MidStages /\ BgDone(c) => Phase(c) = "over"
           /\ stage[c] \in MidStages /\ ~BgDone(c) => Phase(c) = "live"
BY DEF Phase, MidStages

\* Where MakeCall and FreeDelete are not involved, a call moves from a stage to the
\* next without being made or freed.
LEMMA StageMoves ==
    ASSUME IndInv, [Next]_vars, NEW c \in Calls, ~MakesCall, ~FreeDelete(c)
    PROVE  \/ stage'[c] = stage[c]
           \/ stage[c] \in MidStages /\ stage'[c] \in MidStages
           \/ stage[c] = "load" /\ stage'[c] = "failed"
<1>t. TypeOK /\ MakerInv /\ stage \in [Calls -> Stages]
  BY DEF IndInv, TypeOK
<1>1. ASSUME NEW s \in Sessions, LoadFail(s) \/ LoadOk(s) \/ ExecReturn(s)
      PROVE  \/ stage'[c] = stage[c]
             \/ stage[c] \in MidStages /\ stage'[c] \in MidStages
             \/ stage[c] = "load" /\ stage'[c] = "failed"
  <2>1. stage[cur[s]] = pc[s] /\ pc[s] \in {"load", "exec"}
    BY <1>1, <1>t DEF MakerInv, LoadFail, LoadOk, ExecReturn
  <2>2. CASE LoadFail(s)
    BY <2>1, <2>2, <1>t DEF LoadFail
  <2>3. CASE LoadOk(s)
    BY <2>1, <2>3, <1>t DEF LoadOk, MidStages
  <2>4. CASE ExecReturn(s)
    BY <2>1, <2>4, <1>t DEF ExecReturn, MidStages
  <2> QED
    BY <1>1, <2>2, <2>3, <2>4
<1>2. ASSUME NEW d \in Calls, FreeStep(d)
      PROVE  \/ stage'[c] = stage[c]
             \/ stage[c] \in MidStages /\ stage'[c] \in MidStages
  BY <1>2, <1>t DEF FreeStep, FreeWait, FreeInterests, FreeDelete, MidStages
<1> QED
  BY <1>1, <1>2, Frames DEF StageFrame

\* ... so that its phase is the same, or it is over now.
LEMMA PhaseMoves ==
    ASSUME IndInv, [Next]_vars, NEW c \in Calls, ~MakesCall, ~FreeDelete(c)
    PROVE  Phase(c)' = Phase(c) \/ (Phase(c) = "live" /\ Phase(c)' = "over")
<1>t. TypeOK /\ StageInv /\ stage[c] \in Stages
  BY DEF IndInv, TypeOK
<1>p. /\ stage'[c] = "none" => Phase(c)' = "none"
      /\ stage'[c] = "freed" => Phase(c)' = "freed"
      /\ stage'[c] = "failed" => Phase(c)' = "over"
      /\ stage'[c] \in MidStages /\ BgDone(c)' => Phase(c)' = "over"
      /\ stage'[c] \in MidStages /\ ~BgDone(c)' => Phase(c)' = "live"
  BY DEF Phase, MidStages
<1>1. CASE stage[c] \in MidStages
  <2>1. c \in 1..made
    BY <1>1, <1>t, OpenExists DEF MidStages
  <2>2. BgDone(c) => BgDone(c)'
    BY <2>1, BgDoneStays
  <2>3. stage'[c] \in MidStages \/ stage'[c] = "failed"
    BY <1>1, StageMoves
  <2> QED
    BY <1>1, <1>p, <2>2, <2>3, PhaseOf
<1>2. CASE stage[c] \notin MidStages
  <2>1. stage'[c] = stage[c]
    BY <1>2, StageMoves DEF MidStages
  <2> QED
    BY <1>2, <1>p, <1>t, <2>1, PhaseOf DEF Stages, MidStages
<1> QED
  BY <1>1, <1>2

\* A step that changes neither contexts nor stages of a call leaves its phase alone.
LEMMA PhaseSame ==
    ASSUME NEW c, stage'[c] = stage[c],
           stage[c] # "none" => (BgDone(c)' <=> BgDone(c))
    PROVE  Phase(c)' = Phase(c)
BY DEF Phase

phases == [c \in Calls |-> Phase(c)]

\* Every step of Calls is a step of CallLife, or leaves the phases alone.
LEMMA LifeStep ==
    ASSUME IndInv, OverInv, [Next]_vars
    PROVE  [Life!LifeNext]_phases
<1>t. TypeOK /\ StageInv /\ stage \in [Calls -> Stages] /\ made \in Nat
      /\ callActor \in [1..made -> Actors] /\ callId \in [1..made -> IDs]
  BY DEF IndInv, TypeOK
<1>e. ASSUME NEW k \in Calls, \A c \in Calls \ {k} : Phase(c)' = Phase(c)
      PROVE  phases' = [phases EXCEPT ![k] = phases'[k]]
  BY <1>e DEF phases
<1>1. ASSUME NEW s \in Sessions, NEW n \in Names, NEW id \in IDs, MakeCall(s, n, id)
      PROVE  Life!LifeNext
  <2>1. PICK k \in Calls : k = made + 1
    BY <1>1, MadeCall, <1>t
  <2>2. /\ stage' = [stage EXCEPT ![k] = "load"]
        /\ UNCHANGED <<cancelled, closedActors, globalDone>>
    BY <1>1, <1>t, <2>1, MadeCall DEF MakeCall, taskVars
  <2>3. \A c \in 1..made : callActor'[c] = callActor[c]
    <3>1. PICK a \in Actors : callActor' = Extend(callActor, made, a)
      BY <1>1 DEF MakeCall
    <3> QED
      BY <3>1, <1>t DEF Extend
  <2>4. ASSUME NEW c \in Calls \ {k} PROVE Phase(c)' = Phase(c)
    <3>1. stage'[c] = stage[c]
      BY <2>2, <2>4, <1>t
    <3>2. ASSUME stage[c] # "none" PROVE BgDone(c)' <=> BgDone(c)
      <4>1. c \in 1..made
        BY <3>2, <1>t, OpenExists
      <4> QED
        BY <4>1, <2>2, <2>3 DEF BgDone, ActorDone
    <3> QED
      BY <3>1, <3>2, PhaseSame
  <2>5. Phase(k) = "none"
    BY <1>t, <2>1, PhaseOf DEF StageInv
  <2>6. Phase(k)' \in {"live", "over"}
    <3>1. stage'[k] = "load"
      BY <2>2, <1>t
    <3> QED
      BY <3>1 DEF Phase
  <2>7. phases' = [phases EXCEPT ![k] = phases'[k]]
    BY <2>4, <1>e
  <2>8. Life!Make(k)
    BY <2>5, <2>6, <2>7 DEF Life!Make, phases
  <2> QED
    BY <2>8 DEF Life!LifeNext
<1>2. ASSUME NEW k \in Calls, FreeDelete(k) PROVE Life!LifeNext
  <2>1. /\ stage[k] = "delete" /\ stage' = [stage EXCEPT ![k] = "freed"]
        /\ UNCHANGED <<cancelled, closedActors, globalDone, callActor>>
    BY <1>2 DEF FreeDelete, taskVars, actorVars
  <2>2. ASSUME NEW c \in Calls \ {k} PROVE Phase(c)' = Phase(c)
    <3>1. stage'[c] = stage[c] /\ (BgDone(c)' <=> BgDone(c))
      BY <2>1, <2>2, <1>t DEF BgDone, ActorDone
    <3> QED
      BY <3>1, PhaseSame
  <2>3. Phase(k) = "over"
    BY <2>1, PhaseOf DEF OverInv, MidStages
  <2>4. Phase(k)' = "freed"
    <3>1. stage'[k] = "freed"
      BY <2>1, <1>t
    <3> QED
      BY <3>1 DEF Phase
  <2>5. phases' = [phases EXCEPT ![k] = phases'[k]]
    BY <2>2, <1>e
  <2>6. Life!Free(k)
    BY <2>3, <2>4, <2>5 DEF Life!Free, phases
  <2> QED
    BY <2>6 DEF Life!LifeNext
<1>3. CASE ~MakesCall /\ ~(\E k \in Calls : FreeDelete(k))
  <2> DEFINE S == {c \in Calls : Phase(c) = "live" /\ phases'[c] = "over"}
  <2>1. \A c \in Calls : phases'[c] = phases[c] \/ (phases[c] = "live" /\ phases'[c] = "over")
    BY <1>3, PhaseMoves DEF phases
  <2>2. phases' = [c \in Calls |-> IF c \in S THEN "over" ELSE phases[c]]
    BY <2>1 DEF phases
  <2>3. CASE S = {}
    BY <2>2, <2>3 DEF phases
  <2>4. CASE S # {}
    <3>1. Life!Finish(S)
      BY <2>2, <2>4 DEF Life!Finish, phases
    <3> QED
      BY <3>1 DEF Life!LifeNext
  <2> QED
    BY <2>3, <2>4
<1> QED
  BY <1>1, <1>2, <1>3 DEF MakesCall

\* Every call goes through the life that CallLife describes: over once its context
\* is done, freed (session_processor.go:227-240) only after that, and never
\* again anything else.
THEOREM RefinesCallLife == Spec => ImplementsCallLife
<1>1. Init => OverInv
  BY DEF Init, OverInv
<1>2. Init => Life!LifeInit
  <2> SUFFICES ASSUME Init PROVE \A c \in Calls : Phase(c) = "none"
    BY DEF Life!LifeInit
  <2> QED
    BY PhaseOf DEF Init
<1>3. Spec => []OverInv
  BY <1>1, OverStep, Invariance, PTL DEF Spec
<1>4. IndInv /\ OverInv /\ [Next]_vars => [Life!LifeNext]_phases
  BY LifeStep
<1> QED
  BY <1>2, <1>3, <1>4, Invariance, PTL DEF Spec, ImplementsCallLife, Life!LifeSpec, phases
=============================================================================
