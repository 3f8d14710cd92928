------------------------------- MODULE Calls -------------------------------
(***************************************************************************)
(* The heart of Rumor: sessions run commands as calls on actors.           *)
(* Models control/session_processor.go (SessionProcessor), control/call.go *)
(* (Call), the call-related commands of control/session.go (runCmd) and    *)
(* the lifetime of control/actor/actor.go (Actor).                         *)
(*                                                                         *)
(* Processes: every session runs one command at a time; every call that    *)
(* returned has a goroutine that frees it; every call may have background  *)
(* tasks; one Closer runs SessionProcessor.Close.                          *)
(***************************************************************************)
EXTENDS Naturals, FiniteSets

CONSTANTS
    Sessions,     \* the user sessions
    Closer,       \* the goroutine that runs SessionProcessor.Close
    Names,        \* actor names
    IDs,          \* call IDs
    CustomIDs,    \* the IDs that a user may give to more than one call
    Builtins,     \* the built-in commands that users type, and "close", the
                  \* signal that shuts the program down
    Tasks,        \* background tasks a command may register, per call
    Stepwise,     \* the tasks that offer steps
    MaxCalls,     \* bound: number of Call objects ever made
    MaxActors,    \* bound: number of Actor objects ever made
    StopMayFail   \* may a registered OnStop return an error?

ASSUME CallsAssumption ==
    /\ Closer \notin Sessions
    /\ CustomIDs \subseteq IDs
    /\ Builtins \subseteq {"next", "cancel", "kill", "lvl", "exit", "close"}
    /\ Stepwise \subseteq Tasks
    /\ MaxCalls \in Nat
    /\ MaxActors \in Nat
    /\ StopMayFail \in BOOLEAN

Calls  == 1..MaxCalls
Actors == 1..MaxActors
Procs  == Sessions \cup {Closer}

\* 0 stands for Go's nil, as a call and as an actor.
VARIABLES
    pc,           \* what each process is doing
    cur,          \* the call each process is working on
    victim,       \* the actor a session's kill has loaded
    lastCall,     \* Session.lastCall
    interests,    \* Session.interests (the log level is left out)
    made,         \* number of Call objects made so far
    maker,        \* the session that made the call
    callId,       \* Call.id
    callActor,    \* the actor whose ActorCtx is the parent of Call.bgCtx
    stage,        \* progress of MakeCall and of its freeing goroutine
    onStop,       \* the stop functions chained in Call.onStop
    spawned,      \* Call.spawned
    running,      \* background tasks of the call that are running
    offers,       \* tasks blocked in Call.Step
    cancelled,    \* Call.bgCancel was called
    locked,       \* Call.onStopLock
    ongoing,      \* SessionProcessor.ongoingCalls
    born,         \* number of Actor objects made so far
    nameOf,       \* Actor.ID
    actors,       \* SessionProcessor.actors
    closedActors, \* actors whose actorCancel was called
    globalDone,   \* globalActorCancel was called
    toVisit,      \* keys that Close's Range still has to visit
    visited       \* keys that Close's Range has visited

sessVars  == <<pc, cur, victim, lastCall, interests>>
callVars  == <<made, maker, callId, callActor, stage>>
taskVars  == <<onStop, spawned, running, offers, cancelled, locked>>
actorVars == <<born, nameOf, actors, closedActors, globalDone>>
closeVars == <<toVisit, visited>>
vars == <<sessVars, callVars, taskVars, ongoing, actorVars, closeVars>>

SessionPC == {"idle", "load", "exec", "want", "stop", "next", "step",
              "killClose", "killDelete", "exited"}
CloserPC  == {"open", "range", "want", "stop", "actors", "globals", "closed"}
Stages    == {"none", "load", "failed", "exec", "wait", "unset", "delete", "freed"}

TypeOK ==
    /\ pc \in [Procs -> SessionPC \cup CloserPC]
    /\ \A s \in Sessions : pc[s] \in SessionPC
    /\ pc[Closer] \in CloserPC
    /\ cur \in [Procs -> Calls \cup {0}]
    /\ victim \in [Sessions -> Actors \cup {0}]
    /\ lastCall \in [Sessions -> Calls \cup {0}]
    /\ interests \in [Sessions -> SUBSET IDs]
    /\ made \in 0..MaxCalls
    /\ maker \in [1..made -> Sessions]
    /\ callId \in [1..made -> IDs]
    /\ callActor \in [1..made -> Actors]
    /\ stage \in [Calls -> Stages]
    /\ onStop \in [Calls -> SUBSET Tasks]
    /\ spawned \in [Calls -> BOOLEAN]
    /\ running \in [Calls -> SUBSET Tasks]
    /\ offers \in [Calls -> SUBSET Tasks]
    /\ cancelled \in [Calls -> BOOLEAN]
    /\ locked \in [Calls -> BOOLEAN]
    /\ ongoing \in [IDs -> Calls \cup {0}]
    /\ born \in 0..MaxActors
    /\ nameOf \in [1..born -> Names]
    /\ actors \in [Names -> Actors \cup {0}]
    /\ closedActors \subseteq Actors
    /\ globalDone \in BOOLEAN
    /\ toVisit \subseteq IDs
    /\ visited \subseteq IDs

Init ==
    /\ pc = [p \in Procs |-> IF p = Closer THEN "open" ELSE "idle"]
    /\ cur = [p \in Procs |-> 0]
    /\ victim = [s \in Sessions |-> 0]
    /\ lastCall = [s \in Sessions |-> 0]
    /\ interests = [s \in Sessions |-> {}]
    /\ made = 0
    /\ maker = [c \in 1..0 |-> 0]
    /\ callId = [c \in 1..0 |-> 0]
    /\ callActor = [c \in 1..0 |-> 0]
    /\ stage = [c \in Calls |-> "none"]
    /\ onStop = [c \in Calls |-> {}]
    /\ spawned = [c \in Calls |-> FALSE]
    /\ running = [c \in Calls |-> {}]
    /\ offers = [c \in Calls |-> {}]
    /\ cancelled = [c \in Calls |-> FALSE]
    /\ locked = [c \in Calls |-> FALSE]
    /\ ongoing = [id \in IDs |-> 0]
    /\ born = 0
    /\ nameOf = [a \in 1..0 |-> 0]
    /\ actors = [n \in Names |-> 0]
    /\ closedActors = {}
    /\ globalDone = FALSE
    /\ toVisit = {}
    /\ visited = {}
-----------------------------------------------------------------------------
(* Context trees: a call's bgCtx is a child of its actor's ActorCtx, which is *)
(* a child of GlobalCtx.                                                      *)

ActorDone(a) == globalDone \/ a \in closedActors

BgDone(c) == cancelled[c] \/ ActorDone(callActor[c])

\* The process has not exited: Close is followed by os.Exit.
Up == pc[Closer] # "closed"

\* f, with one more value for the next number.
Extend(f, n, v) == [i \in 1..(n + 1) |-> IF i = n + 1 THEN v ELSE f[i]]

\* Mutant: NewActor without its ID.
GetActor_NoID(n, a) ==
    \/ a = actors[n] /\ actors[n] # 0 /\ UNCHANGED <<actors, born, nameOf>>
    \/ /\ actors[n] = 0 /\ born < MaxActors /\ a = born + 1
       /\ born' = born + 1 /\ actors' = [actors EXCEPT ![n] = a]
       /\ UNCHANGED nameOf

\* The actor bound to the name, or a new one when there is none: Load and then
\* LoadOrStore, of which the last one that decides is the linearization point.
GetActor(n, a) ==
    \/ /\ actors[n] # 0
       /\ a = actors[n]
       /\ UNCHANGED <<actors, born, nameOf>>
    \/ /\ actors[n] = 0
       /\ born < MaxActors
       /\ a = born + 1
       /\ born' = born + 1
       /\ nameOf' = Extend(nameOf, born, n)
       /\ actors' = [actors EXCEPT ![n] = a]

\* An auto-generated ID (session and counter) is never used twice.
FreshID(id) == \A c \in 1..made : callId[c] # id
-----------------------------------------------------------------------------
(* A session runs a command on an actor. *)

\* runCmd: SetInterest, then the start of MakeCall up to ask.Load.
MakeCall(s, n, id) ==
    /\ Up
    /\ pc[s] = "idle"
    /\ made < MaxCalls
    /\ id \in CustomIDs \/ FreshID(id)
    /\ interests' = [interests EXCEPT ![s] = @ \cup {id}]
    /\ \E a \in Actors :
          /\ GetActor(n, a)
          /\ callActor' = Extend(callActor, made, a)
    /\ made' = made + 1
    /\ maker' = Extend(maker, made, s)
    /\ callId' = Extend(callId, made, id)
    /\ stage' = [stage EXCEPT ![made + 1] = "load"]
    /\ cur' = [cur EXCEPT ![s] = made + 1]
    /\ pc' = [pc EXCEPT ![s] = "load"]
    /\ UNCHANGED <<victim, lastCall, taskVars, ongoing, closedActors,
                   globalDone, closeVars>>

\* Mutant: the sessions forget all their interests.
RemoveInterests_All(id) == [s \in Sessions |-> {}]

\* Every session forgets its interest in the call.
RemoveInterests(id) == [s \in Sessions |-> interests[s] \ {id}]

\* ask.Load failed: nil is returned, and becomes the session's last call.
LoadFail(s) ==
    /\ Up
    /\ pc[s] = "load"
    /\ LET c == cur[s] IN
          /\ cancelled' = [cancelled EXCEPT ![c] = TRUE]
          /\ interests' = RemoveInterests(callId[c])
          /\ stage' = [stage EXCEPT ![c] = "failed"]
    /\ lastCall' = [lastCall EXCEPT ![s] = 0]
    /\ cur' = [cur EXCEPT ![s] = 0]
    /\ pc' = [pc EXCEPT ![s] = "idle"]
    /\ UNCHANGED <<victim, made, maker, callId, callActor, onStop, spawned,
                   running, offers, locked, ongoing, actorVars, closeVars>>

\* ask.Load succeeded: the call is stored, whatever was stored under its ID.
LoadOk(s) ==
    /\ Up
    /\ pc[s] = "load"
    /\ LET c == cur[s] IN
          /\ ongoing' = [ongoing EXCEPT ![callId[c]] = c]
          /\ stage' = [stage EXCEPT ![c] = "exec"]
    /\ pc' = [pc EXCEPT ![s] = "exec"]
    /\ UNCHANGED <<cur, victim, lastCall, interests, made, maker, callId,
                   callActor, taskVars, actorVars, closeVars>>

\* Mutant: the last stop function registered replaces the others.
Chain_Replaces(prev, t) == {t}

\* A new stop function runs after those registered before it.
Chain(prev, t) == prev \cup {t}

\* The command starts a background task and registers how to stop it.
RegisterStop(s, t) ==
    /\ Up
    /\ pc[s] = "exec"
    /\ LET c == cur[s] IN
          /\ ~locked[c]
          /\ t \notin onStop[c]
          /\ onStop' = [onStop EXCEPT ![c] = Chain(@, t)]
          /\ running' = [running EXCEPT ![c] = @ \cup {t}]
          /\ spawned' = [spawned EXCEPT ![c] = TRUE]
    /\ UNCHANGED <<sessVars, callVars, offers, cancelled, locked, ongoing,
                   actorVars, closeVars>>

\* Execute returns, with or without an error: the freeing goroutine starts, and
\* the session remembers the call.
ExecReturn(s) ==
    /\ Up
    /\ pc[s] = "exec"
    /\ stage' = [stage EXCEPT ![cur[s]] = "wait"]
    /\ lastCall' = [lastCall EXCEPT ![s] = cur[s]]
    /\ cur' = [cur EXCEPT ![s] = 0]
    /\ pc' = [pc EXCEPT ![s] = "idle"]
    /\ UNCHANGED <<victim, interests, made, maker, callId, callActor, taskVars,
                   ongoing, actorVars, closeVars>>
-----------------------------------------------------------------------------
(* The goroutine that MakeCall defers. *)

\* Mutants: no wait for the spawned tasks; no early cancel.
MayFree_NoWait(c) == TRUE
MayFree_Waits(c) == BgDone(c)

\* A call that spawned nothing is cancelled at once, any other waits for bgCtx.
MayFree(c) == spawned[c] => BgDone(c)

FreeWait(c) ==
    /\ Up
    /\ stage[c] = "wait"
    /\ MayFree(c)
    /\ cancelled' = [cancelled EXCEPT ![c] = @ \/ ~spawned[c]]
    /\ stage' = [stage EXCEPT ![c] = "unset"]
    /\ UNCHANGED <<sessVars, made, maker, callId, callActor, onStop, spawned,
                   running, offers, locked, ongoing, actorVars, closeVars>>

FreeInterests(c) ==
    /\ Up
    /\ stage[c] = "unset"
    /\ interests' = RemoveInterests(callId[c])
    /\ stage' = [stage EXCEPT ![c] = "delete"]
    /\ UNCHANGED <<pc, cur, victim, lastCall, made, maker, callId, callActor,
                   taskVars, ongoing, actorVars, closeVars>>

\* Mutant: the entry is left behind.
Deleted_Not(id) == ongoing

\* The entry is deleted by its ID, whichever call it holds by now.
Deleted(id) == [ongoing EXCEPT ![id] = 0]

FreeDelete(c) ==
    /\ Up
    /\ stage[c] = "delete"
    /\ ongoing' = Deleted(callId[c])
    /\ toVisit' = toVisit \ {callId[c]}
    /\ stage' = [stage EXCEPT ![c] = "freed"]
    /\ UNCHANGED <<sessVars, made, maker, callId, callActor, taskVars,
                   actorVars, visited>>
-----------------------------------------------------------------------------
(* Background tasks. *)

\* A task comes to its end by itself; its stop function stays registered.
TaskEnds(c, t) ==
    /\ Up
    /\ t \in running[c] \ offers[c]
    /\ running' = [running EXCEPT ![c] = @ \ {t}]
    /\ UNCHANGED <<sessVars, callVars, onStop, spawned, offers, cancelled,
                   locked, ongoing, actorVars, closeVars>>

\* Call.Step: offer a step, and block until it is taken or the call is over.
StepOffer(c, t) ==
    /\ Up
    /\ t \in Stepwise \cap running[c]
    /\ t \notin offers[c]
    /\ offers' = [offers EXCEPT ![c] = @ \cup {t}]
    /\ UNCHANGED <<sessVars, callVars, onStop, spawned, running, cancelled,
                   locked, ongoing, actorVars, closeVars>>

StepOver(c, t) ==
    /\ Up
    /\ t \in offers[c]
    /\ BgDone(c)
    /\ offers' = [offers EXCEPT ![c] = @ \ {t}]
    /\ UNCHANGED <<sessVars, callVars, onStop, spawned, running, cancelled,
                   locked, ongoing, actorVars, closeVars>>
-----------------------------------------------------------------------------
(* The built-in commands of a session. *)

\* The call a command refers to: by ID, or the last one of the session.
Refers(s, c) == c # 0 /\ (c = lastCall[s] \/ \E id \in IDs : ongoing[id] = c)

SessionReturns(s) ==
    /\ cur' = [cur EXCEPT ![s] = 0]
    /\ pc' = [pc EXCEPT ![s] = "idle"]
    /\ UNCHANGED <<victim, lastCall, interests, callVars, taskVars, ongoing,
                   actorVars, closeVars>>

\* next: RequestStep on a call
NextCmd(s, c) ==
    /\ Up
    /\ "next" \in Builtins
    /\ pc[s] = "idle"
    /\ Refers(s, c)
    /\ cur' = [cur EXCEPT ![s] = c]
    /\ pc' = [pc EXCEPT ![s] = "next"]
    /\ UNCHANGED <<victim, lastCall, interests, callVars, taskVars, ongoing,
                   actorVars, closeVars>>

\* The step is received from the channel; the session runs it.
RequestStep(s, t) ==
    /\ Up
    /\ pc[s] = "next"
    /\ t \in offers[cur[s]]
    /\ offers' = [offers EXCEPT ![cur[s]] = @ \ {t}]
    /\ pc' = [pc EXCEPT ![s] = "step"]
    /\ UNCHANGED <<cur, victim, lastCall, interests, callVars, onStop, spawned,
                   running, cancelled, locked, ongoing, actorVars, closeVars>>

\* The step is complete.
StepReturn(s) ==
    /\ Up
    /\ pc[s] = "step"
    /\ SessionReturns(s)

\* Mutant: a step request that only waits for a step.
NextOver_NoCase(s) == FALSE

\* The call is over: there are no more steps.
NextOver(s) ==
    /\ Up
    /\ pc[s] = "next"
    /\ BgDone(cur[s])
    /\ SessionReturns(s)

\* The timeout given with the command has passed.
NextTimeout(s) ==
    /\ Up
    /\ pc[s] = "next"
    /\ SessionReturns(s)

\* cancel: look up the call, and go on to RequestStop.
CancelCmd(s, c) ==
    /\ Up
    /\ "cancel" \in Builtins
    /\ pc[s] = "idle"
    /\ Refers(s, c)
    /\ cur' = [cur EXCEPT ![s] = c]
    /\ pc' = [pc EXCEPT ![s] = "want"]
    /\ UNCHANGED <<victim, lastCall, interests, callVars, taskVars, ongoing,
                   actorVars, closeVars>>

\* RequestStop, by a session or by Close: take onStopLock.
StopLock(p) ==
    /\ Up
    /\ pc[p] = "want"
    /\ ~locked[cur[p]]
    /\ locked' = [locked EXCEPT ![cur[p]] = TRUE]
    /\ pc' = [pc EXCEPT ![p] = "stop"]
    /\ UNCHANGED <<cur, victim, lastCall, interests, callVars, onStop, spawned,
                   running, offers, cancelled, ongoing, actorVars, closeVars>>

\* Mutant: the error of the stop function is dropped.
Stopped_Anyhow(failed) == TRUE

\* The chained stop function returns no error.
Stopped(failed) == failed = {}

\* Mutant: an early return on error, without the deferred Unlock.
Unlocked_NoError(c, failed) == [locked EXCEPT ![c] = failed # {}]

\* The deferred Unlock, on every path.
Unlocked(c, failed) == [locked EXCEPT ![c] = FALSE]

\* The chain of stop functions runs to its end, each stopping its task or
\* failing. The chain is dropped and the call cancelled only when none failed.
StopRun(p, failed) ==
    /\ Up
    /\ pc[p] = "stop"
    /\ LET c == cur[p] IN
          /\ failed \subseteq onStop[c]
          /\ StopMayFail \/ failed = {}
          /\ running' = [running EXCEPT ![c] = @ \ (onStop[c] \ failed)]
          /\ offers' = [offers EXCEPT ![c] = @ \ (onStop[c] \ failed)]
          /\ IF Stopped(failed)
             THEN /\ onStop' = [onStop EXCEPT ![c] = {}]
                  /\ cancelled' = [cancelled EXCEPT ![c] = TRUE]
                  /\ lastCall' = [s \in Sessions |->
                        IF s = p /\ lastCall[s] = c THEN 0 ELSE lastCall[s]]
             ELSE UNCHANGED <<onStop, cancelled, lastCall>>
          /\ locked' = Unlocked(c, failed)
    /\ cur' = [cur EXCEPT ![p] = 0]
    /\ pc' = [pc EXCEPT ![p] = IF p = Closer THEN "range" ELSE "idle"]
    /\ UNCHANGED <<victim, interests, callVars, spawned, ongoing, actorVars,
                   closeVars>>

\* KillActor: Load, Close and Delete, which nothing makes one step.
KillLoad(s, n) ==
    /\ Up
    /\ "kill" \in Builtins
    /\ pc[s] = "idle"
    /\ actors[n] # 0
    /\ victim' = [victim EXCEPT ![s] = actors[n]]
    /\ pc' = [pc EXCEPT ![s] = "killClose"]
    /\ UNCHANGED <<cur, lastCall, interests, callVars, taskVars, ongoing,
                   actorVars, closeVars>>

KillClose(s) ==
    /\ Up
    /\ pc[s] = "killClose"
    /\ closedActors' = closedActors \cup {victim[s]}
    /\ pc' = [pc EXCEPT ![s] = "killDelete"]
    /\ UNCHANGED <<cur, victim, lastCall, interests, callVars, taskVars,
                   ongoing, born, nameOf, actors, globalDone, closeVars>>

\* Mutant: the killed actor keeps its name.
Unbound_Not(n) == actors

Unbound(n) == [actors EXCEPT ![n] = 0]

KillDelete(s) ==
    /\ Up
    /\ pc[s] = "killDelete"
    /\ actors' = Unbound(nameOf[victim[s]])
    /\ victim' = [victim EXCEPT ![s] = 0]
    /\ pc' = [pc EXCEPT ![s] = "idle"]
    /\ UNCHANGED <<cur, lastCall, interests, callVars, taskVars, ongoing,
                   born, nameOf, closedActors, globalDone, closeVars>>

\* A bare "lvl_x _id": SetInterest on any ID, open or not.
SetLevel(s, id) ==
    /\ Up
    /\ "lvl" \in Builtins
    /\ pc[s] = "idle"
    /\ interests' = [interests EXCEPT ![s] = @ \cup {id}]
    /\ UNCHANGED <<pc, cur, victim, lastCall, callVars, taskVars, ongoing,
                   actorVars, closeVars>>

\* exit: Session.Close. The session's calls go on, and its interests stay.
ExitSession(s) ==
    /\ Up
    /\ "exit" \in Builtins
    /\ pc[s] = "idle"
    /\ pc' = [pc EXCEPT ![s] = "exited"]
    /\ UNCHANGED <<cur, victim, lastCall, interests, callVars, taskVars,
                   ongoing, actorVars, closeVars>>
-----------------------------------------------------------------------------
(* SessionProcessor.Close. It sets closing, which nothing reads. *)

CloseStart ==
    /\ "close" \in Builtins
    /\ pc[Closer] = "open"
    /\ toVisit' = {id \in IDs : ongoing[id] # 0}
    /\ pc' = [pc EXCEPT ![Closer] = "range"]
    /\ UNCHANGED <<cur, victim, lastCall, interests, callVars, taskVars,
                   ongoing, actorVars, visited>>

\* Range visits a key at most once, and may visit one stored meanwhile.
CloseVisit(id) ==
    /\ pc[Closer] = "range"
    /\ id \notin visited
    /\ ongoing[id] # 0
    /\ visited' = visited \cup {id}
    /\ toVisit' = toVisit \ {id}
    /\ cur' = [cur EXCEPT ![Closer] = ongoing[id]]
    /\ pc' = [pc EXCEPT ![Closer] = "want"]
    /\ UNCHANGED <<victim, lastCall, interests, callVars, taskVars, ongoing,
                   actorVars>>

\* Range ends once it visited every key that was there all along.
CloseRangeEnd ==
    /\ pc[Closer] = "range"
    /\ toVisit = {}
    /\ pc' = [pc EXCEPT ![Closer] = "actors"]
    /\ UNCHANGED <<cur, victim, lastCall, interests, callVars, taskVars,
                   ongoing, actorVars, closeVars>>

CloseActors ==
    /\ pc[Closer] = "actors"
    /\ closedActors' = closedActors \cup {actors[n] : n \in {m \in Names : actors[m] # 0}}
    /\ pc' = [pc EXCEPT ![Closer] = "globals"]
    /\ UNCHANGED <<cur, victim, lastCall, interests, callVars, taskVars,
                   ongoing, born, nameOf, actors, globalDone, closeVars>>

\* globalActorCancel and globalSessionCancel, after which the process exits.
CloseGlobals ==
    /\ pc[Closer] = "globals"
    /\ globalDone' = TRUE
    /\ pc' = [pc EXCEPT ![Closer] = "closed"]
    /\ UNCHANGED <<cur, victim, lastCall, interests, callVars, taskVars,
                   ongoing, born, nameOf, actors, closedActors, closeVars>>

Exited == ~Up /\ UNCHANGED vars
-----------------------------------------------------------------------------
SessionStep(s) ==
    \/ \E n \in Names, id \in IDs : MakeCall(s, n, id)
    \/ LoadFail(s)
    \/ LoadOk(s)
    \/ \E t \in Tasks : RegisterStop(s, t)
    \/ ExecReturn(s)
    \/ \E c \in Calls : NextCmd(s, c)
    \/ \E t \in Tasks : RequestStep(s, t)
    \/ StepReturn(s)
    \/ NextOver(s)
    \/ NextTimeout(s)
    \/ \E c \in Calls : CancelCmd(s, c)
    \/ \E n \in Names : KillLoad(s, n)
    \/ KillClose(s)
    \/ KillDelete(s)
    \/ \E id \in IDs : SetLevel(s, id)
    \/ ExitSession(s)

FreeStep(c) == FreeWait(c) \/ FreeInterests(c) \/ FreeDelete(c)

TaskStep(c, t) == TaskEnds(c, t) \/ StepOffer(c, t) \/ StepOver(c, t)

RequestStop(p) == StopLock(p) \/ \E failed \in SUBSET Tasks : StopRun(p, failed)

CloseStep ==
    \/ CloseStart
    \/ \E id \in IDs : CloseVisit(id)
    \/ CloseRangeEnd
    \/ CloseActors
    \/ CloseGlobals

Next ==
    \/ \E s \in Sessions : SessionStep(s)
    \/ \E c \in Calls : FreeStep(c)
    \/ \E c \in Calls, t \in Tasks : TaskStep(c, t)
    \/ \E p \in Procs : RequestStop(p)
    \/ CloseStep
    \/ Exited

Spec == Init /\ [][Next]_vars
-----------------------------------------------------------------------------
(* Fairness: goroutines that can run do run, Go's mutex is starvation-free, *)
(* and a stop function returns. Nothing makes a command return, a user type *)
(* a command, or a task end or offer a step.                                *)

Fairness ==
    /\ \A c \in Calls : WF_vars(FreeStep(c))
    /\ \A c \in Calls, t \in Tasks : WF_vars(StepOver(c, t))
    /\ \A s \in Sessions : /\ WF_vars(LoadFail(s) \/ LoadOk(s))
                          /\ WF_vars(KillClose(s) \/ KillDelete(s))
                          /\ WF_vars(NextOver(s))
    /\ \A p \in Procs : /\ SF_vars(StopLock(p))
                        /\ WF_vars(\E failed \in SUBSET Tasks : StopRun(p, failed))
    /\ WF_vars(\E id \in IDs : CloseVisit(id))
    /\ WF_vars(CloseRangeEnd \/ CloseActors \/ CloseGlobals)

FairSpec == Spec /\ Fairness
-----------------------------------------------------------------------------
(* Properties. *)

\* The call is in the registry from ask.Load until its resources are freed.
OpenStages == {"exec", "wait", "unset", "delete"}
Open(c) == stage[c] \in OpenStages

\* No background task is ever out of reach of its call's stop function: the
\* chain built by RegisterStop (call.go:82-100) holds every task that runs, also
\* after a RequestStop in which some of the chain failed (call.go:130-137).
TaskCovered ==
    \A c \in Calls :
        /\ running[c] \subseteq onStop[c]
        /\ ~spawned[c] => onStop[c] = {}

\* bgCancel is only ever called on a call that has no task running at that
\* moment: by the freeing goroutine when nothing was spawned
\* (session_processor.go:230), and by RequestStop after every stop function
\* succeeded (call.go:139).
CancelIsClean ==
    [][\A c \in Calls : ~cancelled[c] /\ cancelled'[c] => running'[c] = {}]_vars

\* Every entry of ongoingCalls is a call that was loaded and not yet freed, under
\* its own ID: `cancel` and `next` by ID never reach a call that is gone, even
\* though entries are overwritten and deleted by ID alone.
OngoingIsOpen ==
    \A id \in IDs : ongoing[id] # 0 =>
        /\ Open(ongoing[id])
        /\ callId[ongoing[id]] = id

\* An open call with an auto-generated ID can be found in ongoingCalls by its ID,
\* so that `calls`, `cancel`, `next` and Close see it, whatever happens to the
\* calls that share a custom ID.
OpenIsOngoing ==
    \A c \in 1..made :
        Open(c) /\ callId[c] \notin CustomIDs => ongoing[callId[c]] = c

\* The session that made a call with an auto-generated ID receives its logs until
\* the call's resources are freed: no other call's clean-up and no failed
\* command takes the interest away.
LogsReachMaker ==
    \A c \in 1..made :
        stage[c] \in {"load", "exec", "wait", "unset"} /\ callId[c] \notin CustomIDs
            => callId[c] \in interests[maker[c]]

\* A name is bound to a closed actor only while a kill of that actor still has
\* to delete it, or once Close closed all actors: with any number of kills
\* and calls racing, a killed actor never comes back under its name.
KilledActorUnbound ==
    \A n \in Names : actors[n] \in closedActors =>
        \/ pc[Closer] \in {"globals", "closed"}
        \/ \E s \in Sessions : pc[s] = "killDelete" /\ victim[s] = actors[n]

\* A call that has returned and is over (or never spawned anything) is freed.
OverIsFreed ==
    \A c \in Calls :
        (stage[c] = "wait" /\ (~spawned[c] \/ BgDone(c))) ~> (stage[c] = "freed" \/ ~Up)

\* A session blocked in `next` is released once the call is over.
NextReturns ==
    \A s \in Sessions : (pc[s] = "next" /\ BgDone(cur[s])) ~> (pc[s] # "next" \/ ~Up)

\* Close runs to its end: it does not wait for the calls that it visits, nor for
\* the ones that users make meanwhile.
CloseEnds == (pc[Closer] = "range") ~> ~Up

\* The life of each call, as CallLife sees it.
Phase(c) ==
    CASE stage[c] = "none"   -> "none"
      [] stage[c] = "freed"  -> "freed"
      [] stage[c] = "failed" -> "over"
      [] OTHER -> IF BgDone(c) THEN "over" ELSE "live"

Life == INSTANCE CallLife WITH phase <- [c \in Calls |-> Phase(c)]

\* Every call goes through the life of CallLife: it is freed only once it is
\* over, it is over only once, and it never lives again.
ImplementsCallLife == Life!LifeSpec
=============================================================================
