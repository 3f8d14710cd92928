------------------------------- MODULE Shell -------------------------------
(***************************************************************************)
(* The shells: how users get a session (over IPC, TCP, a websocket, SSH,   *)
(* an HTTP POST, or in the process itself), what they run in it, how the   *)
(* log entries of calls reach the sessions that are interested, and how a  *)
(* session, a connection and the process end. Calls themselves are         *)
(* modelled in Calls; here a call only logs and ends.                      *)
(***************************************************************************)
EXTENDS Integers, Sequences, FiniteSets, SequencesExt

CONSTANTS
    Conns,    \* users, with at most one session each
    Plans,    \* records [kind, script]: how each user is attached, and what it types
    Auth,     \* the users with a valid API key, password or public key
    Includes, \* names for scripts that a session includes at the same time
    None      \* nobody

Statements == {"call", "fail", "exit", "interrupt", "lvl", "clear", "me", "include", "grab"}
Kinds == {"net", "ws", "ssh", "post", "bare", "shell", "file"}

\* Who holds the mutex of the logger when SessionProcessor.Close logs.
Signal == "signal"

ASSUME ShellAssumption ==
    /\ \A plan \in Plans : /\ plan.kind \in [Conns -> Kinds \cup {None}]
                           /\ plan.script \in [Conns -> Seq(Statements)]
    /\ None \notin Conns \cup BOOLEAN /\ Signal \notin Conns

VARIABLES
    kind,      \* the kind of each user, None for a user who does not come
    script,    \* what it has still to type
    pc,        \* what the goroutine that serves it does
    client,    \* its end: it reads, is slow (once: a bound), reads again, or is gone
    sessions,  \* SessionProcessor.sessions, by user
    done,      \* the sessions whose context is done
    exited,    \* Session.requestedExit
    interests, \* pairs of a session and the maker of a call
    ongoing,   \* the makers of calls in ongoingCalls
    data,      \* the makers of calls that have log data
    logged,    \* the makers of open calls that stored log data (history)
    raced,     \* the makers of calls that were opened during a clear (history)
    mu,        \* who holds the mutex of the shared logger
    targets,   \* the sessions the entry has still to be written to
    opens,     \* the openCalls of each clear_log_data
    keysLeft,  \* the keys its Range has still to visit
    actorOf,   \* defaultActorID: did an include set it?
    saved,     \* prevActor of each include that runs
    mixed,     \* includes of the session overlapped (history)
    shutdown,  \* the progress of SessionProcessor.Close
    atClose,   \* ongoing when it began
    stopped    \* the calls its Range came to

callVars == <<interests, ongoing, data, logged, raced>>
logVars == <<mu, targets>>
clearVars == <<opens, keysLeft>>
actorVars == <<actorOf, saved, mixed>>
userVars == <<kind, script, client>>
closeVars == <<shutdown, atClose, stopped>>
sessVars == <<pc, sessions, done, exited>>
vars == <<userVars, sessVars, callVars, logVars, clearVars, actorVars, closeVars>>

TypeOK ==
    /\ kind \in [Conns -> Kinds \cup {None}] /\ script \in [Conns -> Seq(Statements)]
    /\ pc \in [Conns -> {"none", "refused", "accepted", "reading", "call", "split", "called",
                         "clear", "waiting", "ending", "closed"}]
    /\ client \in [Conns -> {"reads", "slow", "again", "gone"}]
    /\ sessions \subseteq Conns /\ done \subseteq Conns /\ exited \subseteq Conns
    /\ interests \subseteq sessions \X Conns
    /\ ongoing \subseteq Conns /\ data \subseteq Conns
    /\ logged \subseteq Conns /\ raced \subseteq Conns
    /\ mu \in Conns \cup {None, Signal} /\ targets \subseteq sessions
    /\ opens \in [Conns -> SUBSET Conns] /\ keysLeft \in [Conns -> SUBSET Conns]
    /\ actorOf \in [Conns -> BOOLEAN]
    /\ saved \in [Conns -> [Includes -> BOOLEAN \cup {None}]]
    /\ mixed \subseteq Conns
    /\ shutdown \in {"none", "calls", "split", "cancelled", "exit"}
    /\ atClose \subseteq Conns /\ stopped \subseteq Conns

Init ==
    /\ \E plan \in Plans : kind = plan.kind /\ script = plan.script
    /\ pc = [c \in Conns |-> "none"]
    /\ client = [c \in Conns |-> "reads"]
    /\ sessions = {} /\ done = {} /\ exited = {}
    /\ interests = {} /\ ongoing = {} /\ data = {} /\ logged = {} /\ raced = {}
    /\ mu = None /\ targets = {}
    /\ opens = [c \in Conns |-> {}] /\ keysLeft = opens
    /\ actorOf = [c \in Conns |-> FALSE]
    /\ saved = [c \in Conns |-> [i \in Includes |-> None]]
    /\ mixed = {}
    /\ shutdown = "none" /\ atClose = {} /\ stopped = {}

Local(c) == kind[c] \in {"bare", "shell", "file"}
Goes(c, where) == pc' = [pc EXCEPT ![c] = where]
SessOnly == UNCHANGED <<userVars, callVars, logVars, clearVars, actorVars, closeVars>>
-----------------------------------------------------------------------------
(* Connections and sessions *)

\* The SSH server asks for a password or a public key, and HTTP for the API key.
SshRefuses(c) == kind[c] = "ssh" /\ c \notin Auth
ApiKeyRefuses(c) == kind[c] \in {"ws", "post"} /\ c \notin Auth

\* A user comes, over IPC, TCP (both ask for nothing), HTTP or SSH.
Accept(c) ==
    /\ pc[c] = "none" /\ kind[c] # None
    /\ Goes(c, IF SshRefuses(c) \/ ApiKeyRefuses(c) THEN "refused" ELSE "accepted")
    /\ UNCHANGED <<sessions, done, exited>> /\ SessOnly

\* An entry is being written to sessions, under sessionsLock.RLock.
Splitting == mu # None

\* Sessions are stored under IDs of their own, and are never removed.
Stored(c) == sessions \cup {c}

\* NewSession takes sessionsLock for writing.
NewSession(c) ==
    /\ pc[c] = "accepted" /\ ~Splitting
    /\ sessions' = Stored(c)
    /\ done' = IF shutdown = "cancelled" THEN done \cup {c} ELSE done
    /\ Goes(c, "reading")
    /\ UNCHANGED exited /\ SessOnly

\* Mutant: the context of the session is left open.
CloseSession_NoCancel(c) == exited' = exited \cup {c} /\ UNCHANGED done

\* Session.Close
CloseSession(c) == exited' = exited \cup {c} /\ done' = done \cup {c}

\* The next statement of the user.
Types(c, what) ==
    /\ pc[c] = "reading" /\ client[c] # "gone"
    /\ script[c] # <<>> /\ Head(script[c]) = what
    /\ script' = [script EXCEPT ![c] = Tail(@)]
    /\ UNCHANGED <<kind, client>>

\* Where the loops go when a statement fails or exits, on ^C, and when the input
\* ends. A connection waits for the end of its session. A terminal that gets an
\* error reads on, and gets the same error again.
ConnLoop(what) == IF what = "fail" THEN "reading" ELSE "waiting"
SshLoop(what) == IF what \in {"exit", "interrupt"} THEN "ending" ELSE "reading"
ShellLoop(what) == IF what \in {"exit", "interrupt"} THEN "ending" ELSE "reading"
BareLoop(what, stopOnErr) == IF what = "fail" /\ ~stopOnErr THEN "reading" ELSE "ending"
FileLoop(what) == "ending"
PostLoop(what) == "ending"

After(c, what, stopOnErr) ==
    CASE kind[c] \in {"net", "ws"} -> ConnLoop(what)
      [] kind[c] = "ssh" -> SshLoop(what)
      [] kind[c] = "shell" -> ShellLoop(what)
      [] kind[c] = "bare" -> BareLoop(what, stopOnErr)
      [] kind[c] = "file" -> FileLoop(what)
      [] kind[c] = "post" -> PostLoop(what)

Fail(c, stopOnErr) ==
    /\ Types(c, "fail")
    /\ Goes(c, After(c, "fail", stopOnErr))
    /\ UNCHANGED <<sessions, done, exited, callVars, logVars, clearVars, actorVars, closeVars>>

\* grab gives a variable of the last call, and fails if there is none.
Grab(c) ==
    /\ Types(c, "grab")
    /\ Goes(c, IF c \in data THEN "reading" ELSE After(c, "fail", FALSE))
    /\ UNCHANGED <<sessions, done, exited, callVars, logVars, clearVars, actorVars, closeVars>>

\* exit closes the session, and the loop ends.
Exit(c) ==
    /\ Types(c, "exit")
    /\ CloseSession(c)
    /\ Goes(c, After(c, "exit", FALSE))
    /\ UNCHANGED <<sessions, callVars, logVars, clearVars, actorVars, closeVars>>

\* ^C in a terminal
Interrupt(c) ==
    /\ Types(c, "interrupt") /\ kind[c] \in {"ssh", "shell"}
    /\ Goes(c, After(c, "interrupt", FALSE))
    /\ UNCHANGED <<sessions, done, exited, callVars, logVars, clearVars, actorVars, closeVars>>

\* The input ends, or an hour went by on a connection without any.
EndOfInput(c) ==
    /\ pc[c] = "reading"
    /\ kind[c] \in {"net", "ws"} \/ script[c] = <<>>
    /\ Goes(c, After(c, "eof", FALSE))
    /\ UNCHANGED <<sessions, done, exited>> /\ SessOnly

\* After <-sess.Done() the connection is closed.
CloseConn(c) ==
    /\ pc[c] = "waiting" /\ c \in done
    /\ Goes(c, "closed")
    /\ UNCHANGED <<sessions, done, exited>> /\ SessOnly

\* SessionProcessor.Close begins to range over the calls.
CloseStart == shutdown' = "calls" /\ atClose' = ongoing /\ UNCHANGED stopped

\* The loops of SSH, of a script and of the process close the session. The
\* process goes on with SessionProcessor.Close.
Ends(c) ==
    /\ pc[c] = "ending"
    /\ CloseSession(c)
    /\ Goes(c, "closed")
    /\ IF Local(c) /\ shutdown = "none" THEN CloseStart ELSE UNCHANGED closeVars
    /\ UNCHANGED <<sessions, userVars, callVars, logVars, clearVars, actorVars>>

\* The other end, which may be rumor attach: it stops to read, reads again, or goes.
Client(c, how) ==
    /\ kind[c] \in {"net", "ws", "ssh"}
    /\ <<client[c], how>> \in ({"reads", "slow", "again"} \X {"gone"})
                              \cup {<<"reads", "slow">>, <<"slow", "again">>}
    /\ client' = [client EXCEPT ![c] = how]
    /\ UNCHANGED <<kind, script, sessVars, callVars, logVars, clearVars, actorVars, closeVars>>
-----------------------------------------------------------------------------
(* Calls and their log entries *)

Clearing == {c \in Conns : pc[c] = "clear"}

\* SetInterest, and MakeCall, which stores the call.
MakeCall(c) ==
    /\ Types(c, "call") /\ c \notin ongoing
    /\ interests' = interests \cup {<<c, c>>}
    /\ ongoing' = ongoing \cup {c}
    /\ raced' = IF Clearing = {} THEN raced \ {c} ELSE raced \cup {c}
    /\ logged' = logged \ {c}
    /\ Goes(c, "call")
    /\ UNCHANGED <<sessions, done, exited, data, logVars, clearVars, actorVars, closeVars>>

Interested(c) == {s \in sessions : <<s, c>> \in interests}

\* The call logs. The formatter of the shared logger runs under its mutex: it stores
\* the fields, and writes the entry to every session that is interested.
LogEntry(c) ==
    /\ pc[c] = "call" /\ mu = None
    /\ mu' = c /\ targets' = Interested(c)
    /\ data' = data \cup {c} /\ logged' = logged \cup {c}
    /\ Goes(c, "split")
    /\ UNCHANGED <<sessions, done, exited, userVars, interests, ongoing, raced, clearVars,
                   actorVars, closeVars>>

\* Mutant: connections are written to without a deadline.
WriteEnds_Blocks(s) == client[s] # "slow"

\* A write ends: the user reads, is gone, or did not read for UserWriteTimeout. For
\* SSH there is no deadline; a script writes to a buffer.
WriteEnds(s) == client[s] # "slow" \/ kind[s] # "ssh"

Write(s) ==
    /\ s \in targets /\ WriteEnds(s)
    /\ targets' = targets \ {s}
    /\ UNCHANGED <<userVars, sessVars, callVars, mu, clearVars, actorVars, closeVars>>

EntryWritten(c) ==
    /\ mu = c /\ targets = {}
    /\ mu' = None
    /\ Goes(c, "called")
    /\ UNCHANGED <<targets, sessions, done, exited>>
    /\ UNCHANGED <<userVars, callVars, clearVars, actorVars, closeVars>>

\* The call is freed: RemoveInterests, and its entry in ongoingCalls.
CallEnds(c) ==
    /\ pc[c] = "called"
    /\ interests' = {i \in interests : i[2] # c}
    /\ ongoing' = ongoing \ {c}
    /\ logged' = logged \ {c}
    /\ Goes(c, "reading")
    /\ UNCHANGED <<sessions, done, exited, userVars, data, raced, logVars, clearVars,
                   actorVars, closeVars>>

\* lvl_debug _id: the log of somebody else's call.
SetLevel(c, d) ==
    /\ Types(c, "lvl")
    /\ interests' = interests \cup {<<c, d>>}
    /\ UNCHANGED <<sessVars, ongoing, data, logged, raced, logVars, clearVars, actorVars,
                   closeVars>>
-----------------------------------------------------------------------------
(* clear_log_data *)

\* The open calls are collected first.
ClearOpenCalls(c) ==
    /\ Types(c, "clear")
    /\ opens' = [opens EXCEPT ![c] = ongoing]
    /\ keysLeft' = [keysLeft EXCEPT ![c] = Conns]
    /\ Goes(c, "clear")
    /\ UNCHANGED <<sessions, done, exited, callVars, logVars, actorVars, closeVars>>

\* Mutant: the data of open calls is deleted, and the rest is kept.
Deletes_Open(c, k) == k \in opens[c]

\* A key is kept if the ID of an open call is a prefix of it.
Deletes(c, k) == k \notin opens[c]

ClearVisit(c, k) ==
    /\ pc[c] = "clear" /\ k \in keysLeft[c]
    /\ keysLeft' = [keysLeft EXCEPT ![c] = @ \ {k}]
    /\ data' = IF Deletes(c, k) THEN data \ {k} ELSE data
    /\ UNCHANGED <<userVars, sessVars, interests, ongoing, logged, raced, logVars, opens,
                   actorVars, closeVars>>

Cleared(c) ==
    /\ pc[c] = "clear" /\ keysLeft[c] = {}
    /\ Goes(c, "reading")
    /\ UNCHANGED <<sessions, done, exited>> /\ SessOnly
-----------------------------------------------------------------------------
(* The default actor *)

ActorOnly == UNCHANGED <<sessVars, callVars, logVars, clearVars, closeVars>>
Running(c) == {i \in Includes : saved[c][i] # None}

\* me: the actor of the session is set by the user.
Me(c) ==
    /\ Types(c, "me")
    /\ actorOf' = [actorOf EXCEPT ![c] = FALSE]
    /\ mixed' = IF Running(c) = {} THEN mixed ELSE mixed \cup {c}
    /\ UNCHANGED saved /\ ActorOnly

\* bob: include x, in the background or not. The previous actor is kept, and a
\* sub-session is made, which needs sessionsLock.
Include(c, i) ==
    /\ Types(c, "include") /\ i \notin Running(c) /\ ~Splitting
    /\ saved' = [saved EXCEPT ![c][i] = actorOf[c]]
    /\ actorOf' = [actorOf EXCEPT ![c] = TRUE]
    /\ mixed' = IF Running(c) = {} THEN mixed ELSE mixed \cup {c}
    /\ ActorOnly

\* Mutant: the default actor is not put back.
Restored_Not(c, i) == actorOf[c]

Restored(c, i) == saved[c][i]

\* The deferred function of include.
IncludeEnds(c, i) ==
    /\ i \in Running(c)
    /\ actorOf' = [actorOf EXCEPT ![c] = Restored(c, i)]
    /\ saved' = [saved EXCEPT ![c][i] = None]
    /\ UNCHANGED <<userVars, mixed>> /\ ActorOnly
-----------------------------------------------------------------------------
(* Shutdown: SIGTERM or an interrupt of the server, or the end of the process. *)

CatchSignal ==
    /\ shutdown = "none" /\ ~\E c \in Conns : Local(c)
    /\ CloseStart
    /\ UNCHANGED <<userVars, sessVars, callVars, logVars, clearVars, actorVars>>

\* The Range comes to each call once, logs that it stops it, and stops it.
CloseCall(c) ==
    /\ shutdown = "calls" /\ c \in ongoing \ stopped /\ mu = None
    /\ mu' = Signal /\ targets' = Interested(c)
    /\ shutdown' = "split" /\ stopped' = stopped \cup {c}
    /\ UNCHANGED <<atClose, userVars, sessVars, callVars, clearVars, actorVars>>

CloseCallWritten ==
    /\ mu = Signal /\ targets = {}
    /\ mu' = None
    /\ shutdown' = "calls"
    /\ UNCHANGED <<atClose, stopped, targets, userVars, sessVars, callVars, clearVars, actorVars>>

\* The Range ends: it came to every call that was there all the time, and maybe to
\* later ones. The contexts of actors and sessions are cancelled.
CloseSessions ==
    /\ shutdown = "calls" /\ atClose \cap ongoing \subseteq stopped
    /\ done' = Conns
    /\ shutdown' = "cancelled"
    /\ UNCHANGED <<atClose, stopped, pc, sessions, exited>>
    /\ UNCHANGED <<userVars, callVars, logVars, clearVars, actorVars>>

ProcessExits ==
    /\ shutdown = "cancelled"
    /\ shutdown' = "exit"
    /\ UNCHANGED <<atClose, stopped, userVars, sessVars, callVars, logVars, clearVars, actorVars>>
-----------------------------------------------------------------------------
Serve(c) ==
    \/ NewSession(c) \/ CloseConn(c) \/ Ends(c)
    \/ LogEntry(c) \/ EntryWritten(c) \/ CallEnds(c) \/ Cleared(c)
    \/ \E k \in Conns : ClearVisit(c, k)
User(c) ==
    \/ Accept(c) \/ Exit(c) \/ Interrupt(c) \/ EndOfInput(c)
    \/ MakeCall(c) \/ ClearOpenCalls(c) \/ Me(c) \/ Grab(c)
    \/ \E stop \in BOOLEAN : Fail(c, stop)
    \/ \E d \in Conns : SetLevel(c, d)
    \/ \E i \in Includes : Include(c, i) \/ IncludeEnds(c, i)
    \/ \E how \in {"slow", "gone"} : Client(c, how)
Closes == CloseCallWritten \/ CloseSessions \/ ProcessExits \/ \E c \in Conns : CloseCall(c)

Next ==
    /\ shutdown # "exit"
    /\ \/ \E c \in Conns : Serve(c) \/ User(c) \/ Write(c) \/ Client(c, "again")
       \/ CatchSignal \/ Closes

Spec == Init /\ [][Next]_vars

\* Goroutines run, and deadlines pass. Scripts are finite, so nobody waits for ever
\* for a mutex that others keep taking. Users owe nothing, but that an SSH user who
\* is connected and was slow reads again.
Fairness ==
    /\ \A c \in Conns :
        /\ WF_vars(Serve(c) /\ shutdown # "exit")
        /\ WF_vars(Write(c) /\ shutdown # "exit")
        /\ WF_vars(kind[c] = "ssh" /\ Client(c, "again") /\ shutdown # "exit")
    /\ WF_vars(Closes)

FairSpec == Spec /\ Fairness
-----------------------------------------------------------------------------
(* Properties *)

Over == shutdown = "exit"

\* A user who is let in gets a session, whatever the sessions do that other calls
\* log to: NewSession waits for an entry that is being written to a user who does
\* not read, and the write deadline ends that.
AcceptedGetsSession == \A c \in Conns : (pc[c] = "accepted") ~> (pc[c] # "accepted" \/ Over)

\* exit ends the session of a user and closes its connection, though the handler
\* waits for the context of the session and not for the loop that read the exit.
ExitClosesConn == \A c \in Conns : (c \in exited) ~> (pc[c] = "closed" \/ Over)

\* A call that logged keeps its data for as long as it is open, when a
\* clear_log_data of any session begins: its variables can be used by scripts. A
\* call that was opened during a clear may lose what it logs.
OpenDataKept == \A c \in logged \ raced : c \in data

\* After includes that did not overlap, the session has the default actor that the
\* user chose.
DefaultActorRestored == \A c \in Conns \ mixed : Running(c) = {} => ~actorOf[c]
=============================================================================
