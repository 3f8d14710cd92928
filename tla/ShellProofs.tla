---------------------------- MODULE ShellProofs ----------------------------
(***************************************************************************)
(* What holds of Shell for every number of users, whatever they type.      *)
(***************************************************************************)
EXTENDS Shell, TLAPS

-----------------------------------------------------------------------------
(* The inductive invariant. *)

\* Who has come has a kind, and who was let in has a session.
UserInv ==
    \A c \in Conns :
        /\ pc[c] # "none" => kind[c] # None
        /\ pc[c] \notin {"none", "refused", "accepted"} => c \in sessions

\* A command waits for its call while the call is open, and holds the mutex of the
\* logger while its entry is written.
CallInv ==
    /\ logged \subseteq ongoing
    /\ \A c \in Conns : pc[c] \in {"call", "split", "called"} => c \in ongoing
    /\ \A c \in Conns : mu = c => pc[c] = "split"

\* A clear knows every open call that was not opened during a clear.
ClearInv == \A d \in Clearing : ongoing \ raced \subseteq opens[d]

\* In a session whose includes did not overlap, the one that runs found the actor
\* that the user chose.
Chosen(c) ==
    /\ Running(c) = {} => actorOf[c] = FALSE
    /\ \A i, j \in Running(c) : i = j
    /\ \A i \in Running(c) : saved[c][i] = FALSE
ActorInv == \A c \in Conns \ mixed : Chosen(c)

Inv == TypeOK /\ UserInv /\ CallInv /\ ClearInv /\ OpenDataKept /\ ActorInv
-----------------------------------------------------------------------------
(* Types. *)

\* Where the loops go.
LEMMA AfterType ==
    ASSUME NEW c \in Conns, kind[c] \in Kinds, NEW what, NEW stop
    PROVE  After(c, what, stop) \in {"reading", "waiting", "ending"}
BY DEF Kinds, After, ConnLoop, SshLoop, ShellLoop, BareLoop, FileLoop, PostLoop

\* A user who types has a session and a kind, and the rest of the script is a script.
LEMMA TypesType ==
    ASSUME TypeOK, UserInv, NEW c \in Conns, NEW what, Types(c, what)
    PROVE  /\ script' \in [Conns -> Seq(Statements)] /\ UNCHANGED <<kind, client>>
           /\ pc[c] = "reading" /\ c \in sessions /\ kind[c] \in Kinds
<1>1. script \in [Conns -> Seq(Statements)] /\ script[c] # <<>> /\ script' = [script EXCEPT ![c] = Tail(@)]
  BY DEF TypeOK, Types
<1>2. Tail(script[c]) \in Seq(Statements)
  BY <1>1
<1>3. script' \in [Conns -> Seq(Statements)]
  BY <1>1, <1>2
<1>4. pc[c] = "reading" /\ UNCHANGED <<kind, client>>
  BY DEF Types
<1>5. c \in sessions /\ kind[c] \in Kinds
  BY <1>4 DEF UserInv, TypeOK
<1> QED
  BY <1>3, <1>4, <1>5

\* Every step of the goroutines that serve users keeps the types.
LEMMA ServeType ==
    ASSUME TypeOK, UserInv, CallInv, NEW c \in Conns, Serve(c)
    PROVE  TypeOK'
<1> USE ShellAssumption
<1> USE DEF TypeOK, Goes, SessOnly, userVars, callVars, logVars, clearVars, actorVars, closeVars,
            CloseSession, CloseStart
<1>1. ASSUME NewSession(c) PROVE TypeOK'
  BY <1>1 DEF NewSession, Stored
<1>2. ASSUME CloseConn(c) PROVE TypeOK'
  BY <1>2 DEF CloseConn
<1>3. ASSUME Ends(c) PROVE TypeOK'
  BY <1>3 DEF Ends
<1>4. ASSUME LogEntry(c) PROVE TypeOK'
  BY <1>4 DEF LogEntry, Interested
<1>5. ASSUME EntryWritten(c) PROVE TypeOK'
  BY <1>5 DEF EntryWritten
<1>6. ASSUME CallEnds(c) PROVE TypeOK'
  BY <1>6 DEF CallEnds
<1>7. ASSUME Cleared(c) PROVE TypeOK'
  BY <1>7 DEF Cleared
<1>8. ASSUME NEW k \in Conns, ClearVisit(c, k) PROVE TypeOK'
  BY <1>8 DEF ClearVisit, sessVars
<1> QED
  BY <1>1, <1>2, <1>3, <1>4, <1>5, <1>6, <1>7, <1>8 DEF Serve

\* Every step of a user keeps the types.
LEMMA UserType ==
    ASSUME TypeOK, UserInv, NEW c \in Conns, User(c)
    PROVE  TypeOK'
<1> USE ShellAssumption
<1> USE DEF Goes, SessOnly, ActorOnly, userVars, sessVars, callVars, logVars, clearVars, actorVars,
            closeVars
<1>0. ASSUME NEW what, Types(c, what)
      PROVE  /\ script' \in [Conns -> Seq(Statements)] /\ UNCHANGED <<kind, client>>
             /\ pc[c] = "reading" /\ c \in sessions /\ kind[c] \in Kinds
  BY <1>0, TypesType
<1>1. ASSUME Accept(c) PROVE TypeOK'
  BY <1>1 DEF TypeOK, Accept
<1>2. ASSUME Exit(c) PROVE TypeOK'
  <2>1. Types(c, "exit") /\ \E where \in {"reading", "waiting", "ending"} : pc' = [pc EXCEPT ![c] = where]
    BY <1>0, <1>2, AfterType DEF Exit
  <2> QED
    BY <1>0, <1>2, <2>1 DEF TypeOK, Exit, CloseSession
<1>3. ASSUME Interrupt(c) PROVE TypeOK'
  <2>1. Types(c, "interrupt") /\ \E where \in {"reading", "waiting", "ending"} : pc' = [pc EXCEPT ![c] = where]
    BY <1>0, <1>3, AfterType DEF Interrupt
  <2> QED
    BY <1>0, <1>3, <2>1 DEF TypeOK, Interrupt
<1>4. ASSUME EndOfInput(c) PROVE TypeOK'
  <2>1. kind[c] \in Kinds
    BY <1>4 DEF EndOfInput, TypeOK, UserInv
  <2>2. \E where \in {"reading", "waiting", "ending"} : pc' = [pc EXCEPT ![c] = where]
    BY <1>4, <2>1, AfterType DEF EndOfInput
  <2> QED
    BY <1>4, <2>2 DEF TypeOK, EndOfInput
<1>5. ASSUME MakeCall(c) PROVE TypeOK'
  <2>1. Types(c, "call") /\ pc' = [pc EXCEPT ![c] = "call"]
    BY <1>5 DEF MakeCall
  <2> QED
    BY <1>0, <1>5, <2>1 DEF TypeOK, MakeCall
<1>6. ASSUME ClearOpenCalls(c) PROVE TypeOK'
  <2>1. Types(c, "clear") /\ pc' = [pc EXCEPT ![c] = "clear"]
    BY <1>6 DEF ClearOpenCalls
  <2> QED
    BY <1>0, <1>6, <2>1 DEF TypeOK, ClearOpenCalls
<1>7. ASSUME Me(c) PROVE TypeOK'
  <2>1. Types(c, "me")
    BY <1>7 DEF Me
  <2> QED
    BY <1>0, <1>7, <2>1 DEF TypeOK, Me
<1>8. ASSUME Grab(c) PROVE TypeOK'
  <2>1. Types(c, "grab") /\ \E where \in {"reading", "waiting", "ending"} : pc' = [pc EXCEPT ![c] = where]
    BY <1>0, <1>8, AfterType DEF Grab
  <2> QED
    BY <1>0, <1>8, <2>1 DEF TypeOK, Grab
<1>9. ASSUME NEW stop \in BOOLEAN, Fail(c, stop) PROVE TypeOK'
  <2>1. Types(c, "fail") /\ \E where \in {"reading", "waiting", "ending"} : pc' = [pc EXCEPT ![c] = where]
    BY <1>0, <1>9, AfterType DEF Fail
  <2> QED
    BY <1>0, <1>9, <2>1 DEF TypeOK, Fail
<1>10. ASSUME NEW d \in Conns, SetLevel(c, d) PROVE TypeOK'
  <2>1. Types(c, "lvl")
    BY <1>10 DEF SetLevel
  <2> QED
    BY <1>0, <1>10, <2>1 DEF TypeOK, SetLevel
<1>11. ASSUME NEW i \in Includes, Include(c, i) PROVE TypeOK'
  <2>1. Types(c, "include")
    BY <1>11 DEF Include
  <2> QED
    BY <1>0, <1>11, <2>1 DEF TypeOK, Include
<1>12. ASSUME NEW i \in Includes, IncludeEnds(c, i) PROVE TypeOK'
  BY <1>12 DEF TypeOK, IncludeEnds, Running, Restored
<1>13. ASSUME NEW how \in {"slow", "gone"}, Client(c, how) PROVE TypeOK'
  BY <1>13 DEF TypeOK, Client
<1> QED
  BY <1>1, <1>2, <1>3, <1>4, <1>5, <1>6, <1>7, <1>8, <1>9, <1>10, <1>11, <1>12, <1>13 DEF User

\* So do the steps of the logger, of the far end and of the shutdown.
LEMMA OtherType ==
    ASSUME TypeOK, \/ \E c \in Conns : Write(c) \/ Client(c, "again")
                   \/ CatchSignal \/ Closes
    PROVE  TypeOK'
<1> USE DEF TypeOK, userVars, sessVars, callVars, logVars, clearVars, actorVars, closeVars, CloseStart
<1>1. ASSUME NEW c \in Conns, Write(c) PROVE TypeOK'
  BY <1>1 DEF Write
<1>2. ASSUME NEW c \in Conns, Client(c, "again") PROVE TypeOK'
  BY <1>2 DEF Client
<1>3. ASSUME CatchSignal PROVE TypeOK'
  BY <1>3 DEF CatchSignal
<1>4. ASSUME CloseCallWritten PROVE TypeOK'
  BY <1>4 DEF CloseCallWritten
<1>5. ASSUME CloseSessions PROVE TypeOK'
  BY <1>5 DEF CloseSessions
<1>6. ASSUME ProcessExits PROVE TypeOK'
  BY <1>6 DEF ProcessExits
<1>7. ASSUME NEW c \in Conns, CloseCall(c) PROVE TypeOK'
  BY <1>7 DEF CloseCall, Interested, Signal
<1> QED
  BY <1>1, <1>2, <1>3, <1>4, <1>5, <1>6, <1>7 DEF Closes
-----------------------------------------------------------------------------
(* Users. *)

\* Sessions are never removed, and only who was let in leaves the door.
LEMMA StepUser ==
    ASSUME TypeOK, UserInv, CallInv, Next
    PROVE  UserInv'
<1> USE DEF Goes, SessOnly, ActorOnly, userVars, sessVars, callVars, logVars, clearVars, actorVars,
            closeVars
<1>1. pc = [d \in Conns |-> pc[d]]
  BY DEF TypeOK
<1>2. ASSUME NEW c \in Conns, pc[c] \notin {"none", "refused", "accepted"},
             UNCHANGED kind, sessions \subseteq sessions',
             pc' = pc \/ \E where : pc' = [pc EXCEPT ![c] = where]
      PROVE  UserInv'
  BY <1>1, <1>2 DEF UserInv
<1>3. ASSUME UNCHANGED <<kind, pc, sessions>> PROVE UserInv'
  BY <1>3 DEF UserInv
<1>4. ASSUME NEW c \in Conns, Serve(c) PROVE UserInv'
  <2>1. ASSUME NewSession(c) PROVE UserInv'
    BY <1>1, <2>1 DEF NewSession, Stored, UserInv
  <2>2. ASSUME ~NewSession(c)
        PROVE  /\ pc[c] \notin {"none", "refused", "accepted"}
               /\ UNCHANGED kind /\ sessions \subseteq sessions'
               /\ pc' = pc \/ \E where : pc' = [pc EXCEPT ![c] = where]
    BY <1>4, <2>2
    DEF Serve, CloseConn, Ends, LogEntry, EntryWritten, CallEnds, Cleared, ClearVisit, CallInv
  <2> QED
    BY <1>2, <2>1, <2>2
<1>5. ASSUME NEW c \in Conns, User(c) PROVE UserInv'
  <2>1. ASSUME Accept(c) PROVE UserInv'
    BY <1>1, <2>1 DEF Accept, UserInv
  <2>2. ASSUME NEW i \in Includes, IncludeEnds(c, i) PROVE UserInv'
    BY <1>3, <2>2 DEF IncludeEnds
  <2>3. ASSUME NEW how \in {"slow", "gone"}, Client(c, how) PROVE UserInv'
    BY <1>3, <2>3 DEF Client
  <2>4. ASSUME \/ Exit(c) \/ Interrupt(c) \/ EndOfInput(c) \/ MakeCall(c) \/ ClearOpenCalls(c)
               \/ Me(c) \/ Grab(c)
               \/ \E stop \in BOOLEAN : Fail(c, stop)
               \/ \E d \in Conns : SetLevel(c, d)
               \/ \E i \in Includes : Include(c, i)
        PROVE  /\ pc[c] \notin {"none", "refused", "accepted"}
               /\ UNCHANGED kind /\ sessions \subseteq sessions'
               /\ pc' = pc \/ \E where : pc' = [pc EXCEPT ![c] = where]
    BY <2>4 DEF Exit, Interrupt, EndOfInput, MakeCall, ClearOpenCalls, Me, Grab, Fail, SetLevel,
                Include, Types
  <2> QED
    BY <1>2, <1>5, <2>1, <2>2, <2>3, <2>4 DEF User
<1>6. ASSUME \/ \E c \in Conns : Write(c) \/ Client(c, "again")
             \/ CatchSignal \/ Closes
      PROVE  UserInv'
  BY <1>3, <1>6
  DEF Write, Client, CatchSignal, Closes, CloseCallWritten, CloseSessions, ProcessExits, CloseCall
<1> QED
  BY <1>4, <1>5, <1>6 DEF Next
-----------------------------------------------------------------------------
(* Log data. *)

DataInv == CallInv /\ ClearInv /\ OpenDataKept

\* Steps that have nothing to do with calls.
LEMMA DataFrame ==
    ASSUME TypeOK, DataInv, UNCHANGED <<ongoing, logged, raced, data, opens>>,
           mu' \notin Conns \/ mu' = mu,
           \/ pc' = pc
           \/ \E c \in Conns : \E where :
                 /\ pc[c] # "split" \/ mu' \notin Conns
                 /\ where \notin {"call", "split", "called", "clear"} \/ (where = "called" /\ pc[c] = "split")
                 /\ pc' = [pc EXCEPT ![c] = where]
    PROVE  DataInv'
<1>1. pc = [d \in Conns |-> pc[d]]
  BY DEF TypeOK
<1>2. CallInv'
  BY <1>1 DEF DataInv, CallInv
<1>3. ClearInv'
  BY <1>1 DEF DataInv, ClearInv, Clearing
<1>4. OpenDataKept'
  BY DEF DataInv, OpenDataKept
<1> QED
  BY <1>2, <1>3, <1>4 DEF DataInv

\* The steps of calls and of clear_log_data.
LEMMA CallData ==
    ASSUME TypeOK, DataInv, NEW c \in Conns,
           \/ LogEntry(c) \/ CallEnds(c) \/ MakeCall(c) \/ ClearOpenCalls(c)
           \/ \E k \in Conns : ClearVisit(c, k)
    PROVE  DataInv'
<1> USE DEF Goes, userVars, sessVars, callVars, logVars, clearVars, actorVars, closeVars
<1>1. /\ pc = [d \in Conns |-> pc[d]] /\ opens \in [Conns -> SUBSET Conns]
      /\ ongoing \subseteq Conns
  BY DEF TypeOK
<1>2. ASSUME LogEntry(c) PROVE DataInv'
  <2>1. CallInv'
    BY <1>1, <1>2 DEF LogEntry, DataInv, CallInv
  <2>2. ClearInv'
    BY <1>1, <1>2 DEF LogEntry, DataInv, ClearInv, Clearing
  <2>3. OpenDataKept'
    BY <1>2 DEF LogEntry, DataInv, OpenDataKept
  <2> QED
    BY <2>1, <2>2, <2>3 DEF DataInv
<1>3. ASSUME CallEnds(c) PROVE DataInv'
  <2>1. CallInv'
    BY <1>1, <1>3 DEF CallEnds, DataInv, CallInv
  <2>2. ClearInv'
    BY <1>1, <1>3 DEF CallEnds, DataInv, ClearInv, Clearing
  <2>3. OpenDataKept'
    BY <1>3 DEF CallEnds, DataInv, OpenDataKept
  <2> QED
    BY <2>1, <2>2, <2>3 DEF DataInv
<1>4. ASSUME MakeCall(c) PROVE DataInv'
  <2>1. CallInv'
    BY <1>1, <1>4 DEF MakeCall, Types, DataInv, CallInv
  <2>2. ClearInv'
    BY <1>1, <1>4 DEF MakeCall, Types, DataInv, ClearInv, Clearing
  <2>3. OpenDataKept'
    BY <1>4 DEF MakeCall, DataInv, OpenDataKept
  <2> QED
    BY <2>1, <2>2, <2>3 DEF DataInv
<1>5. ASSUME ClearOpenCalls(c) PROVE DataInv'
  <2>1. CallInv'
    BY <1>1, <1>5 DEF ClearOpenCalls, Types, DataInv, CallInv
  <2>2. ClearInv'
    BY <1>1, <1>5 DEF ClearOpenCalls, DataInv, ClearInv, Clearing
  <2>3. OpenDataKept'
    BY <1>5 DEF ClearOpenCalls, DataInv, OpenDataKept
  <2> QED
    BY <2>1, <2>2, <2>3 DEF DataInv
<1>6. ASSUME NEW k \in Conns, ClearVisit(c, k) PROVE DataInv'
  <2>1. CallInv' /\ ClearInv'
    BY <1>6 DEF ClearVisit, DataInv, CallInv, ClearInv, Clearing
  <2>2. ongoing \ raced \subseteq opens[c]
    BY <1>6 DEF ClearVisit, DataInv, ClearInv, Clearing
  <2>3. OpenDataKept'
    BY <1>6, <2>2 DEF ClearVisit, Deletes, DataInv, CallInv, OpenDataKept
  <2> QED
    BY <2>1, <2>3 DEF DataInv
<1> QED
  BY <1>2, <1>3, <1>4, <1>5, <1>6

\* Every step keeps the data of open calls.
LEMMA StepData ==
    ASSUME TypeOK, UserInv, DataInv, Next
    PROVE  DataInv'
<1> USE DEF Goes, SessOnly, ActorOnly, userVars, sessVars, callVars, logVars, clearVars, actorVars,
            closeVars
<1> DEFINE Quiet == /\ UNCHANGED <<ongoing, logged, raced, data, opens>>
                    /\ mu' \notin Conns \/ mu' = mu
           MovesOn(c) == \E where :
                 /\ pc[c] # "split" \/ mu' \notin Conns
                 /\ where \notin {"call", "split", "called", "clear"} \/ (where = "called" /\ pc[c] = "split")
                 /\ pc' = [pc EXCEPT ![c] = where]
<1>1. ASSUME NEW c \in Conns, Serve(c) PROVE DataInv'
  <2>1. CASE LogEntry(c) \/ CallEnds(c) \/ \E k \in Conns : ClearVisit(c, k)
    BY <2>1, CallData
  <2>2. CASE NewSession(c) \/ CloseConn(c) \/ Ends(c) \/ Cleared(c)
    <3>1. Quiet /\ MovesOn(c)
      BY <2>2 DEF NewSession, CloseConn, Ends, Cleared
    <3> QED
      BY <3>1, DataFrame
  <2>3. CASE EntryWritten(c)
    <3>1. pc[c] = "split"
      BY <2>3 DEF EntryWritten, DataInv, CallInv
    <3>2. Quiet /\ MovesOn(c)
      BY <2>3, <3>1, ShellAssumption DEF EntryWritten
    <3> QED
      BY <3>2, DataFrame
  <2> QED
    BY <1>1, <2>1, <2>2, <2>3 DEF Serve
<1>2. ASSUME NEW c \in Conns, User(c) PROVE DataInv'
  <2>1. CASE MakeCall(c) \/ ClearOpenCalls(c)
    BY <2>1, CallData
  <2>2. CASE \/ Me(c) \/ \E d \in Conns : SetLevel(c, d)
             \/ \E i \in Includes : Include(c, i) \/ IncludeEnds(c, i)
             \/ \E how \in {"slow", "gone"} : Client(c, how)
    <3>1. Quiet /\ pc' = pc
      BY <2>2 DEF Me, SetLevel, Include, IncludeEnds, Client
    <3> QED
      BY <3>1, DataFrame
  <2>3. CASE Accept(c)
    <3>1. Quiet /\ MovesOn(c)
      BY <2>3 DEF Accept
    <3> QED
      BY <3>1, DataFrame
  <2>4. CASE \/ Exit(c) \/ Interrupt(c) \/ EndOfInput(c) \/ Grab(c)
             \/ \E stop \in BOOLEAN : Fail(c, stop)
    <3>1. pc[c] = "reading" /\ kind[c] \in Kinds
      BY <2>4 DEF Exit, Interrupt, EndOfInput, Grab, Fail, Types, UserInv, TypeOK
    <3>2. \A what, stop : After(c, what, stop) \in {"reading", "waiting", "ending"}
      BY <3>1, AfterType
    <3>3. Quiet
      BY <2>4 DEF Exit, Interrupt, EndOfInput, Grab, Fail
    <3>4. \E where \in {"reading", "waiting", "ending"} : pc' = [pc EXCEPT ![c] = where]
      BY <2>4, <3>2 DEF Exit, Interrupt, EndOfInput, Grab, Fail
    <3> QED
      BY <3>1, <3>3, <3>4, DataFrame
  <2> QED
    BY <1>2, <2>1, <2>2, <2>3, <2>4 DEF User
<1>3. ASSUME \/ \E c \in Conns : Write(c) \/ Client(c, "again")
             \/ CatchSignal \/ Closes
      PROVE  DataInv'
  <2>1. Quiet /\ pc' = pc
    BY <1>3, ShellAssumption
    DEF Write, Client, CatchSignal, Closes, CloseCallWritten, CloseSessions, ProcessExits, CloseCall
  <2> QED
    BY <2>1, DataFrame
<1> QED
  BY <1>1, <1>2, <1>3 DEF Next
-----------------------------------------------------------------------------
(* The default actor. *)

LEMMA StepActor ==
    ASSUME TypeOK, ActorInv, Next
    PROVE  ActorInv'
<1> USE DEF SessOnly, userVars, sessVars, callVars, logVars, clearVars, actorVars, closeVars
<1>1. /\ actorOf \in [Conns -> BOOLEAN] /\ mixed \subseteq Conns
      /\ saved \in [Conns -> [Includes -> BOOLEAN \cup {None}]]
  BY DEF TypeOK
<1>2. ASSUME UNCHANGED actorVars PROVE ActorInv'
  BY <1>2 DEF ActorInv, Chosen, Running
<1>3. ASSUME NEW c \in Conns, Me(c) PROVE ActorInv'
  BY <1>1, <1>3 DEF Me, ActorInv, Chosen, Running
<1>4. ASSUME NEW c \in Conns, NEW i \in Includes, Include(c, i) PROVE ActorInv'
  <2>1. /\ saved' = [saved EXCEPT ![c][i] = actorOf[c]]
        /\ actorOf' = [actorOf EXCEPT ![c] = TRUE]
        /\ mixed' = IF Running(c) = {} THEN mixed ELSE mixed \cup {c}
    BY <1>4 DEF Include
  <2>2. ASSUME NEW d \in Conns \ mixed', d # c
        PROVE  Running(d)' = Running(d) /\ actorOf'[d] = actorOf[d] /\ saved'[d] = saved[d]
    BY <1>1, <2>1, <2>2 DEF Running
  <2>3. ASSUME c \notin mixed'
        PROVE  Running(c)' = {i} /\ saved'[c][i] = FALSE
    <3>1. c \notin mixed /\ Running(c) = {} /\ actorOf[c] = FALSE
      BY <2>1, <2>3 DEF ActorInv, Chosen
    <3>2. saved'[c] = [saved[c] EXCEPT ![i] = FALSE] /\ saved[c] \in [Includes -> BOOLEAN \cup {None}]
      BY <1>1, <2>1, <3>1
    <3> QED
      BY <3>1, <3>2, ShellAssumption DEF Running
  <2>4. ASSUME NEW d \in Conns \ mixed' PROVE Chosen(d)'
    <3>1. CASE d = c
      BY <2>3, <2>4, <3>1 DEF Chosen
    <3>2. CASE d # c
      <4>1. Chosen(d)
        BY <2>1, <2>4 DEF ActorInv
      <4> QED
        BY <2>2, <2>4, <3>2, <4>1 DEF Chosen
    <3> QED
      BY <3>1, <3>2
  <2> QED
    BY <2>4 DEF ActorInv
<1>5. ASSUME NEW c \in Conns, NEW i \in Includes, IncludeEnds(c, i) PROVE ActorInv'
  <2>1. /\ i \in Running(c) /\ UNCHANGED mixed
        /\ actorOf' = [actorOf EXCEPT ![c] = saved[c][i]]
        /\ saved' = [saved EXCEPT ![c][i] = None]
    BY <1>5 DEF IncludeEnds, Restored
  <2>2. ASSUME NEW d \in Conns \ mixed', d # c
        PROVE  Running(d)' = Running(d) /\ actorOf'[d] = actorOf[d] /\ saved'[d] = saved[d]
    BY <1>1, <2>1, <2>2 DEF Running
  <2>3. ASSUME c \notin mixed'
        PROVE  Running(c)' = {} /\ actorOf'[c] = FALSE
    <3>1. saved'[c] = [saved[c] EXCEPT ![i] = None] /\ saved[c] \in [Includes -> BOOLEAN \cup {None}]
      BY <1>1, <2>1
    <3>2. saved[c][i] = FALSE /\ \A j \in Running(c) : j = i
      BY <2>1, <2>3 DEF ActorInv, Chosen
    <3> QED
      BY <1>1, <2>1, <3>1, <3>2 DEF Running
  <2>4. ASSUME NEW d \in Conns \ mixed' PROVE Chosen(d)'
    <3>1. CASE d = c
      BY <2>3, <2>4, <3>1 DEF Chosen
    <3>2. CASE d # c
      <4>1. Chosen(d)
        BY <2>1, <2>4 DEF ActorInv
      <4> QED
        BY <2>2, <2>4, <3>2, <4>1 DEF Chosen
    <3> QED
      BY <3>1, <3>2
  <2> QED
    BY <2>4 DEF ActorInv
<1>6. ASSUME NEW c \in Conns, Serve(c) PROVE UNCHANGED actorVars
  BY <1>6 DEF Serve, NewSession, CloseConn, Ends, LogEntry, EntryWritten, CallEnds, Cleared, ClearVisit
<1>7. ASSUME NEW c \in Conns, User(c), ~Me(c),
             ~\E i \in Includes : Include(c, i) \/ IncludeEnds(c, i)
      PROVE  UNCHANGED actorVars
  BY <1>7 DEF User, Accept, Exit, Interrupt, EndOfInput, MakeCall, ClearOpenCalls, Grab, Fail,
              SetLevel, Client
<1>8. ASSUME \/ \E c \in Conns : Write(c) \/ Client(c, "again")
             \/ CatchSignal \/ Closes
      PROVE  UNCHANGED actorVars
  BY <1>8
  DEF Write, Client, CatchSignal, Closes, CloseCallWritten, CloseSessions, ProcessExits, CloseCall
<1> HIDE DEF actorVars
<1> QED
  BY <1>2, <1>3, <1>4, <1>5, <1>6, <1>7, <1>8 DEF Next
-----------------------------------------------------------------------------
(* The theorems. *)

LEMMA InitInv == Init => Inv
<1> SUFFICES ASSUME Init PROVE Inv
  OBVIOUS
<1> USE ShellAssumption
<1>1. kind \in [Conns -> Kinds \cup {None}] /\ script \in [Conns -> Seq(Statements)]
  BY DEF Init
<1>2. TypeOK
  BY <1>1 DEF Init, TypeOK
<1>3. UserInv /\ CallInv /\ ClearInv /\ OpenDataKept
  BY DEF Init, UserInv, CallInv, ClearInv, Clearing, OpenDataKept
<1>4. ActorInv
  BY DEF Init, ActorInv, Chosen, Running
<1> QED
  BY <1>2, <1>3, <1>4 DEF Inv

LEMMA NextInv == Inv /\ [Next]_vars => Inv'
<1> SUFFICES ASSUME Inv, [Next]_vars PROVE Inv'
  OBVIOUS
<1>1. CASE Next
  <2>1. TypeOK'
    BY <1>1, ServeType, UserType, OtherType DEF Inv, Next
  <2>2. UserInv' /\ ActorInv'
    BY <1>1, StepUser, StepActor DEF Inv
  <2>3. CallInv' /\ ClearInv' /\ OpenDataKept'
    BY <1>1, StepData DEF Inv, DataInv
  <2> QED
    BY <2>1, <2>2, <2>3 DEF Inv
<1>2. CASE UNCHANGED vars
  <2> USE <1>2 DEF Inv, vars, userVars, sessVars, callVars, logVars, clearVars, actorVars, closeVars
  <2>1. TypeOK'
    BY DEF TypeOK
  <2>2. UserInv' /\ CallInv' /\ ClearInv' /\ OpenDataKept'
    BY DEF UserInv, CallInv, ClearInv, Clearing, OpenDataKept
  <2>3. ActorInv'
    BY DEF ActorInv, Chosen, Running
  <2> QED
    BY <2>1, <2>2, <2>3
<1> QED
  BY <1>1, <1>2

\* The inductive invariant holds of every behaviour of the shells.
THEOREM Invariance == Spec => []Inv
<1>1. Init => Inv
  BY InitInv
<1>2. Inv /\ [Next]_vars => Inv'
  BY NextInv
<1> QED
  BY <1>1, <1>2, PTL DEF Spec

\* The shells keep their types: in particular entries are only written to, and
\* interests only kept for, sessions that NewSession has stored.
THEOREM TypeCorrect == Spec => []TypeOK
<1>1. Inv => TypeOK
  BY DEF Inv
<1> QED
  BY <1>1, Invariance, PTL

\* clear_log_data, of any number of sessions at once, keeps the data of every open
\* call that was not opened while a clear was going on.
THEOREM ClearKeepsOpenData == Spec => []OpenDataKept
<1>1. Inv => OpenDataKept
  BY DEF Inv
<1> QED
  BY <1>1, Invariance, PTL

\* The deferred function of include puts back the actor that the user chose, in
\* every session whose includes did not overlap.
THEOREM ActorComesBack == Spec => []DefaultActorRestored
<1>1. Inv => DefaultActorRestored
  BY DEF Inv, ActorInv, Chosen, DefaultActorRestored
<1> QED
  BY <1>1, Invariance, PTL
=============================================================================
