----------------------------- MODULE ConnectAll -----------------------------
(***************************************************************************)
(* `peer connectall`: a scanner puts peers of the peerstore into channels, *)
(* one channel for each number of failed attempts, workers take them out   *)
(* and dial, and a goroutine per failure puts the peer back with a lower   *)
(* priority. Models control/actor/peer/connectall.go.                      *)
(*                                                                         *)
(* An entry travels from the scanner through a channel, a worker and a     *)
(* retry goroutine: that is one copy of the peer. A peer may have several, *)
(* since a scan does not know what earlier scans scheduled.                *)
(***************************************************************************)
EXTENDS Integers, Sequences, FiniteSets

CONSTANTS
    Peers,          \* the peers in the peerstore
    Workers,        \* the dialing goroutines
    MaxRetries,     \* --max-retries
    PriorityFloor,  \* priorityFloor (10 in the code)
    QueueCap,       \* capacity of a channel (100 in the code)
    MaxPeers,       \* --max-peers
    MaxCopies       \* bound: number of copies on their way at any time

ASSUME ConnectAllAssumption ==
    /\ IsFiniteSet(Peers) /\ Peers # {}
    /\ MaxRetries \in Nat
    /\ PriorityFloor \in Nat \ {0}
    /\ QueueCap \in Nat \ {0}
    /\ MaxPeers \in Nat
    /\ MaxCopies \in Nat

Copies == 1..MaxCopies

\* len(byAttempts)
Levels == IF MaxRetries > PriorityFloor THEN PriorityFloor ELSE MaxRetries
Slots  == 0..(Levels - 1)

\* Fills the entries that mean nothing.
AnyPeer == CHOOSE p \in Peers : TRUE

VARIABLES
    queue,      \* the channels, by priority
    slot,       \* each entry of byAttempts: its channel, nil, and closed
    attempts,   \* peerAttempts
    overflowed, \* peers whose retry found every channel left to it full (history)
    connected,  \* the peers the host is connected to
    where,      \* where each copy is
    peerOf,     \* the peer of each copy
    prio,       \* the priority its goroutine tries next
    wpc,        \* what each worker does
    wlevel,     \* the select of priorityPeerConsumer a worker is in
    wcopy,      \* the copy a worker is dialing (0: none)
    scanner,    \* what the scanning goroutine does
    todo,       \* the peers it still has to schedule
    cancelled,  \* bgCancel was called
    run,        \* the deferred end of run
    panicked    \* send on closed channel

copyVars   == <<where, peerOf, prio, overflowed>>
workVars   == <<wpc, wlevel, wcopy>>
scanVars   == <<scanner, todo>>
endVars    == <<slot, cancelled, run, panicked>>
vars == <<queue, attempts, connected, copyVars, workVars, scanVars, endVars>>

TypeOK ==
    /\ queue \in [Slots -> Seq(Copies)]
    /\ slot \in [Slots -> {"open", "nil", "closed"}]
    /\ attempts \in [Peers -> Nat]
    /\ overflowed \subseteq Peers
    /\ connected \subseteq Peers
    /\ where \in [Copies -> {"free", "queued", "dialed", "retry", "send"}]
    /\ peerOf \in [Copies -> Peers]
    /\ prio \in [Copies -> Nat]
    /\ wpc \in [Workers -> {"next", "dial", "stopped"}]
    /\ wlevel \in [Workers -> Nat]
    /\ wcopy \in [Workers -> Copies \cup {0}]
    /\ scanner \in {"wait", "push", "stopped"}
    /\ todo \subseteq Peers
    /\ cancelled \in BOOLEAN
    /\ run \in {"running", "closing", "done"}
    /\ panicked \in BOOLEAN

Init ==
    /\ queue = [i \in Slots |-> <<>>]
    /\ slot = [i \in Slots |-> "open"]
    /\ attempts = [p \in Peers |-> 0]
    /\ overflowed = {}
    /\ connected = {}
    /\ where = [k \in Copies |-> "free"]
    /\ peerOf = [k \in Copies |-> AnyPeer]
    /\ prio = [k \in Copies |-> 0]
    /\ wpc = [w \in Workers |-> "next"]
    /\ wlevel = [w \in Workers |-> 0]
    /\ wcopy = [w \in Workers |-> 0]
    /\ scanner = "wait"
    /\ todo = {}
    /\ cancelled = FALSE
    /\ run = "running"
    /\ panicked = FALSE
-----------------------------------------------------------------------------
(* scan *)

\* The copy is gone: nobody holds on to the peer.
Discard(k) ==
    /\ where' = [where EXCEPT ![k] = "free"]
    /\ peerOf' = [peerOf EXCEPT ![k] = AnyPeer]
    /\ prio' = [prio EXCEPT ![k] = 0]

Free == {k \in Copies : where[k] = "free"}

\* The peers to schedule: never failed, or connected last time, and not connected.
Candidates == {p \in Peers : attempts[p] = 0 /\ p \notin connected}

\* No more of them than there is room for below MaxPeers. Which ones is up to
\* the order in which the peerstore lists them.
Room == IF Cardinality(connected) >= MaxPeers
        THEN 0 ELSE MaxPeers - Cardinality(connected)

Scan ==
    /\ scanner = "wait"
    /\ ~panicked
    /\ \E S \in SUBSET Candidates :
          /\ S = Candidates \/ Cardinality(S) = Room
          /\ Cardinality(S) <= Room
          /\ Cardinality(S) <= Cardinality(Free)   \* bound
          /\ S # {}                                \* else nothing changes
          /\ todo' = S
    /\ scanner' = "push"
    /\ UNCHANGED <<queue, attempts, connected, copyVars, workVars, endVars>>

\* The slots of the given priority and below that have room.
Accepting(i) == {j \in Slots : j >= i /\ Len(queue[j]) < QueueCap}

\* schedule(p, 0): the first channel with room takes it. When none does, the
\* round is aborted.
ScanPush(p) ==
    /\ scanner = "push"
    /\ ~panicked
    /\ p \in todo
    /\ \/ \E j \in Accepting(0), k \in Free :
             /\ \A l \in Accepting(0) : j <= l
             /\ \A l \in Free : k <= l
             /\ queue' = [queue EXCEPT ![j] = Append(@, k)]
             /\ where' = [where EXCEPT ![k] = "queued"]
             /\ peerOf' = [peerOf EXCEPT ![k] = p]
             /\ prio' = [prio EXCEPT ![k] = 0]
             /\ todo' = todo \ {p}
             /\ UNCHANGED overflowed
       \/ /\ Accepting(0) = {}
          /\ todo' = {}
          /\ UNCHANGED <<queue, copyVars>>
    /\ scanner' = IF todo' = {} THEN "wait" ELSE "push"
    /\ UNCHANGED <<attempts, connected, workVars, endVars>>

ScanStop ==
    /\ scanner = "wait"
    /\ ~panicked
    /\ cancelled
    /\ scanner' = "stopped"
    /\ UNCHANGED <<queue, attempts, connected, copyVars, workVars, todo, endVars>>
-----------------------------------------------------------------------------
(* The workers, each of which loops over next(ctx) and Connect. *)

\* The channels of the first selects are all empty: fall through to the next one.
NextLevel(w) ==
    /\ wpc[w] = "next"
    /\ ~panicked
    /\ ~cancelled
    /\ wlevel[w] < Levels - 1
    /\ \A i \in 0..wlevel[w] : queue[i] = <<>>
    /\ wlevel' = [wlevel EXCEPT ![w] = @ + 1]
    /\ UNCHANGED <<queue, attempts, connected, copyVars, wpc, wcopy, scanVars, endVars>>

\* A select of level wlevel receives from any of its channels that has a peer.
Receive(w, i) ==
    /\ wpc[w] = "next"
    /\ ~panicked
    /\ i <= wlevel[w]
    /\ queue[i] # <<>>
    /\ queue' = [queue EXCEPT ![i] = Tail(@)]
    /\ where' = [where EXCEPT ![Head(queue[i])] = "dialed"]
    /\ wcopy' = [wcopy EXCEPT ![w] = Head(queue[i])]
    /\ wpc' = [wpc EXCEPT ![w] = "dial"]
    /\ wlevel' = [wlevel EXCEPT ![w] = 0]
    /\ UNCHANGED <<attempts, connected, peerOf, prio, overflowed, scanVars, endVars>>

\* Mutant: a select without the case of ctx.Done.
NextFails_NoCtx == Levels = 0

\* next returns ok = false.
NextFails == cancelled \/ Levels = 0

WorkerStop(w) ==
    /\ wpc[w] = "next"
    /\ ~panicked
    /\ NextFails
    /\ wpc' = [wpc EXCEPT ![w] = "stopped"]
    /\ UNCHANGED <<queue, attempts, connected, copyVars, wlevel, wcopy, scanVars, endVars>>

WorkerDone(w) ==
    /\ wcopy' = [wcopy EXCEPT ![w] = 0]
    /\ wpc' = [wpc EXCEPT ![w] = "next"]
    /\ UNCHANGED <<queue, wlevel, scanVars, endVars>>

\* Already connected, or the dial succeeds: attempts start again from 0.
ConnectOk(w) ==
    /\ wpc[w] = "dial"
    /\ ~panicked
    /\ LET k == wcopy[w]
           p == peerOf[k]
       IN /\ p \in connected \/ ~cancelled
          /\ connected' = connected \cup {p}
          /\ attempts' = [attempts EXCEPT ![p] = 0]
          /\ Discard(k)
          /\ overflowed' = overflowed \ {p}
    /\ WorkerDone(w)

\* Mutant: the last retry is given up.
Retries_OneLess(a) == a < MaxRetries - 1

\* After a failed attempts, another one is to follow.
Retries(a) == a <= MaxRetries

\* The first channel that a retry tries.
Priority(a) == IF a >= PriorityFloor THEN PriorityFloor ELSE a

\* The dial fails or times out. The retry goroutine gets the copy.
ConnectFail(w) ==
    /\ wpc[w] = "dial"
    /\ ~panicked
    /\ LET k == wcopy[w]
           p == peerOf[k]
           a == attempts[p] + 1
       IN /\ p \notin connected
          /\ attempts' = [attempts EXCEPT ![p] = a]
          /\ IF Retries(a)
             THEN /\ where' = [where EXCEPT ![k] = "retry"]
                  /\ prio' = [prio EXCEPT ![k] = Priority(a)]
                  /\ UNCHANGED peerOf
             ELSE Discard(k)
    /\ UNCHANGED <<connected, overflowed>>
    /\ WorkerDone(w)
-----------------------------------------------------------------------------
(* The retry goroutine: sleep, then schedule(p, a). Nobody waits for it. *)

\* No slot is left: the attempt is dropped.
RetryDrop(k) ==
    /\ where[k] = "retry"
    /\ ~panicked
    /\ prio[k] >= Levels
    /\ Discard(k)
    /\ UNCHANGED <<queue, attempts, connected, overflowed, workVars, scanVars, endVars>>

\* Read the entry of byAttempts. A nil channel makes the select take default.
RetryRead(k) ==
    /\ where[k] = "retry"
    /\ ~panicked
    /\ prio[k] < Levels
    /\ IF slot[prio[k]] = "open"
       THEN where' = [where EXCEPT ![k] = "send"] /\ UNCHANGED prio
       ELSE prio' = [prio EXCEPT ![k] = @ + 1] /\ UNCHANGED where
    /\ UNCHANGED <<queue, attempts, connected, peerOf, overflowed, workVars, scanVars,
                   endVars>>

\* Send on the channel that was read.
RetrySend(k) ==
    /\ where[k] = "send"
    /\ ~panicked
    /\ LET i == prio[k] IN
          \/ /\ slot[i] = "closed"
             /\ panicked' = TRUE
             /\ UNCHANGED <<queue, where, prio, overflowed>>
          \/ /\ slot[i] # "closed"
             /\ Len(queue[i]) < QueueCap
             /\ queue' = [queue EXCEPT ![i] = Append(@, k)]
             /\ where' = [where EXCEPT ![k] = "queued"]
             /\ UNCHANGED <<prio, overflowed, panicked>>
          \/ /\ slot[i] # "closed"
             /\ Len(queue[i]) >= QueueCap
             /\ prio' = [prio EXCEPT ![k] = i + 1]
             /\ where' = [where EXCEPT ![k] = "retry"]
             /\ overflowed' = IF i = Levels - 1 THEN overflowed \cup {peerOf[k]} ELSE overflowed
             /\ UNCHANGED <<queue, panicked>>
    /\ UNCHANGED <<attempts, connected, peerOf, workVars, scanVars, slot, cancelled, run>>
-----------------------------------------------------------------------------
(* The end: the stop function cancels and waits for run to return. *)

Cancel ==
    /\ ~cancelled
    /\ ~panicked
    /\ cancelled' = TRUE
    /\ UNCHANGED <<queue, attempts, connected, copyVars, workVars, scanVars, slot, run, panicked>>

\* workersGroup: all the workers, and the scanner.
GroupDone == (\A w \in Workers : wpc[w] = "stopped") /\ scanner = "stopped"

WaitEnds ==
    /\ run = "running"
    /\ ~panicked
    /\ GroupDone
    /\ run' = IF Levels = 0 THEN "done" ELSE "closing"
    /\ UNCHANGED <<queue, attempts, connected, copyVars, workVars, scanVars, slot, cancelled, panicked>>

\* closeSchedulingChannels, slot by slot: nil the entry, then close the channel.
CloseSlot(i) ==
    /\ run = "closing"
    /\ ~panicked
    /\ \A j \in 0..(i - 1) : slot[j] = "closed"
    /\ slot[i] # "closed"
    /\ slot' = [slot EXCEPT ![i] = IF @ = "open" THEN "nil" ELSE "closed"]
    /\ run' = IF slot'[Levels - 1] = "closed" THEN "done" ELSE "closing"
    /\ UNCHANGED <<queue, attempts, connected, copyVars, workVars, scanVars, cancelled, panicked>>

\* The other side closes the connection, or a new one comes in from it.
Disconnect(p) ==
    /\ p \in connected
    /\ ~panicked
    /\ connected' = connected \ {p}
    /\ UNCHANGED <<queue, attempts, copyVars, workVars, scanVars, endVars>>

Incoming(p) ==
    /\ p \notin connected
    /\ ~panicked
    /\ connected' = connected \cup {p}
    /\ UNCHANGED <<queue, attempts, copyVars, workVars, scanVars, endVars>>

Worker(w) ==
    \/ NextLevel(w)
    \/ \E i \in Slots : Receive(w, i)
    \/ WorkerStop(w)
    \/ ConnectOk(w)
    \/ ConnectFail(w)

Retry(k) == RetryDrop(k) \/ RetryRead(k) \/ RetrySend(k)

Next ==
    \/ Scan
    \/ \E p \in Peers : ScanPush(p)
    \/ ScanStop
    \/ \E w \in Workers : Worker(w)
    \/ \E k \in Copies : Retry(k)
    \/ Cancel
    \/ WaitEnds
    \/ \E i \in Slots : CloseSlot(i)
    \/ \E p \in Peers : Disconnect(p) \/ Incoming(p)

Spec == Init /\ [][Next]_vars

\* Goroutines that can run do run, a dial ends within its timeout, and a select
\* that is entered again and again with ctx.Done ready takes it at last.
Fairness ==
    /\ \A p \in Peers : WF_vars(ScanPush(p))
    /\ SF_vars(ScanStop)
    /\ \A w \in Workers : /\ WF_vars(Worker(w))
                          /\ SF_vars(WorkerStop(w))
    /\ \A k \in Copies : WF_vars(Retry(k))
    /\ WF_vars(WaitEnds)
    /\ \A i \in Slots : WF_vars(CloseSlot(i))

FairSpec == Spec /\ Fairness
-----------------------------------------------------------------------------
(* Properties. *)

\* connectall.go:24: MaxRetries is "how many connection attempts until the peer
\* is banned". A peer that failed fewer times is still on its way through the
\* channels, unless they were all full for one of its retries: nothing else, no
\* failure, success or drop of a duplicate, makes the command forget it. With more
\* retries than priorities it is dropped all the same, for want of a channel
\* (connectall.go:206): the instance has as many of the one as of the other.
RetriedUntilBanned ==
    \A p \in Peers :
        ~cancelled /\ p \notin overflowed /\ attempts[p] \in 1..(MaxRetries - 1)
            => \E k \in Copies : where[k] # "free" /\ peerOf[k] = p

\* The stop function of the command returns: once cancelled, run comes to its
\* end (unless the program panics), however many retries are still pending.
StopReturns == cancelled ~> (run = "done" \/ panicked)

\* connectall.go:311-312 says that the deferred closes run after everything shut
\* down "to be safe from writing to closed channels".
NoSendOnClosed == ~panicked
=============================================================================
