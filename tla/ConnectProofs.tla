---------------------------- MODULE ConnectProofs ----------------------------
(***************************************************************************)
(* What holds of ConnectAll for every number of peers, workers, channels,  *)
(* retries and copies; and, in the last part, of the Host that it dials    *)
(* with, for every number of addresses, callers, streams and events.       *)
(***************************************************************************)
EXTENDS ConnectAll, TLAPS

-----------------------------------------------------------------------------
(* The parts of the inductive invariant that are not properties themselves. *)

\* A worker that dials has taken a copy, and a retry that is about to send has
\* read a channel that exists.
HolderInv ==
    /\ \A w \in Workers : wpc[w] = "dial" => wcopy[w] \in Copies
    /\ \A k \in Copies : where[k] = "send" => prio[k] < Levels

\* Nothing is torn down before the command is cancelled: the scanner is in the
\* group run waits for, and the channels are closed when the wait is over.
EndInv ==
    /\ scanner = "stopped" => cancelled
    /\ run # "running" => GroupDone
    /\ \A i \in Slots : slot[i] # "open" => run # "running"
    /\ panicked => run # "running"

\* What keeps a peer on its way: a copy of it that a channel, a worker or a retry
\* with a channel left to try holds. Which copy it is may change: the one that
\* fails last takes over from all the others.
Carries(k, p) ==
    /\ where[k] # "free"
    /\ peerOf[k] = p
    /\ where[k] = "retry" => prio[k] < Levels

\* A peer that is neither banned nor lost to full channels.
Pending(p) ==
    /\ ~cancelled
    /\ p \notin overflowed
    /\ attempts[p] \in 1..(MaxRetries - 1)

CarriedInv == \A p \in Peers : Pending(p) => \E k \in Copies : Carries(k, p)

SafeInv == TypeOK /\ HolderInv /\ EndInv
Inv == SafeInv /\ (MaxRetries <= PriorityFloor => CarriedInv)
-----------------------------------------------------------------------------
LEMMA Constants ==
    /\ Levels \in Nat
    /\ MaxRetries \in Nat /\ PriorityFloor \in Nat /\ MaxCopies \in Nat
    /\ Copies \subseteq Nat \ {0}
    /\ AnyPeer \in Peers
    /\ MaxRetries <= PriorityFloor => Levels = MaxRetries
BY ConnectAllAssumption DEF Levels, Copies, AnyPeer

LEMMA SlotNumbers ==
    ASSUME NEW i \in Nat
    PROVE  i < Levels <=> i \in Slots
BY Constants DEF Slots

\* A channel takes one more copy.
LEMMA AppendType ==
    ASSUME NEW q \in [Slots -> Seq(Copies)], NEW j \in Slots, NEW k \in Copies
    PROVE  [q EXCEPT ![j] = Append(@, k)] \in [Slots -> Seq(Copies)]
OBVIOUS

LEMMA InitInv == Init => Inv
<1> SUFFICES ASSUME Init PROVE Inv
  OBVIOUS
<1> USE Constants DEF Init
<1>1. TypeOK
  <2>1. \A i \in Slots : <<>> \in Seq(Copies)
    OBVIOUS
  <2> QED
    BY <2>1 DEF TypeOK
<1>2. HolderInv
  BY DEF HolderInv
<1>3. EndInv
  BY DEF EndInv, GroupDone
<1>4. CarriedInv
  BY DEF CarriedInv, Pending
<1> QED
  BY <1>1, <1>2, <1>3, <1>4 DEF Inv, SafeInv
-----------------------------------------------------------------------------
(* Every step keeps the types, what workers and retries hold, and the order *)
(* of the shutdown.                                                         *)

LEMMA HolderStep ==
    ASSUME TypeOK, HolderInv, [Next]_vars
    PROVE  (TypeOK /\ HolderInv)'
<1> USE Constants DEF HolderInv
<1>t. TypeOK
  OBVIOUS
<1>1. CASE Scan
  BY <1>1 DEF TypeOK, Scan, copyVars, workVars, endVars, Candidates
<1>2. ASSUME NEW p \in Peers, ScanPush(p) PROVE (TypeOK /\ HolderInv)'
  <2>t. /\ queue \in [Slots -> Seq(Copies)]
        /\ where \in [Copies -> {"free", "queued", "dialed", "retry", "send"}]
        /\ peerOf \in [Copies -> Peers] /\ prio \in [Copies -> Nat]
        /\ todo \subseteq Peers
    BY DEF TypeOK
  <2>f. /\ UNCHANGED <<attempts, connected, workVars, endVars, overflowed>>
        /\ scanner' \in {"wait", "push"} /\ todo' \subseteq Peers
    BY <1>2, <2>t DEF ScanPush, copyVars
  <2>1. \/ \E j \in Slots, k \in Copies :
              /\ queue' = [queue EXCEPT ![j] = Append(@, k)]
              /\ where' = [where EXCEPT ![k] = "queued"]
              /\ peerOf' = [peerOf EXCEPT ![k] = p]
              /\ prio' = [prio EXCEPT ![k] = 0]
        \/ UNCHANGED <<queue, where, peerOf, prio>>
    BY <1>2 DEF ScanPush, Accepting, Free, copyVars
  <2>2. CASE UNCHANGED <<queue, where, peerOf, prio>>
    BY <2>2, <2>f DEF TypeOK, workVars, endVars
  <2>3. ASSUME NEW j \in Slots, NEW k \in Copies,
               queue' = [queue EXCEPT ![j] = Append(@, k)],
               where' = [where EXCEPT ![k] = "queued"],
               peerOf' = [peerOf EXCEPT ![k] = p],
               prio' = [prio EXCEPT ![k] = 0]
        PROVE  (TypeOK /\ HolderInv)'
    <3>1. queue' \in [Slots -> Seq(Copies)]
      BY <2>3, <2>t, AppendType
    <3>2. TypeOK'
      BY <2>3, <2>f, <3>1 DEF TypeOK, workVars, endVars
    <3> QED
      BY <2>3, <2>t, <2>f, <3>2 DEF workVars, endVars
  <2> QED
    BY <2>1, <2>2, <2>3
<1>3. CASE ScanStop
  BY <1>3 DEF TypeOK, ScanStop, copyVars, workVars, endVars
<1>4. ASSUME NEW w \in Workers, NextLevel(w) PROVE (TypeOK /\ HolderInv)'
  BY <1>4 DEF TypeOK, NextLevel, copyVars, scanVars, endVars
<1>5. ASSUME NEW w \in Workers, NEW i \in Slots, Receive(w, i) PROVE (TypeOK /\ HolderInv)'
  BY <1>5 DEF TypeOK, Receive, scanVars, endVars
<1>6. ASSUME NEW w \in Workers, WorkerStop(w) PROVE (TypeOK /\ HolderInv)'
  BY <1>6 DEF TypeOK, WorkerStop, copyVars, scanVars, endVars
<1>7. ASSUME NEW w \in Workers, ConnectOk(w) PROVE (TypeOK /\ HolderInv)'
  BY <1>7 DEF TypeOK, ConnectOk, Discard, WorkerDone, scanVars, endVars
<1>8. ASSUME NEW w \in Workers, ConnectFail(w) PROVE (TypeOK /\ HolderInv)'
  <2> DEFINE k == wcopy[w]
             p == peerOf[k]
             a == attempts[p] + 1
  <2>t. k \in Copies /\ p \in Peers /\ a \in Nat
    <3>1. k \in Copies
      BY <1>8 DEF ConnectFail
    <3>2. p \in Peers
      BY <3>1 DEF TypeOK
    <3>3. a \in Nat
      BY <3>2 DEF TypeOK
    <3> QED
      BY <3>1, <3>2, <3>3
  <2>1. /\ attempts' = [attempts EXCEPT ![p] = a]
        /\ wcopy' = [wcopy EXCEPT ![w] = 0]
        /\ wpc' = [wpc EXCEPT ![w] = "next"]
        /\ UNCHANGED <<queue, connected, overflowed, wlevel, scanVars, endVars>>
    BY <1>8 DEF ConnectFail, WorkerDone
  <2>2. /\ where' \in [Copies -> {"free", "queued", "dialed", "retry", "send"}]
        /\ peerOf' \in [Copies -> Peers] /\ prio' \in [Copies -> Nat]
        /\ where'[k] # "send"
        /\ \A l \in Copies \ {k} : where'[l] = where[l] /\ prio'[l] = prio[l]
    <3>1. CASE Retries(a)
      <4>1. /\ where' = [where EXCEPT ![k] = "retry"]
            /\ prio' = [prio EXCEPT ![k] = Priority(a)]
            /\ peerOf' = peerOf
        BY <1>8, <3>1 DEF ConnectFail
      <4>2. Priority(a) \in Nat
        BY <2>t DEF Priority
      <4> HIDE DEF k, p, a
      <4> QED
        BY <4>1, <4>2, <2>t DEF TypeOK
    <3>2. CASE ~Retries(a)
      <4>1. Discard(k)
        BY <1>8, <3>2 DEF ConnectFail
      <4> HIDE DEF k, p, a
      <4> QED
        BY <4>1, <2>t DEF TypeOK, Discard
    <3> QED
      BY <3>1, <3>2
  <2> HIDE DEF k, p, a
  <2>3. TypeOK'
    BY <2>t, <2>1, <2>2 DEF TypeOK, scanVars, endVars
  <2> QED
    BY <1>t, <2>t, <2>1, <2>2, <2>3 DEF TypeOK, scanVars, endVars
<1>9. ASSUME NEW k \in Copies, RetryDrop(k) PROVE (TypeOK /\ HolderInv)'
  BY <1>9 DEF TypeOK, RetryDrop, Discard, workVars, scanVars, endVars
<1>10. ASSUME NEW k \in Copies, RetryRead(k) PROVE (TypeOK /\ HolderInv)'
  <2>1. TypeOK'
    BY <1>10 DEF TypeOK, RetryRead, workVars, scanVars, endVars
  <2>2. \A l \in Copies : where'[l] = "send" => prio'[l] < Levels
    BY <1>10 DEF TypeOK, RetryRead
  <2> QED
    BY <1>10, <2>1, <2>2 DEF RetryRead, workVars
<1>11. ASSUME NEW k \in Copies, RetrySend(k) PROVE (TypeOK /\ HolderInv)'
  <2>t. /\ prio[k] \in Nat /\ prio[k] \in Slots /\ prio[k] < Levels
        /\ queue \in [Slots -> Seq(Copies)] /\ peerOf[k] \in Peers
    BY <1>11, SlotNumbers DEF TypeOK, RetrySend
  <2>f. UNCHANGED <<attempts, connected, peerOf, workVars, scanVars, slot, cancelled, run>>
    BY <1>11 DEF RetrySend
  <2>1. CASE panicked' = TRUE /\ UNCHANGED <<queue, where, prio, overflowed>>
    BY <2>1, <2>f DEF TypeOK, workVars, scanVars
  <2>2. CASE /\ queue' = [queue EXCEPT ![prio[k]] = Append(@, k)]
             /\ where' = [where EXCEPT ![k] = "queued"]
             /\ UNCHANGED <<prio, overflowed, panicked>>
    <3>1. queue' \in [Slots -> Seq(Copies)]
      BY <2>2, <2>t, AppendType
    <3>2. TypeOK'
      BY <2>2, <2>f, <3>1 DEF TypeOK, workVars, scanVars
    <3> QED
      BY <1>t, <2>2, <2>f, <3>2 DEF TypeOK, workVars, scanVars
  <2>3. CASE /\ prio' = [prio EXCEPT ![k] = prio[k] + 1]
             /\ where' = [where EXCEPT ![k] = "retry"]
             /\ overflowed' \in {overflowed \cup {peerOf[k]}, overflowed}
             /\ UNCHANGED <<queue, panicked>>
    <3>1. TypeOK'
      BY <2>3, <2>t, <2>f DEF TypeOK, workVars, scanVars
    <3> QED
      BY <1>t, <2>3, <2>f, <3>1 DEF TypeOK, workVars, scanVars
  <2> QED
    BY <1>11, <2>1, <2>2, <2>3 DEF RetrySend
<1>12. CASE Cancel
  BY <1>12 DEF TypeOK, Cancel, copyVars, workVars, scanVars
<1>13. CASE WaitEnds
  BY <1>13 DEF TypeOK, WaitEnds, copyVars, workVars, scanVars
<1>14. ASSUME NEW i \in Slots, CloseSlot(i) PROVE (TypeOK /\ HolderInv)'
  BY <1>14 DEF TypeOK, CloseSlot, copyVars, workVars, scanVars
<1>15. ASSUME NEW p \in Peers, Disconnect(p) \/ Incoming(p) PROVE (TypeOK /\ HolderInv)'
  BY <1>15 DEF TypeOK, Disconnect, Incoming, copyVars, workVars, scanVars, endVars
<1>16. CASE UNCHANGED vars
  BY <1>16 DEF TypeOK, vars, copyVars, workVars, scanVars, endVars
<1> QED
  BY <1>1, <1>2, <1>3, <1>4, <1>5, <1>6, <1>7, <1>8, <1>9, <1>10, <1>11, <1>12,
     <1>13, <1>14, <1>15, <1>16 DEF Next, Worker, Retry

\* The order of the shutdown: cancel, wait for the group, close.
LEMMA EndStep ==
    ASSUME TypeOK, HolderInv, EndInv, [Next]_vars
    PROVE  EndInv'
<1>t. /\ wpc \in [Workers -> {"next", "dial", "stopped"}]
      /\ slot \in [Slots -> {"open", "nil", "closed"}]
  BY DEF TypeOK
<1>1. CASE UNCHANGED <<scanner, wpc, endVars>>
  BY <1>1 DEF EndInv, GroupDone, endVars
<1>2. CASE Scan \/ ScanStop \/ \E p \in Peers : ScanPush(p)
  \* A scanner that works has not stopped, so run is still waiting.
  <2>1. scanner # "stopped" /\ UNCHANGED <<wpc, endVars>> /\ (scanner' = "stopped" => cancelled)
    BY <1>2 DEF Scan, ScanStop, ScanPush, workVars
  <2> QED
    BY <2>1 DEF EndInv, GroupDone, endVars
<1>3. ASSUME NEW w \in Workers, Worker(w) PROVE EndInv'
  <2>1. wpc[w] # "stopped" /\ UNCHANGED <<scanner, endVars>>
    BY <1>3 DEF Worker, NextLevel, Receive, WorkerStop, ConnectOk, ConnectFail, WorkerDone,
                scanVars
  <2> QED
    BY <2>1 DEF EndInv, GroupDone, endVars
<1>4. ASSUME NEW k \in Copies, Retry(k) PROVE EndInv'
  <2>1. CASE RetryDrop(k) \/ RetryRead(k)
    BY <2>1, <1>1 DEF RetryDrop, RetryRead, workVars, scanVars
  <2>2. CASE RetrySend(k)
    <3>1. prio[k] \in Slots
      BY <2>2, SlotNumbers DEF RetrySend, TypeOK, HolderInv
    <3>2. panicked' => panicked \/ slot[prio[k]] # "open"
      BY <2>2 DEF RetrySend
    <3>3. UNCHANGED <<scanner, wpc, slot, cancelled, run>>
      BY <2>2 DEF RetrySend, workVars, scanVars
    <3> QED
      BY <3>1, <3>2, <3>3 DEF EndInv, GroupDone
  <2> QED
    BY <1>4, <2>1, <2>2 DEF Retry
<1>5. CASE Cancel
  BY <1>5 DEF Cancel, EndInv, GroupDone, workVars, scanVars
<1>6. CASE WaitEnds
  BY <1>6 DEF WaitEnds, EndInv, GroupDone, workVars, scanVars
<1>7. ASSUME NEW i \in Slots, CloseSlot(i) PROVE EndInv'
  BY <1>7 DEF CloseSlot, EndInv, GroupDone, workVars, scanVars
<1>8. ASSUME NEW p \in Peers, Disconnect(p) \/ Incoming(p) PROVE EndInv'
  BY <1>8, <1>1 DEF Disconnect, Incoming, workVars, scanVars
<1>9. CASE UNCHANGED vars
  BY <1>9, <1>1 DEF vars, workVars, scanVars
<1> QED
  BY <1>2, <1>3, <1>4, <1>5, <1>6, <1>7, <1>8, <1>9 DEF Next

LEMMA SafeStep ==
    ASSUME SafeInv, [Next]_vars
    PROVE  SafeInv'
BY HolderStep, EndStep DEF SafeInv
-----------------------------------------------------------------------------
(* No step loses a peer that is still to be retried. *)

\* A step that leaves the peer's counters alone and its carrier a carrier.
LEMMA StillCarried ==
    ASSUME CarriedInv, NEW q \in Peers, Pending(q)' => Pending(q),
           \A l \in Copies : Carries(l, q) => Carries(l, q)'
    PROVE  (Pending(q) => \E l \in Copies : Carries(l, q))'
BY DEF CarriedInv

\* A step that does not touch what CarriedInv is about.
LEMMA CarriedFrame ==
    ASSUME CarriedInv, UNCHANGED <<where, peerOf, prio, attempts, overflowed>>,
           cancelled => cancelled'
    PROVE  CarriedInv'
BY DEF CarriedInv, Carries, Pending

LEMMA CarriedStep ==
    ASSUME SafeInv, CarriedInv, [Next]_vars, MaxRetries <= PriorityFloor
    PROVE  CarriedInv'
<1> USE Constants
<1>t. /\ attempts \in [Peers -> Nat]
      /\ where \in [Copies -> {"free", "queued", "dialed", "retry", "send"}]
      /\ peerOf \in [Copies -> Peers]
      /\ prio \in [Copies -> Nat]
      /\ queue \in [Slots -> Seq(Copies)]
      /\ Levels = MaxRetries
  BY DEF SafeInv, TypeOK
<1>1. CASE Scan \/ ScanStop \/ Cancel \/ WaitEnds \/ UNCHANGED vars
  BY <1>1, CarriedFrame DEF Scan, ScanStop, Cancel, WaitEnds, vars, copyVars, endVars
<1>2. ASSUME NEW p \in Peers, ScanPush(p) PROVE CarriedInv'
  \* A copy that is free carries nobody.
  <2>1. UNCHANGED <<attempts, overflowed, cancelled>>
    BY <1>2 DEF ScanPush, copyVars, endVars
  <2>2. \/ UNCHANGED <<where, peerOf, prio>>
        \/ \E k \in Copies : /\ where[k] = "free"
                             /\ where' = [where EXCEPT ![k] = "queued"]
                             /\ peerOf' = [peerOf EXCEPT ![k] = p]
                             /\ prio' = [prio EXCEPT ![k] = 0]
    BY <1>2 DEF ScanPush, copyVars, Free
  <2>3. ASSUME NEW q \in Peers, NEW l \in Copies, Carries(l, q) PROVE Carries(l, q)'
    BY <1>t, <2>2, <2>3 DEF Carries
  <2>4. ASSUME NEW q \in Peers PROVE Pending(q)' => Pending(q)
    BY <2>1 DEF Pending
  <2> QED
    BY <2>3, <2>4, StillCarried DEF CarriedInv
<1>3. ASSUME NEW w \in Workers, NextLevel(w) \/ WorkerStop(w) PROVE CarriedInv'
  BY <1>3, CarriedFrame DEF NextLevel, WorkerStop, copyVars, endVars
<1>4. ASSUME NEW w \in Workers, NEW i \in Slots, Receive(w, i) PROVE CarriedInv'
  <2>1. /\ where' = [where EXCEPT ![Head(queue[i])] = "dialed"]
        /\ UNCHANGED <<attempts, overflowed, cancelled, peerOf, prio>>
    BY <1>4 DEF Receive, endVars
  <2>2. ASSUME NEW q \in Peers, NEW l \in Copies, Carries(l, q) PROVE Carries(l, q)'
    BY <1>t, <2>1, <2>2 DEF Carries
  <2>3. ASSUME NEW q \in Peers PROVE Pending(q)' => Pending(q)
    BY <2>1 DEF Pending
  <2> QED
    BY <2>2, <2>3, StillCarried DEF CarriedInv
<1>5. ASSUME NEW w \in Workers, ConnectOk(w) PROVE CarriedInv'
  \* The peer starts again from 0, and other peers keep their copies.
  <2>1. PICK k \in Copies, p \in Peers : k = wcopy[w] /\ p = peerOf[k]
    BY <1>5, <1>t DEF ConnectOk, SafeInv, HolderInv
  <2>2. /\ attempts' = [attempts EXCEPT ![p] = 0]
        /\ Discard(k)
        /\ overflowed' = overflowed \ {p}
        /\ cancelled' = cancelled
    BY <1>5, <2>1 DEF ConnectOk, WorkerDone, endVars
  <2>3. ~Pending(p)'
    <3>1. attempts'[p] = 0
      BY <1>t, <2>1, <2>2
    <3> QED
      BY <3>1 DEF Pending
  <2>4. ASSUME NEW q \in Peers, q # p PROVE (Pending(q) => \E l \in Copies : Carries(l, q))'
    <3>1. Pending(q)' => Pending(q)
      BY <1>t, <2>1, <2>2, <2>4 DEF Pending
    <3>2. ASSUME NEW l \in Copies, Carries(l, q) PROVE Carries(l, q)'
      <4>1. l # k
        BY <2>1, <2>4, <3>2 DEF Carries
      <4> QED
        BY <1>t, <2>1, <2>2, <3>2, <4>1 DEF Carries, Discard
    <3> QED
      BY <3>1, <3>2, StillCarried
  <2> QED
    BY <2>3, <2>4 DEF CarriedInv
<1>6. ASSUME NEW w \in Workers, ConnectFail(w) PROVE CarriedInv'
  \* The copy that failed carries the peer from now on, until the last retry.
  <2>1. PICK k \in Copies, p \in Peers, a \in Nat :
            k = wcopy[w] /\ p = peerOf[k] /\ a = attempts[p] + 1
    <3>1. PICK k \in Copies : k = wcopy[w]
      BY <1>6 DEF ConnectFail, SafeInv, HolderInv
    <3>2. PICK p \in Peers : p = peerOf[k]
      BY <3>1, <1>t
    <3>3. attempts[p] + 1 \in Nat
      BY <3>2, <1>t
    <3> QED
      BY <3>1, <3>2, <3>3
  <2>2. /\ attempts' = [attempts EXCEPT ![p] = a]
        /\ UNCHANGED <<overflowed, cancelled>>
    BY <1>6, <2>1 DEF ConnectFail, WorkerDone, endVars
  <2>3. \/ /\ a <= MaxRetries
           /\ where' = [where EXCEPT ![k] = "retry"]
           /\ prio' = [prio EXCEPT ![k] = Priority(a)]
           /\ peerOf' = peerOf
        \/ ~(a <= MaxRetries) /\ Discard(k)
    BY <1>6, <2>1 DEF ConnectFail, Retries
  <2>4. ASSUME NEW q \in Peers, q # p PROVE (Pending(q) => \E l \in Copies : Carries(l, q))'
    <3>1. Pending(q)' => Pending(q)
      BY <1>t, <2>1, <2>2, <2>4 DEF Pending
    <3>2. ASSUME NEW l \in Copies, Carries(l, q) PROVE Carries(l, q)'
      <4>1. l # k
        BY <2>1, <2>4, <3>2 DEF Carries
      <4> QED
        BY <1>t, <2>1, <2>3, <3>2, <4>1 DEF Carries, Discard
    <3> QED
      BY <3>1, <3>2, StillCarried
  <2>5. ASSUME NEW q \in Peers, q = p, Pending(q)' PROVE (\E l \in Copies : Carries(l, q))'
    <3>1. a \in 1..(MaxRetries - 1)
      <4>1. attempts'[q] = a
        BY <1>t, <2>1, <2>2, <2>5
      <4> QED
        BY <4>1, <2>5 DEF Pending
    <3>2. Priority(a) = a /\ a < Levels
      BY <1>t, <3>1 DEF Priority
    <3>3. where'[k] = "retry" /\ prio'[k] = a /\ peerOf'[k] = q
      BY <1>t, <2>1, <2>3, <2>5, <3>1, <3>2
    <3>4. Carries(k, q)'
      BY <3>2, <3>3 DEF Carries
    <3> QED
      BY <2>1, <3>4
  <2> QED
    BY <2>4, <2>5 DEF CarriedInv
<1>7. ASSUME NEW k \in Copies, RetryDrop(k) PROVE CarriedInv'
  \* A retry with no channel left carries nobody.
  <2>1. /\ where[k] = "retry" /\ ~(prio[k] < Levels)
        /\ Discard(k)
        /\ UNCHANGED <<attempts, overflowed, cancelled>>
    BY <1>7, <1>t DEF RetryDrop, endVars
  <2>2. ASSUME NEW q \in Peers, NEW l \in Copies, Carries(l, q) PROVE Carries(l, q)'
    BY <1>t, <2>1, <2>2 DEF Carries, Discard
  <2>3. ASSUME NEW q \in Peers PROVE Pending(q)' => Pending(q)
    BY <2>1 DEF Pending
  <2> QED
    BY <2>2, <2>3, StillCarried DEF CarriedInv
<1>8. ASSUME NEW k \in Copies, RetryRead(k) PROVE CarriedInv'
  \* No entry of byAttempts is nil before the command is cancelled.
  <2>1. UNCHANGED <<attempts, overflowed, cancelled, peerOf>>
    BY <1>8 DEF RetryRead, endVars
  <2>2. ASSUME ~cancelled PROVE where' = [where EXCEPT ![k] = "send"] /\ prio' = prio
    <3>1. prio[k] \in Slots
      BY <1>8, <1>t, SlotNumbers DEF RetryRead
    <3>2. slot[prio[k]] = "open"
      BY <2>2, <3>1 DEF SafeInv, EndInv, GroupDone
    <3> QED
      BY <1>8, <3>2 DEF RetryRead
  <2>3. ASSUME NEW q \in Peers, NEW l \in Copies, Carries(l, q), ~cancelled PROVE Carries(l, q)'
    BY <1>t, <2>1, <2>2, <2>3 DEF Carries
  <2>4. ASSUME NEW q \in Peers PROVE Pending(q)' => Pending(q) /\ ~cancelled
    BY <2>1 DEF Pending
  <2> QED
    BY <2>3, <2>4 DEF CarriedInv
<1>9. ASSUME NEW k \in Copies, RetrySend(k) PROVE CarriedInv'
  \* The next channel, unless this was the last one: then the peer overflowed.
  <2> DEFINE i == prio[k]
  <2>1. /\ where[k] = "send" /\ i \in Nat /\ i < Levels
        /\ UNCHANGED <<attempts, cancelled, peerOf>>
    BY <1>9, <1>t DEF RetrySend, SafeInv, HolderInv
  <2>2. CASE UNCHANGED <<where, prio, overflowed>>
    BY <2>1, <2>2, CarriedFrame
  <2>3. CASE where' = [where EXCEPT ![k] = "queued"] /\ UNCHANGED <<prio, overflowed>>
    <3>1. ASSUME NEW q \in Peers, NEW l \in Copies, Carries(l, q) PROVE Carries(l, q)'
      BY <1>t, <2>1, <2>3, <3>1 DEF Carries
    <3>2. ASSUME NEW q \in Peers PROVE Pending(q)' => Pending(q)
      BY <2>1, <2>3 DEF Pending
    <3> QED
      BY <3>1, <3>2, StillCarried DEF CarriedInv
  <2>4. CASE /\ prio' = [prio EXCEPT ![k] = i + 1]
             /\ where' = [where EXCEPT ![k] = "retry"]
             /\ overflowed' = IF i = Levels - 1 THEN overflowed \cup {peerOf[k]} ELSE overflowed
    <3>1. ASSUME NEW q \in Peers, NEW l \in Copies, Carries(l, q), Pending(q)'
          PROVE  Carries(l, q)'
      <4>1. CASE l # k
        BY <1>t, <2>1, <2>4, <3>1, <4>1 DEF Carries
      <4>2. CASE l = k
        <5>1. i # Levels - 1
          BY <2>1, <2>4, <3>1, <4>2 DEF Carries, Pending
        <5>2. where'[k] = "retry" /\ prio'[k] < Levels
          BY <1>t, <2>1, <2>4, <5>1
        <5> QED
          BY <2>1, <3>1, <4>2, <5>2 DEF Carries
      <4> QED
        BY <4>1, <4>2
    <3>2. ASSUME NEW q \in Peers PROVE Pending(q)' => Pending(q)
      BY <2>1, <2>4 DEF Pending
    <3> QED
      BY <3>1, <3>2 DEF CarriedInv
  <2> QED
    BY <1>9, <2>2, <2>3, <2>4 DEF RetrySend
<1>10. ASSUME NEW i \in Slots, CloseSlot(i) PROVE CarriedInv'
  BY <1>10, CarriedFrame DEF CloseSlot, copyVars
<1>11. ASSUME NEW p \in Peers, Disconnect(p) \/ Incoming(p) PROVE CarriedInv'
  BY <1>11, CarriedFrame DEF Disconnect, Incoming, copyVars, endVars
<1> QED
  BY <1>1, <1>2, <1>3, <1>4, <1>5, <1>6, <1>7, <1>8, <1>9, <1>10, <1>11
     DEF Next, Worker, Retry
-----------------------------------------------------------------------------
(* The theorems. *)

\* The inductive invariant holds in every state of every execution.
THEOREM Invariance == Spec => []Inv
<1>1. Inv /\ [Next]_vars => Inv'
  BY SafeStep, CarriedStep DEF Inv
<1> QED
  BY InitInv, <1>1, PTL DEF Spec

\* Queues, workers, retries and the end of the command keep their types: no worker
\* dials a peer it did not take, no retry indexes byAttempts past its end
\* (connectall.go:206).
THEOREM TypeCorrect == Spec => []TypeOK
<1>1. Inv => TypeOK
  BY DEF Inv, SafeInv
<1> QED
  BY <1>1, Invariance, PTL

\* With no more retries than priorities, which the code's floor of 10 leaves to
\* --max-retries, a peer is retried until it is banned: no interleaving of scans,
\* workers and retry goroutines makes connectall forget a peer that failed fewer
\* than MaxRetries times, unless every channel left to one of its retries was full.
THEOREM PeerIsRetried ==
    MaxRetries <= PriorityFloor => (Spec => []RetriedUntilBanned)
<1> SUFFICES ASSUME MaxRetries <= PriorityFloor PROVE Spec => []RetriedUntilBanned
  OBVIOUS
<1>1. Inv => RetriedUntilBanned
  BY DEF Inv, CarriedInv, Carries, Pending, RetriedUntilBanned
<1> QED
  BY <1>1, Invariance, PTL

\* What is true of the comment at connectall.go:311-312: when a channel is closed,
\* or a send panics, the command was cancelled and the scanner and all the workers
\* have stopped. Only a retry goroutine, which run does not wait for, can still
\* write to a closed channel.
ClosedWhenStopped ==
    panicked \/ (\E i \in Slots : slot[i] # "open") => cancelled /\ GroupDone

\* The channels are closed only after the cancellation and the wait.
THEOREM ClosesAfterWait == Spec => []ClosedWhenStopped
<1>1. Inv => ClosedWhenStopped
  BY DEF Inv, SafeInv, EndInv, GroupDone, ClosedWhenStopped
<1> QED
  BY <1>1, Invariance, PTL
-----------------------------------------------------------------------------
(* The host. Its state is apart from that of the command. *)

CONSTANTS Listens, Procs, Inbound, Machines, MaxEvents, MaxResolution, Answers, IDFirst, Timeout

VARIABLES life, listen, nat, observed, machine, events, signal, filtered, all, bg, curr, last,
          announced, record, skipped, inc, pc, stream, toResolve, steps, handled, known

Node == INSTANCE Host

\* The network is closed before Close waits for the background goroutine, and its
\* listen addresses do not come back.
QuietInv ==
    /\ life \in {"network closed", "closed"} => listen = {}
    /\ life = "closed" => bg \in {"none", "ended"}

\* What is left alone once the host is closed.
Outcome == <<life, listen, bg, curr, last, announced, record>>

\* A step keeps the invariant, and changes no outcome of a closed host.
Calm == QuietInv' /\ (life = "closed" => UNCHANGED Outcome)

\* The steps that touch neither the life of the host, nor its addresses, nor the loop.
LEMMA StillCalm ==
    ASSUME QuietInv, UNCHANGED <<life, listen, Node!bgVars>>
    PROVE  Calm
BY DEF QuietInv, Calm, Outcome, Node!bgVars

LEMMA BuildCalm == ASSUME QuietInv, Node!Build PROVE Calm
<1> USE DEF QuietInv, Calm, Outcome, Node!addrVars, Node!bgVars
<1>1. ASSUME NEW ok \in BOOLEAN, Node!NewNetwork(ok) PROVE Calm
  BY <1>1 DEF Node!NewNetwork
<1>2. ASSUME NEW ok \in BOOLEAN, Node!NewHost(ok) PROVE Calm
  BY <1>2 DEF Node!NewHost
<1>3. ASSUME NEW ok \in BOOLEAN, Node!AddTransports(ok) PROVE Calm
  BY <1>3 DEF Node!AddTransports
<1> QED
  BY <1>1, <1>2, <1>3 DEF Node!Build

\* The loop is not where it makes a step when the host is closed.
LEMMA BackgroundCalm == ASSUME QuietInv, Node!Background PROVE Calm
<1> USE DEF QuietInv, Calm, Outcome, Node!addrVars
<1>1. CASE Node!Update
  BY <1>1 DEF Node!Update
<1>2. CASE Node!Addrs
  BY <1>2 DEF Node!Addrs
<1>3. CASE Node!Wait
  BY <1>3 DEF Node!Wait
<1>4. ASSUME NEW ok \in BOOLEAN, Node!EmitAddrChange(ok) PROVE Calm
  BY <1>4 DEF Node!EmitAddrChange
<1> QED
  BY <1>1, <1>2, <1>3, <1>4 DEF Node!Background

LEMMA ClosingCalm == ASSUME QuietInv, Node!Closing PROVE Calm
<1> USE DEF QuietInv, Calm, Outcome, Node!addrVars, Node!bgVars
<1>1. CASE Node!CloseEmitters
  BY <1>1 DEF Node!CloseEmitters
<1>2. CASE Node!CloseNetwork
  BY <1>2 DEF Node!CloseNetwork
<1>3. CASE Node!Closed
  BY <1>3 DEF Node!Closed, Node!RefCountZero
<1> QED
  BY <1>1, <1>2, <1>3 DEF Node!Closing

\* Addresses change while the host is up only.
LEMMA EnvironmentCalm == ASSUME QuietInv, Node!Environment PROVE Calm
<1> USE DEF Node!MayHappen, Node!MayChange, Node!addrVars
<1>1. ASSUME NEW a \in Listens, Node!ChangeListen(a) PROVE Calm
  BY <1>1 DEF Node!ChangeListen, QuietInv, Calm, Outcome, Node!bgVars
<1>2. ASSUME NEW a \in Listens, Node!ChangeOutside(a) PROVE Calm
  BY <1>2, StillCalm DEF Node!ChangeOutside
<1>3. CASE Node!SetStreamHandler \/ Node!RemoveStreamHandler
  BY <1>3, StillCalm DEF Node!SetStreamHandler, Node!RemoveStreamHandler
<1>4. ASSUME NEW s \in Inbound, Node!StreamOpened(s) PROVE Calm
  BY <1>4, StillCalm DEF Node!StreamOpened
<1>5. ASSUME NEW s \in Inbound, NEW ok \in BOOLEAN, Node!Negotiate(s, ok) PROVE Calm
  BY <1>5, StillCalm DEF Node!Negotiate
<1> QED
  BY <1>1, <1>2, <1>3, <1>4, <1>5 DEF Node!Environment

\* Calls, of which Close is the one that changes the life of the host.
LEMMA CallCalm == ASSUME QuietInv, NEW p \in Procs, Node!Call(p) \/ Node!Return(p) PROVE Calm
<1> USE DEF Node!addrVars, Node!CallsOnly
<1>1. ASSUME NEW ok \in BOOLEAN, Node!NewStream(p, ok) PROVE Calm
  BY <1>1, StillCalm DEF Node!NewStream
<1>2. ASSUME NEW a \in Answers, Node!Connect(p, a) PROVE Calm
  BY <1>2, StillCalm DEF Node!Connect
<1>3. CASE Node!Close(p)
  BY <1>3 DEF Node!Close, QuietInv, Calm, Outcome, Node!bgVars
<1>4. ASSUME NEW ok \in BOOLEAN,
             \/ Node!StreamIdentified(p, ok) \/ Node!PreferredProtocol(p, ok)
             \/ Node!SelectOneOf(p, ok) \/ Node!DialPeer(p, ok)
      PROVE  Calm
  BY <1>4, StillCalm
     DEF Node!StreamIdentified, Node!PreferredProtocol, Node!SelectOneOf, Node!DialPeer
<1>5. ASSUME NEW a \in Answers, Node!ResolveAddrs(p, a) PROVE Calm
  BY <1>5, StillCalm DEF Node!ResolveAddrs
<1>6. CASE Node!CloseReturns(p)
  BY <1>6, StillCalm DEF Node!CloseReturns
<1> QED
  BY <1>1, <1>2, <1>3, <1>4, <1>5, <1>6 DEF Node!Call, Node!Return

LEMMA NextCalm == QuietInv /\ [Node!Next]_(Node!vars) => Calm
<1> SUFFICES ASSUME QuietInv, [Node!Next]_(Node!vars) PROVE Calm
  OBVIOUS
<1>1. ASSUME NEW s \in Inbound, Node!NegotiationEnds(s) PROVE Calm
  BY <1>1, StillCalm DEF Node!NegotiationEnds, Node!addrVars
<1>2. CASE UNCHANGED Node!vars
  BY <1>2, StillCalm DEF Node!vars, Node!addrVars
<1> QED
  BY <1>1, <1>2, BuildCalm, BackgroundCalm, ClosingCalm, EnvironmentCalm, CallCalm DEF Node!Next

\* Close (host.go:977-998): when it has come to its end the background goroutine has
\* ended and the network listens nowhere.
THEOREM CloseIsQuiet == Node!Spec => []Node!ClosedIsQuiet
<1>1. Node!Init => QuietInv
  BY DEF Node!Init, QuietInv
<1>2. QuietInv /\ [Node!Next]_(Node!vars) => QuietInv'
  BY NextCalm DEF Calm
<1>3. QuietInv => Node!ClosedIsQuiet
  BY DEF QuietInv, Node!ClosedIsQuiet
<1> QED
  BY <1>1, <1>2, <1>3, PTL DEF Node!Spec

\* A host that is closed stays so: no step of a late caller, a stream or the
\* background goroutine opens it again, listens, announces or persists anything.
StaysQuiet == [][life = "closed" => UNCHANGED Outcome]_(Node!vars)

THEOREM ClosedForGood == Node!Spec => StaysQuiet
<1>1. Node!Init => QuietInv
  BY DEF Node!Init, QuietInv
<1>2. QuietInv /\ [Node!Next]_(Node!vars) => QuietInv' /\ (life = "closed" => UNCHANGED Outcome)
  BY NextCalm DEF Calm
<1> QED
  BY <1>1, <1>2, PTL DEF Node!Spec, StaysQuiet
-----------------------------------------------------------------------------
(* The types of the host. *)

LEMMA LocalTypes ==
    ASSUME Node!HostAssumption, Node!TypeOK, Node!UpdateLocalIpAddr
    PROVE  filtered' \subseteq Node!Ifaces /\ all' \subseteq Node!Ifaces
<1>1. machine \in [routes : SUBSET {"eth"}, ifaces : SUBSET {"lo", "eth"}, err : BOOLEAN]
  BY DEF Node!HostAssumption, Node!TypeOK
<1>2. machine.routes \subseteq Node!Ifaces /\ machine.ifaces \subseteq Node!Ifaces
  BY <1>1 DEF Node!Ifaces
<1> QED
  BY <1>2 DEF Node!UpdateLocalIpAddr, Node!Ifaces

\* The addresses of a host are its listen addresses, each with a way to reach it.
LEMMA AddrsType == ASSUME Node!TypeOK PROVE Node!AllAddrs \subseteq Node!Addresses
<1>1. listen \subseteq Listens /\ observed \subseteq Listens /\ filtered \subseteq Node!Ifaces
  BY DEF Node!TypeOK
<1>2. listen \X filtered \subseteq Node!Addresses
  BY <1>1 DEF Node!Addresses
<1>3. observed \X {"seen"} \subseteq Node!Addresses
  BY <1>1 DEF Node!Addresses
<1>4. Node!NatMapped \subseteq Node!Addresses
  <2> DEFINE mapped == {a \in listen : nat[a] # "none"}
  <2>1. {a \in mapped : nat[a] # "unspecified"} \subseteq Listens
        /\ {a \in mapped \cap observed : nat[a] # "public"} \subseteq Listens
    BY <1>1
  <2> DEFINE out == {a \in mapped : nat[a] # "unspecified"}
             seen == {a \in mapped \cap observed : nat[a] # "public"}
  <2>2. out \X {"nat"} \subseteq Node!Addresses /\ seen \X {"seen"} \subseteq Node!Addresses
    <3> HIDE DEF out, seen
    <3>1. out \subseteq Listens /\ seen \subseteq Listens
      BY <2>1 DEF out, seen
    <3> QED
      BY <3>1 DEF Node!Addresses
  <2>3. Node!NatMapped \subseteq (out \X {"nat"}) \cup (seen \X {"seen"})
    BY DEF Node!NatMapped
  <2> QED
    BY <2>2, <2>3
<1> QED
  BY <1>2, <1>3, <1>4 DEF Node!AllAddrs

\* Host states that differ in calls only.
LEMMA CallTypes ==
    ASSUME Node!HostAssumption, Node!TypeOK, Node!CallsOnly, events' \in 0..MaxEvents, NEW p \in Procs,
           UNCHANGED pc \/ \E w \in {"identify", "prefer", "select", "resolve", "dial", "dialed", "close",
                                     "ok", "failed"} : Node!Goes(p, w),
           UNCHANGED stream \/ \E st \in {"none", "open", "reset", "left"} : Node!SetStream(p, st),
           toResolve' \in [Procs -> Seq({"ip", "dns"})], steps' \in [Procs -> Nat], known' \in BOOLEAN
    PROVE  Node!TypeOK'
<1>1. pc' \in [Procs -> {"idle", "identify", "prefer", "select", "resolve", "dial", "dialed", "close",
                         "ok", "failed"}]
  BY DEF Node!TypeOK, Node!Goes
<1>2. stream' \in [Procs -> {"none", "open", "reset", "left"}]
  BY DEF Node!TypeOK, Node!SetStream
<1> QED
  BY <1>1, <1>2 DEF Node!TypeOK, Node!CallsOnly, Node!addrVars, Node!bgVars, Node!ifaceVars,
                    Node!Ifaces, Node!Addresses

LEMMA BuildTypes == ASSUME Node!HostAssumption, Node!TypeOK, Node!Build PROVE Node!TypeOK'
<1> USE DEF Node!TypeOK, Node!addrVars, Node!bgVars, Node!callVars, Node!ifaceVars, Node!Ifaces, Node!Addresses
<1>1. ASSUME NEW ok \in BOOLEAN, Node!NewNetwork(ok) PROVE Node!TypeOK'
  BY <1>1 DEF Node!NewNetwork
<1>2. ASSUME NEW ok \in BOOLEAN, Node!NewHost(ok) PROVE Node!TypeOK'
  BY <1>2, LocalTypes DEF Node!NewHost
<1>3. ASSUME NEW ok \in BOOLEAN, Node!AddTransports(ok) PROVE Node!TypeOK'
  BY <1>3 DEF Node!AddTransports
<1> QED
  BY <1>1, <1>2, <1>3 DEF Node!Build

LEMMA WaitSignal == ASSUME Node!TypeOK, Node!Wait PROVE signal' \in 0..1
<1>1. signal \in 0..1
  BY DEF Node!TypeOK
<1>2. signal' = signal \/ signal' = 0
  BY DEF Node!Wait
<1> QED
  BY <1>1, <1>2

LEMMA BackgroundTypes == ASSUME Node!HostAssumption, Node!TypeOK, Node!Background PROVE Node!TypeOK'
<1> USE DEF Node!TypeOK, Node!addrVars, Node!callVars, Node!ifaceVars, Node!Ifaces, Node!Addresses
<1>1. CASE Node!Update
  BY <1>1, LocalTypes DEF Node!Update
<1>2. CASE Node!Addrs
  BY <1>2, AddrsType DEF Node!Addrs
<1>3. CASE Node!Wait
  <2>1. signal' \in 0..1
    BY <1>3, WaitSignal
  <2>2. bg' \in {"update", "ended"}
    BY <1>3 DEF Node!Wait
  <2>3. UNCHANGED <<life, listen, nat, observed, machine, events, filtered, all, curr, last, announced,
                    record, skipped, inc, pc, stream, toResolve, steps, known, handled>>
    BY <1>3 DEF Node!Wait
  <2> QED
    BY <2>1, <2>2, <2>3
<1>4. ASSUME NEW ok \in BOOLEAN, Node!EmitAddrChange(ok) PROVE Node!TypeOK'
  BY <1>4 DEF Node!EmitAddrChange, Node!Changed
<1> QED
  BY <1>1, <1>2, <1>3, <1>4 DEF Node!Background

\* The channel of signals has room for one, and a change that finds it full is not
\* signalled twice.
LEMMA SignalType ==
    ASSUME Node!TypeOK, Node!SignalAddressChange PROVE signal' \in 0..1
<1>1. signal \in 0..1
  BY DEF Node!TypeOK
<1> QED
  BY <1>1 DEF Node!SignalAddressChange

LEMMA ClosingTypes == ASSUME Node!HostAssumption, Node!TypeOK, Node!Closing PROVE Node!TypeOK'
<1> USE DEF Node!TypeOK, Node!addrVars, Node!bgVars, Node!callVars, Node!ifaceVars, Node!Ifaces, Node!Addresses
<1>1. CASE Node!CloseEmitters
  BY <1>1 DEF Node!CloseEmitters
<1>2. CASE Node!CloseNetwork
  BY <1>2, SignalType DEF Node!CloseNetwork
<1>3. CASE Node!Closed
  BY <1>3 DEF Node!Closed
<1> QED
  BY <1>1, <1>2, <1>3 DEF Node!Closing

LEMMA EventsType ==
    ASSUME Node!HostAssumption, Node!TypeOK, Node!MayHappen PROVE events' \in 0..MaxEvents
<1>1. MaxEvents \in Nat /\ events \in 0..MaxEvents
  BY DEF Node!HostAssumption, Node!TypeOK
<1> QED
  BY <1>1 DEF Node!MayHappen

LEMMA EnvironmentTypes == ASSUME Node!HostAssumption, Node!TypeOK, Node!Environment PROVE Node!TypeOK'
<1> USE DEF Node!TypeOK, Node!addrVars, Node!bgVars, Node!callVars, Node!ifaceVars, Node!Ifaces, Node!Addresses
<1>1. ASSUME NEW a \in Listens, Node!ChangeListen(a) PROVE Node!TypeOK'
  BY <1>1, SignalType, EventsType DEF Node!ChangeListen, Node!MayChange
<1>2. ASSUME NEW a \in Listens, Node!ChangeOutside(a) PROVE Node!TypeOK'
  <2>1. events' \in 0..MaxEvents
    BY <1>2, EventsType DEF Node!ChangeOutside, Node!MayChange
  <2>2. /\ nat' \in [Listens -> {"none", "public", "private", "unspecified"}]
        /\ observed' \subseteq Listens /\ machine' \in Machines
    BY <1>2 DEF Node!ChangeOutside
  <2> QED
    BY <1>2, <2>1, <2>2 DEF Node!ChangeOutside
<1>3. CASE Node!SetStreamHandler \/ Node!RemoveStreamHandler
  BY <1>3, EventsType DEF Node!SetStreamHandler, Node!RemoveStreamHandler
<1>4. ASSUME NEW s \in Inbound, Node!StreamOpened(s) PROVE Node!TypeOK'
  BY <1>4, EventsType DEF Node!StreamOpened
<1>5. ASSUME NEW s \in Inbound, NEW ok \in BOOLEAN, Node!Negotiate(s, ok) PROVE Node!TypeOK'
  BY <1>5 DEF Node!Negotiate
<1> HIDE DEF Node!TypeOK
<1> QED
  BY <1>1, <1>2, <1>3, <1>4, <1>5 DEF Node!Environment

LEMMA CallTypesAll ==
    ASSUME Node!HostAssumption, Node!TypeOK, NEW p \in Procs, Node!Call(p) \/ Node!Return(p)
    PROVE  Node!TypeOK'
<1>0. /\ toResolve \in [Procs -> Seq({"ip", "dns"})] /\ steps \in [Procs -> Nat]
      /\ known \in BOOLEAN /\ events \in 0..MaxEvents
  BY DEF Node!TypeOK
<1>1. ASSUME NEW ok \in BOOLEAN, Node!NewStream(p, ok) PROVE Node!TypeOK'
  BY <1>0, <1>1, EventsType, CallTypes DEF Node!NewStream
<1>2. ASSUME NEW a \in Answers, Node!Connect(p, a) PROVE Node!TypeOK'
  <2>1. toResolve' \in [Procs -> Seq({"ip", "dns"})]
    BY <1>0, <1>2 DEF Node!Connect, Node!HostAssumption
  <2> QED
    BY <1>0, <1>2, <2>1, EventsType, CallTypes DEF Node!Connect
<1>3. CASE Node!Close(p)
  BY <1>3, EventsType DEF Node!Close, Node!Goes, Node!TypeOK, Node!addrVars, Node!bgVars, Node!ifaceVars,
                          Node!Ifaces, Node!Addresses
<1>4. ASSUME NEW ok \in BOOLEAN, Node!StreamIdentified(p, ok) PROVE Node!TypeOK'
  BY <1>0, <1>4, CallTypes DEF Node!StreamIdentified
<1>5. ASSUME NEW ok \in BOOLEAN, Node!PreferredProtocol(p, ok) PROVE Node!TypeOK'
  BY <1>0, <1>5, CallTypes DEF Node!PreferredProtocol
<1>6. ASSUME NEW ok \in BOOLEAN, Node!SelectOneOf(p, ok) PROVE Node!TypeOK'
  BY <1>0, <1>6, CallTypes DEF Node!SelectOneOf
<1>7. ASSUME NEW ok \in BOOLEAN, Node!DialPeer(p, ok) PROVE Node!TypeOK'
  BY <1>0, <1>7, CallTypes DEF Node!DialPeer
<1>8. ASSUME NEW a \in Answers, Node!ResolveAddrs(p, a) PROVE Node!TypeOK'
  <2>1. /\ toResolve' \in [Procs -> Seq({"ip", "dns"})] /\ steps' \in [Procs -> Nat]
        /\ UNCHANGED pc \/ Node!Goes(p, "dial")
    <3>1. CASE toResolve[p] = <<>>
      BY <1>0, <1>8, <3>1 DEF Node!ResolveAddrs
    <3>2. CASE toResolve[p] # <<>>
      <4> DEFINE n == Len(toResolve[p])
                 rest == SubSeq(toResolve[p], 1, n - 1)
      <4>1. n \in Nat \ {0} /\ toResolve[p] \in Seq({"ip", "dns"})
        BY <1>0, <3>2
      <4>2. rest \in Seq({"ip", "dns"})
        BY <4>1
      <4>3. a \in Seq({"ip", "dns"})
        BY DEF Node!HostAssumption
      <4>4. rest \o a \in Seq({"ip", "dns"})
        BY <4>2, <4>3
      <4>5. /\ toResolve' = [toResolve EXCEPT ![p] = rest]
               \/ toResolve' = [toResolve EXCEPT ![p] = rest \o a]
            /\ steps' = [steps EXCEPT ![p] = @ + 1] \/ steps' = [steps EXCEPT ![p] = @]
            /\ UNCHANGED pc
        BY <1>8, <3>2 DEF Node!ResolveAddrs
      <4> HIDE DEF rest
      <4>6. toResolve' \in [Procs -> Seq({"ip", "dns"})]
        BY <1>0, <4>2, <4>4, <4>5
      <4>7. steps' \in [Procs -> Nat]
        BY <1>0, <4>5
      <4> QED
        BY <4>5, <4>6, <4>7
    <3> QED
      BY <3>1, <3>2
  <2> QED
    BY <1>0, <1>8, <2>1, CallTypes DEF Node!ResolveAddrs
<1>9. CASE Node!CloseReturns(p)
  BY <1>0, <1>9, CallTypes DEF Node!CloseReturns
<1> QED
  BY <1>1, <1>2, <1>3, <1>4, <1>5, <1>6, <1>7, <1>8, <1>9 DEF Node!Call, Node!Return

\* Every variable of the host keeps its type: the channel of signals holds one at
\* most, and what is announced and persisted are addresses of the host.
THEOREM HostTypes == Node!HostAssumption => (Node!Spec => []Node!TypeOK)
<1> SUFFICES ASSUME Node!HostAssumption PROVE Node!Spec => []Node!TypeOK
  OBVIOUS
<1>1. Node!Init => Node!TypeOK
  <2>1. MaxEvents \in Nat
    BY DEF Node!HostAssumption
  <2> SUFFICES ASSUME Node!Init PROVE Node!TypeOK
    OBVIOUS
  <2>2. toResolve \in [Procs -> Seq({"ip", "dns"})] /\ steps \in [Procs -> Nat]
    BY DEF Node!Init
  <2>3. events \in 0..MaxEvents /\ signal \in 0..1
    BY <2>1 DEF Node!Init
  <2> QED
    BY <2>2, <2>3 DEF Node!Init, Node!TypeOK
<1>2. Node!TypeOK /\ [Node!Next]_(Node!vars) => Node!TypeOK'
  <2> SUFFICES ASSUME Node!TypeOK, [Node!Next]_(Node!vars) PROVE Node!TypeOK'
    OBVIOUS
  <2> USE DEF Node!addrVars, Node!bgVars, Node!callVars, Node!ifaceVars, Node!Ifaces, Node!Addresses
  <2>1. ASSUME NEW s \in Inbound, Node!NegotiationEnds(s) PROVE Node!TypeOK'
    BY <2>1 DEF Node!NegotiationEnds, Node!TypeOK
  <2>2. CASE UNCHANGED Node!vars
    BY <2>2 DEF Node!vars, Node!TypeOK
  <2> QED
    BY <2>1, <2>2, BuildTypes, BackgroundTypes, ClosingTypes, EnvironmentTypes, CallTypesAll DEF Node!Next
<1> QED
  BY <1>1, <1>2, PTL DEF Node!Spec
=============================================================================
