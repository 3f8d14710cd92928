----------------------------- MODULE SyncProofs -----------------------------
(***************************************************************************)
(* What holds of Sync for every width of slot numbers, every number of     *)
(* commands and every request, whatever the peers send.                    *)
(***************************************************************************)
EXTENDS Sync, SequenceTheorems, TLAPS

-----------------------------------------------------------------------------
(* The inductive invariant. *)

\* The goroutine of a request: the index counts the blocks that were sent, and one
\* more has been accepted while it is being sent. What was accepted was asked for.
ProducerInv(s) ==
    /\ cpc[s] = "idle" => ppc[s] = "idle"
    /\ ppc[s] # "send" => Len(accepted[s]) = index[s]
    /\ ppc[s] = "send" => /\ Len(accepted[s]) = index[s] + 1
                          /\ block[s] = accepted[s][index[s] + 1]
    /\ Len(accepted[s]) <= MaxChunks(req[s])
    /\ \A i \in 1..Len(accepted[s]) :
          /\ accepted[s][i] \in Requested(req[s])
          /\ req[s].kind = "root" => accepted[s][i] = req[s].roots[i]

Working == {"process", "store", "write"}

\* The command: it has handled what it received, but for the block that it works on.
\* It returns nil at the close of the channel only, after which nothing comes.
ConsumerInv(s) ==
    /\ Len(handled[s]) <= index[s]
    /\ cpc[s] \in {"idle", "recv"} => Len(handled[s]) = index[s]
    /\ cpc[s] \in Working => Len(handled[s]) + 1 = index[s] /\ got[s] = accepted[s][index[s]]
    /\ \A i \in 1..Len(handled[s]) :
          /\ handled[s][i] = accepted[s][i]
          /\ req[s].store => files[handled[s][i]] # "none"
    /\ result[s] = "nil" => /\ cpc[s] = "returned" /\ ppc[s] = "ended" /\ syncErr[s] = "nil"
                            /\ Len(handled[s]) = index[s]

Inv == TypeOK /\ \A s \in Syncs : ProducerInv(s) /\ ConsumerInv(s)
-----------------------------------------------------------------------------
(* What the checks accept. *)

\* Numbers: remainders, and a multiple of the step below the last.
LEMMA ModBound ==
    ASSUME NEW a \in Nat, NEW n \in Nat \ {0}
    PROVE  a % n \in Nat /\ a % n <= a
OBVIOUS

LEMMA Multiple ==
    ASSUME NEW a \in Nat, NEW n \in Nat \ {0}, a % n = 0
    PROVE  \E i \in Nat : a = i * n
<1>1. a \div n \in Nat /\ a = (a \div n) * n
  OBVIOUS
<1> QED
  BY <1>1

LEMMA LessTimes ==
    ASSUME NEW i \in Nat, NEW k \in Nat, NEW n \in Nat \ {0}, i * n < n * k
    PROVE  i < k
OBVIOUS

\* The end of a range wraps around to a smaller number, never to a larger one: what
\* the check of by-range lets through was asked for, also when the end overflows.
LEMMA RangeAccepted ==
    ASSUME NEW r \in RangeReqs, NEW i, NEW b \in Slots, Acceptable(r, i, b)
    PROVE  b \in Requested(r)
<1>1. /\ r.kind = "range" /\ r.start \in Nat /\ r.count \in Nat /\ r.step \in Nat \ {0}
      /\ b \in Nat /\ Limit \in Nat \ {0}
  BY SyncAssumption DEF RangeReqs, Slots
<1> DEFINE all == r.step * r.count
           wrapped == all % Limit
<1>2. all \in Nat
  BY <1>1
<1>3. wrapped \in Nat /\ wrapped <= all
  BY <1>1, <1>2, ModBound
<1>4. r.start + wrapped \in Nat
  BY <1>1, <1>3
<1>5. ExpectedEnd(r) \in Nat /\ ExpectedEnd(r) <= r.start + wrapped
  BY <1>1, <1>4, ModBound DEF ExpectedEnd
<1>6. b >= r.start /\ (b - r.start) % r.step = 0 /\ b < ExpectedEnd(r)
  BY <1>1 DEF Acceptable
<1>7. b - r.start \in Nat /\ b - r.start < all
  <2> HIDE DEF all, wrapped
  <2> QED
    BY <1>1, <1>2, <1>3, <1>5, <1>6
<1>8. PICK j \in Nat : b - r.start = j * r.step
  BY <1>1, <1>6, <1>7, Multiple
<1>9. j < r.count
  BY <1>1, <1>7, <1>8, LessTimes
<1>10. b = r.start + j * r.step /\ j \in 0..(r.count - 1)
  <2>1. j * r.step \in Nat
    BY <1>1
  <2> QED
    BY <1>1, <1>8, <1>9, <2>1
<1> QED
  BY <1>1, <1>10 DEF Requested

\* By root, the block of chunk i is the one of root i.
LEMMA RootAccepted ==
    ASSUME NEW r \in RootReqs, NEW i \in Nat, NEW b \in Slots, Acceptable(r, i, b)
    PROVE  b \in Requested(r) /\ b = r.roots[i + 1]
BY DEF RootReqs, Acceptable, Requested

LEMMA Accepted ==
    ASSUME NEW r \in Requests, NEW i \in Nat, NEW b \in Slots, Acceptable(r, i, b)
    PROVE  b \in Requested(r) /\ (r.kind = "root" => b = r.roots[i + 1])
<1>1. CASE r \in RangeReqs
  BY <1>1, RangeAccepted DEF RangeReqs
<1>2. CASE r \in RootReqs
  BY <1>2, RootAccepted
<1> QED
  BY <1>1, <1>2, SyncAssumption

\* The limit on chunks is a number.
LEMMA MaxChunksType ==
    ASSUME NEW r \in Requests
    PROVE  MaxChunks(r) \in Nat
<1>1. CASE r \in RangeReqs
  BY <1>1, SyncAssumption DEF RangeReqs, MaxChunks, Slots
<1>2. CASE r \in RootReqs
  <2>1. r.roots \in Seq(Slots) /\ r.kind = "root"
    BY <1>2 DEF RootReqs
  <2> QED
    BY <2>1 DEF MaxChunks
<1> QED
  BY <1>1, <1>2, SyncAssumption
-----------------------------------------------------------------------------
(* The steps. A step of one command leaves what concerns the others alone. *)

Same(t) ==
    /\ req'[t] = req[t] /\ ppc'[t] = ppc[t] /\ index'[t] = index[t] /\ block'[t] = block[t]
    /\ syncErr'[t] = syncErr[t] /\ accepted'[t] = accepted[t] /\ cpc'[t] = cpc[t]
    /\ got'[t] = got[t] /\ result'[t] = result[t] /\ handled'[t] = handled[t]

\* No file is ever deleted.
FilesStay == \A b \in Slots : files[b] # "none" => files'[b] # "none"

LEMMA SameInv ==
    ASSUME TypeOK, FilesStay, NEW t \in Syncs, Same(t), ProducerInv(t), ConsumerInv(t)
    PROVE  ProducerInv(t)' /\ ConsumerInv(t)'
<1>1. handled[t] \in Seq(Slots)
  BY DEF TypeOK
<1>2. \A i \in 1..Len(handled[t]) : handled[t][i] \in Slots
  BY <1>1
<1>3. ProducerInv(t)'
  BY DEF Same, ProducerInv
<1>4. ConsumerInv(t)'
  BY <1>2 DEF Same, ConsumerInv, FilesStay
<1> QED
  BY <1>3, <1>4

\* What one step keeps, for the command that makes it and for the others.
Kept(s) == TypeOK' /\ FilesStay /\ ProducerInv(s)' /\ ConsumerInv(s)' /\ \A t \in Syncs \ {s} : Same(t)

\* The steps of the goroutine, but for the one that accepts a block.
LEMMA ProducerStep ==
    ASSUME TypeOK, NEW s \in Syncs, ProducerInv(s), ConsumerInv(s), NEW where, NEW e \in Results,
           \/ ppc[s] = "idle" /\ where = "open" /\ cpc' = [cpc EXCEPT ![s] = "recv"] /\ cpc[s] = "idle"
           \/ ppc[s] = "open" /\ where = "read" /\ UNCHANGED cpc
           \/ ppc[s] \in {"open", "read"} /\ where = "close" /\ UNCHANGED cpc
           \/ ppc[s] = "close" /\ where = "ended" /\ UNCHANGED cpc,
           ppc' = [ppc EXCEPT ![s] = where],
           UNCHANGED syncErr \/ syncErr' = [syncErr EXCEPT ![s] = e],
           UNCHANGED <<req, done, index, block, accepted, got, result, handled, files>>
    PROVE  Kept(s)
<1>1. TypeOK'
  BY DEF TypeOK
<1>2. FilesStay /\ \A t \in Syncs \ {s} : Same(t)
  BY DEF TypeOK, FilesStay, Same
<1>3. /\ (cpc'[s] = cpc[s] /\ ppc[s] # "idle") \/ (cpc[s] = "idle" /\ cpc'[s] = "recv")
      /\ ppc[s] \notin {"send", "ended"} /\ ppc'[s] = where /\ where \notin {"send", "idle"}
      /\ cpc[s] = "idle" => ppc[s] = "idle"
  BY DEF TypeOK, ProducerInv
<1>4. ProducerInv(s)'
  BY <1>3 DEF ProducerInv
<1>5. ConsumerInv(s)'
  BY <1>3 DEF ConsumerInv, Working
<1> QED
  BY <1>1, <1>2, <1>4, <1>5 DEF Kept

\* A block passes the checks.
LEMMA AcceptStep ==
    ASSUME TypeOK, NEW s \in Syncs, ProducerInv(s), ConsumerInv(s), NEW b \in Slots,
           ReadBlock(s, b), Acceptable(req[s], index[s], b)
    PROVE  Kept(s)
<1>1. /\ ppc[s] = "read" /\ index[s] < MaxChunks(req[s])
      /\ ppc' = [ppc EXCEPT ![s] = "send"] /\ block' = [block EXCEPT ![s] = b]
      /\ accepted' = [accepted EXCEPT ![s] = Append(accepted[s], b)]
      /\ UNCHANGED <<req, done, index, syncErr, cpc, got, result, handled, files>>
  BY DEF ReadBlock, More, consVars
<1>2. accepted[s] \in Seq(Slots) /\ handled[s] \in Seq(Slots) /\ index[s] \in Nat /\ req[s] \in Requests
  BY DEF TypeOK
<1>3. TypeOK'
  BY <1>1, <1>2 DEF TypeOK
<1>4. FilesStay /\ \A t \in Syncs \ {s} : Same(t)
  BY <1>1 DEF TypeOK, FilesStay, Same
<1>5. /\ ppc'[s] = "send" /\ block'[s] = b /\ accepted'[s] = Append(accepted[s], b)
      /\ Len(accepted[s]) = index[s] /\ cpc[s] # "idle"
  BY <1>1 DEF TypeOK, ProducerInv
<1>6. /\ Len(accepted'[s]) = index[s] + 1 /\ accepted'[s][index[s] + 1] = b
      /\ \A i \in 1..Len(accepted[s]) : accepted'[s][i] = accepted[s][i]
  BY <1>2, <1>5
<1>7. b \in Requested(req[s]) /\ (req[s].kind = "root" => b = req[s].roots[index[s] + 1])
  BY <1>2, Accepted
<1>8. MaxChunks(req[s]) \in Nat
  BY <1>2, MaxChunksType
<1>9. ASSUME NEW i \in 1..Len(accepted'[s])
      PROVE  /\ accepted'[s][i] \in Requested(req[s])
             /\ req[s].kind = "root" => accepted'[s][i] = req[s].roots[i]
  <2>1. CASE i = index[s] + 1
    BY <1>6, <1>7, <2>1
  <2>2. CASE i # index[s] + 1
    <3>1. i \in 1..Len(accepted[s])
      BY <1>2, <1>5, <1>6, <2>2
    <3> QED
      BY <1>6, <3>1 DEF ProducerInv
  <2> QED
    BY <2>1, <2>2
<1>10. ProducerInv(s)'
  BY <1>1, <1>2, <1>5, <1>6, <1>8, <1>9 DEF ProducerInv
<1>11. ConsumerInv(s)'
  <2>1. Len(handled[s]) \in Nat /\ Len(accepted[s]) \in Nat
    BY <1>2
  <2>2. \A i \in 1..Len(handled[s]) : accepted'[s][i] = accepted[s][i]
    BY <1>2, <1>5, <1>6, <2>1 DEF ConsumerInv
  <2>3. cpc[s] \in Working => accepted'[s][index[s]] = accepted[s][index[s]]
    BY <1>2, <1>5, <1>6, <2>1 DEF ConsumerInv
  <2> QED
    BY <1>1, <2>2, <2>3 DEF ConsumerInv
<1> QED
  BY <1>3, <1>4, <1>10, <1>11 DEF Kept

\* A block goes through the channel.
LEMMA ReceiveStep ==
    ASSUME TypeOK, NEW s \in Syncs, ProducerInv(s), ConsumerInv(s), Receive(s)
    PROVE  Kept(s)
<1>1. /\ ppc[s] = "send" /\ cpc[s] = "recv"
      /\ ppc' = [ppc EXCEPT ![s] = "read"] /\ index' = [index EXCEPT ![s] = index[s] + 1]
      /\ block' = [block EXCEPT ![s] = NoBlock] /\ got' = [got EXCEPT ![s] = block[s]]
      /\ cpc' = [cpc EXCEPT ![s] = "process"]
      /\ UNCHANGED <<req, done, syncErr, accepted, result, handled, files>>
  BY DEF Receive
<1>2. handled[s] \in Seq(Slots) /\ index[s] \in Nat /\ block[s] \in Slots \cup {NoBlock}
  BY DEF TypeOK
<1>3. TypeOK'
  BY <1>1, <1>2 DEF TypeOK
<1>4. FilesStay /\ \A t \in Syncs \ {s} : Same(t)
  BY <1>1 DEF TypeOK, FilesStay, Same
<1>5. /\ ppc'[s] = "read" /\ index'[s] = index[s] + 1 /\ got'[s] = block[s] /\ cpc'[s] = "process"
      /\ Len(accepted[s]) = index[s] + 1 /\ block[s] = accepted[s][index[s] + 1]
  BY <1>1 DEF TypeOK, ProducerInv
<1>6. ProducerInv(s)'
  BY <1>1, <1>5 DEF ProducerInv
<1>7. ConsumerInv(s)'
  BY <1>1, <1>2, <1>5 DEF ConsumerInv, Working
<1> QED
  BY <1>3, <1>4, <1>6, <1>7 DEF Kept

\* The command returns: nil only at the close of the channel.
LEMMA ReturnStep ==
    ASSUME TypeOK, TypeOK', NEW s \in Syncs, ProducerInv(s), ConsumerInv(s), NEW e \in Results,
           cpc[s] # "idle", Return(s, e),
           e = "nil" => cpc[s] = "recv" /\ ppc[s] = "ended" /\ syncErr[s] = "nil",
           FilesStay, UNCHANGED <<req, done, prodVars, handled>>
    PROVE  Kept(s)
<1> USE DEF prodVars
<1>1. \A t \in Syncs \ {s} : Same(t)
  BY DEF Return, TypeOK, Same
<1>2. cpc'[s] = "returned" /\ result'[s] = e
  BY DEF Return, TypeOK
<1>3. ProducerInv(s)'
  BY <1>2 DEF ProducerInv
<1>4. handled[s] \in Seq(Slots)
  BY DEF TypeOK
<1>5. \A i \in 1..Len(handled[s]) : handled[s][i] \in Slots
  BY <1>4
<1>6. ConsumerInv(s)'
  BY <1>2, <1>5 DEF ConsumerInv, Working, FilesStay
<1> QED
  BY <1>1, <1>3, <1>6 DEF Kept

\* The command is done with a block.
LEMMA HandledStep ==
    ASSUME TypeOK, NEW s \in Syncs, ProducerInv(s), ConsumerInv(s), cpc[s] \in {"store", "write"},
           Handled(s), UNCHANGED <<req, done, prodVars>>,
           files' \in [Slots -> {"none", "writing", "whole", "torn"}], FilesStay,
           req[s].store => files'[got[s]] # "none"
    PROVE  Kept(s)
<1> USE DEF prodVars
<1>1. /\ cpc' = [cpc EXCEPT ![s] = "recv"] /\ got' = [got EXCEPT ![s] = NoBlock]
      /\ handled' = [handled EXCEPT ![s] = Append(handled[s], got[s])] /\ UNCHANGED result
  BY DEF Handled
<1>2. /\ handled[s] \in Seq(Slots) /\ index[s] \in Nat /\ accepted[s] \in Seq(Slots)
      /\ Len(handled[s]) + 1 = index[s] /\ got[s] = accepted[s][index[s]] /\ index[s] <= Len(accepted[s])
  <2>1. index[s] \in Nat /\ accepted[s] \in Seq(Slots) /\ handled[s] \in Seq(Slots)
    BY DEF TypeOK
  <2>2. index[s] <= Len(accepted[s])
    BY <2>1 DEF ProducerInv
  <2> QED
    BY <2>1, <2>2 DEF ConsumerInv, Working
<1>3. got[s] \in Slots
  BY <1>2
<1>4. TypeOK'
  BY <1>1, <1>2, <1>3 DEF TypeOK
<1>5. \A t \in Syncs \ {s} : Same(t)
  BY <1>1 DEF TypeOK, Same
<1>6. cpc'[s] = "recv" /\ handled'[s] = Append(handled[s], got[s])
  BY <1>1 DEF TypeOK
<1>7. ProducerInv(s)'
  BY <1>6 DEF ProducerInv
<1>8. /\ Len(handled'[s]) = index[s] /\ handled'[s][index[s]] = got[s]
      /\ \A i \in 1..Len(handled[s]) : handled'[s][i] = handled[s][i] /\ handled[s][i] \in Slots
  BY <1>2, <1>3, <1>6
<1>9. ASSUME NEW i \in 1..Len(handled'[s])
      PROVE  /\ handled'[s][i] = accepted[s][i]
             /\ req[s].store => files'[handled'[s][i]] # "none"
  <2>1. CASE i = index[s]
    BY <1>2, <1>8, <2>1
  <2>2. CASE i # index[s]
    <3>1. i \in 1..Len(handled[s])
      BY <1>2, <1>8, <2>2
    <3> QED
      BY <1>8, <3>1 DEF ConsumerInv, FilesStay
  <2> QED
    BY <2>1, <2>2
<1>10. result[s] # "nil"
  BY DEF ConsumerInv
<1>11. ConsumerInv(s)'
  BY <1>1, <1>2, <1>6, <1>8, <1>9, <1>10 DEF ConsumerInv, Working
<1> QED
  BY <1>4, <1>5, <1>7, <1>11 DEF Kept

\* Every step of a command.
LEMMA StepKept ==
    ASSUME TypeOK, NEW s \in Syncs, ProducerInv(s), ConsumerInv(s),
           \/ Run(s) \/ Producer(s) \/ CloseBlocks(s) \/ ProcessTimeout(s) \/ Receive(s)
           \/ ReceiveClosed(s) \/ ReceiveStopped(s) \/ Handling(s)
    PROVE  Kept(s)
<1>1. CASE Run(s)
  <2>1. ppc[s] = "idle"
    BY <1>1 DEF Run, ProducerInv
  <2> QED
    BY <1>1, <2>1, ProducerStep DEF Run, Results
<1>2. CASE Producer(s)
  <2>1. ASSUME NEW e \in {"nil", "err"}, ppc[s] \in {"open", "read"}, SyncReturns(s, e) PROVE Kept(s)
    BY <2>1, ProducerStep DEF SyncReturns, consVars, Results
  <2>2. ASSUME NEW ok \in BOOLEAN, Request(s, ok) PROVE Kept(s)
    <3>1. CASE ok
      BY <2>2, <3>1, ProducerStep DEF Request, consVars, Results
    <3>2. CASE ~ok
      BY <2>1, <2>2, <3>2 DEF Request
    <3> QED
      BY <3>1, <3>2
  <2>3. ASSUME ReadEnd(s) \/ ReadError(s) PROVE Kept(s)
    BY <2>1, <2>3 DEF ReadEnd, ReadError
  <2>4. ASSUME NEW b \in Slots, ReadBlock(s, b) PROVE Kept(s)
    <3>1. CASE Acceptable(req[s], index[s], b)
      BY <2>4, <3>1, AcceptStep
    <3>2. CASE ~Acceptable(req[s], index[s], b)
      BY <2>1, <2>4, <3>2 DEF ReadBlock
    <3> QED
      BY <3>1, <3>2
  <2> QED
    BY <1>2, <2>2, <2>3, <2>4 DEF Producer
<1>3. CASE CloseBlocks(s)
  BY <1>3, ProducerStep DEF CloseBlocks, consVars, Results
<1>4. CASE ProcessTimeout(s)
  <2> USE <1>4 DEF ProcessTimeout, prodVars, consVars
  <2>1. TypeOK'
    BY DEF TypeOK
  <2>2. FilesStay /\ \A t \in Syncs \ {s} : Same(t)
    BY DEF FilesStay, Same
  <2>3. ProducerInv(s)' /\ ConsumerInv(s)'
    BY DEF ProducerInv, ConsumerInv
  <2> QED
    BY <2>1, <2>2, <2>3 DEF Kept
<1>5. CASE Receive(s)
  BY <1>5, ReceiveStep
<1>6. ASSUME NEW e \in Results, Return(s, e), UNCHANGED <<req, done, prodVars, handled, files>>
      PROVE  TypeOK' /\ FilesStay
  BY <1>6 DEF TypeOK, Return, prodVars, FilesStay
<1>7. CASE ReceiveClosed(s)
  <2>1. syncErr[s] \in Results
    BY DEF TypeOK
  <2> QED
    BY <1>6, <1>7, <2>1, ReturnStep DEF ReceiveClosed, SyncErr
<1>8. CASE ReceiveStopped(s)
  BY <1>6, <1>8, ReturnStep DEF ReceiveStopped, Results
<1>9. CASE Handling(s)
  <2>0. /\ files \in [Slots -> {"none", "writing", "whole", "torn"}]
        /\ cpc[s] \in Working => got[s] \in Slots
    <3>1. /\ index[s] \in Nat /\ accepted[s] \in Seq(Slots) /\ handled[s] \in Seq(Slots)
          /\ files \in [Slots -> {"none", "writing", "whole", "torn"}]
      BY DEF TypeOK
    <3>2. index[s] <= Len(accepted[s])
      BY <3>1 DEF ProducerInv
    <3>3. ASSUME cpc[s] \in Working PROVE got[s] \in Slots
      <4>1. got[s] = accepted[s][index[s]] /\ index[s] \in 1..Len(accepted[s])
        BY <3>1, <3>2, <3>3 DEF ConsumerInv
      <4> QED
        BY <3>1, <4>1
    <3> QED
      BY <3>1, <3>3
  <2>1. ASSUME NEW ok \in BOOLEAN, Process(s, ok) PROVE Kept(s)
    <3>1. CASE ok
      <4> USE <2>1, <3>1 DEF Process, prodVars
      <4>1. TypeOK'
        BY DEF TypeOK
      <4>2. FilesStay /\ \A t \in Syncs \ {s} : Same(t)
        BY DEF FilesStay, Same, TypeOK
      <4>3. cpc[s] = "process" /\ cpc'[s] = "store"
        BY DEF TypeOK
      <4>4. ProducerInv(s)' /\ ConsumerInv(s)'
        BY <4>3 DEF ProducerInv, ConsumerInv, Working
      <4> QED
        BY <4>1, <4>2, <4>4 DEF Kept
    <3>2. CASE ~ok
      BY <1>6, <2>1, <3>2, ReturnStep DEF Process, Results
    <3> QED
      BY <3>1, <3>2
  <2>2. ASSUME StoreNot(s) PROVE Kept(s)
    BY <2>0, <2>2, HandledStep DEF StoreNot, FilesStay
  <2>3. ASSUME StoreOpen(s) PROVE Kept(s)
    <3>1. CASE Exists(got[s])
      BY <2>0, <2>3, <3>1, HandledStep DEF StoreOpen, FilesStay, Exists
    <3>2. CASE ~Exists(got[s])
      <4>1. /\ cpc[s] = "store" /\ cpc' = [cpc EXCEPT ![s] = "write"]
            /\ files' = [files EXCEPT ![got[s]] = "writing"]
            /\ UNCHANGED <<req, done, ppc, index, block, syncErr, accepted, got, result, handled>>
        BY <2>3, <3>2 DEF StoreOpen, prodVars
      <4>2. TypeOK'
        BY <4>1 DEF TypeOK
      <4>3. FilesStay /\ \A t \in Syncs \ {s} : Same(t)
        BY <4>1 DEF FilesStay, Same, TypeOK
      <4>4. cpc'[s] = "write"
        BY <4>1 DEF TypeOK
      <4>5. ProducerInv(s)'
        BY <4>1, <4>4 DEF ProducerInv
      <4>6. handled[s] \in Seq(Slots)
        BY DEF TypeOK
      <4>7. \A i \in 1..Len(handled[s]) : handled[s][i] \in Slots
        BY <4>6
      <4>8. ConsumerInv(s)'
        BY <4>1, <4>3, <4>4, <4>7 DEF ConsumerInv, Working, FilesStay
      <4> QED
        BY <4>2, <4>3, <4>5, <4>8 DEF Kept
    <3> QED
      BY <3>1, <3>2
  <2>4. ASSUME StoreError(s) PROVE Kept(s)
    BY <1>6, <2>4, ReturnStep DEF StoreError, Results
  <2>5. ASSUME NEW ok \in BOOLEAN, StoreWrite(s, ok) PROVE Kept(s)
    <3>1. /\ files' \in [Slots -> {"none", "writing", "whole", "torn"}] /\ FilesStay
          /\ files'[got[s]] # "none"
      BY <2>0, <2>5 DEF StoreWrite, FilesStay, Working
    <3>2. CASE ok
      BY <2>5, <3>1, <3>2, HandledStep DEF StoreWrite
    <3>3. CASE ~ok
      <4>1. /\ cpc[s] = "write" /\ Return(s, "err") /\ UNCHANGED <<req, done, prodVars, handled>>
        BY <2>5, <3>3 DEF StoreWrite
      <4>2. TypeOK'
        BY <3>1, <4>1 DEF TypeOK, Return, prodVars, Results
      <4> QED
        BY <3>1, <4>1, <4>2, ReturnStep DEF Results
    <3> QED
      BY <3>2, <3>3
  <2> QED
    BY <1>9, <2>1, <2>2, <2>3, <2>4, <2>5 DEF Handling
<1> QED
  BY <1>1, <1>2, <1>3, <1>4, <1>5, <1>7, <1>8, <1>9
-----------------------------------------------------------------------------
(* The theorems. *)

LEMMA InitInv == Init => Inv
<1> SUFFICES ASSUME Init PROVE Inv
  OBVIOUS
<1>1. TypeOK
  BY DEF Init, TypeOK, Results
<1>2. ASSUME NEW s \in Syncs PROVE ProducerInv(s) /\ ConsumerInv(s)
  <2>1. MaxChunks(req[s]) \in Nat
    BY MaxChunksType DEF Init
  <2> QED
    BY <2>1 DEF Init, ProducerInv, ConsumerInv, Working
<1> QED
  BY <1>1, <1>2 DEF Inv

LEMMA NextInv == Inv /\ [Next]_vars => Inv'
<1> SUFFICES ASSUME Inv, [Next]_vars PROVE Inv'
  OBVIOUS
<1>1. CASE Next
  <2>1. PICK s \in Syncs :
          \/ Run(s) \/ Producer(s) \/ CloseBlocks(s) \/ ProcessTimeout(s) \/ Receive(s)
          \/ ReceiveClosed(s) \/ ReceiveStopped(s) \/ Handling(s)
    BY <1>1 DEF Next
  <2>2. Kept(s)
    BY <2>1, StepKept DEF Inv
  <2>3. ASSUME NEW t \in Syncs PROVE ProducerInv(t)' /\ ConsumerInv(t)'
    <3>1. CASE t = s
      BY <2>2, <3>1 DEF Kept
    <3>2. CASE t # s
      BY <2>2, <3>2, SameInv DEF Kept, Inv
    <3> QED
      BY <3>1, <3>2
  <2> QED
    BY <2>2, <2>3 DEF Inv, Kept
<1>2. CASE UNCHANGED vars
  <2> USE <1>2 DEF vars, prodVars, consVars
  <2>1. TypeOK'
    BY DEF Inv, TypeOK
  <2>2. ASSUME NEW t \in Syncs PROVE Same(t) /\ FilesStay
    BY DEF Same, FilesStay
  <2> QED
    BY <2>1, <2>2, SameInv DEF Inv
<1> QED
  BY <1>1, <1>2

\* The inductive invariant holds of every behaviour of the sync commands.
THEOREM Invariance == Spec => []Inv
<1>1. Init => Inv
  BY InitInv
<1>2. Inv /\ [Next]_vars => Inv'
  BY NextInv
<1> QED
  BY <1>1, <1>2, PTL DEF Spec

\* The checks of by-range and by-root, and the limit on chunks, let through what was
\* asked for and nothing else, for every width of slots and every overflow.
THEOREM OnlyRequested == Spec => []RequestedOnly
<1>1. Inv => RequestedOnly
  <2> SUFFICES ASSUME Inv, NEW s \in Syncs
               PROVE  /\ \A i \in DOMAIN accepted[s] :
                            /\ accepted[s][i] \in Requested(req[s])
                            /\ req[s].kind = "root" => accepted[s][i] = req[s].roots[i]
                      /\ Len(accepted[s]) <= MaxChunks(req[s])
    BY DEF RequestedOnly
  <2>1. accepted[s] \in Seq(Slots)
    BY DEF Inv, TypeOK
  <2>2. DOMAIN accepted[s] = 1..Len(accepted[s])
    BY <2>1
  <2> QED
    BY <2>2 DEF Inv, ProducerInv
<1> QED
  BY <1>1, Invariance, PTL

\* handle takes blocks in the order of the response, and returns nil only when all
\* that came were processed and stored and runSync ended without an error.
THEOREM NilIsAll == Spec => []NilMeansAll
<1>1. Inv => NilMeansAll
  <2> SUFFICES ASSUME Inv, NEW s \in Syncs
               PROVE  /\ handled[s] = SubSeq(accepted[s], 1, Len(handled[s]))
                      /\ result[s] = "nil" =>
                            /\ syncErr[s] = "nil" /\ handled[s] = accepted[s]
                            /\ req[s].store => \A i \in DOMAIN handled[s] : files[handled[s][i]] # "none"
    BY DEF NilMeansAll
  <2>1. handled[s] \in Seq(Slots) /\ accepted[s] \in Seq(Slots) /\ index[s] \in Nat
    BY DEF Inv, TypeOK
  <2>2. ProducerInv(s) /\ ConsumerInv(s)
    BY DEF Inv
  <2>3. Len(handled[s]) \in Nat /\ Len(accepted[s]) \in Nat /\ Len(handled[s]) <= Len(accepted[s])
    BY <2>1, <2>2 DEF ProducerInv, ConsumerInv
  <2> DEFINE first == SubSeq(accepted[s], 1, Len(handled[s]))
  <2>4. first \in Seq(Slots) /\ Len(first) = Len(handled[s])
        /\ \A i \in 1..Len(handled[s]) : first[i] = accepted[s][i]
    BY <2>1, <2>3, SubSeqProperties
  <2>5. handled[s] = first
    <3> HIDE DEF first
    <3>1. \A i \in 1..Len(handled[s]) : handled[s][i] = first[i]
      BY <2>2, <2>4 DEF ConsumerInv
    <3> QED
      BY <2>1, <2>4, <3>1, SeqEqual
  <2>6. ASSUME result[s] = "nil"
        PROVE  /\ syncErr[s] = "nil" /\ handled[s] = accepted[s]
               /\ req[s].store => \A i \in DOMAIN handled[s] : files[handled[s][i]] # "none"
    <3>1. syncErr[s] = "nil" /\ Len(handled[s]) = Len(accepted[s])
      BY <2>2, <2>6 DEF ProducerInv, ConsumerInv
    <3>2. \A i \in 1..Len(handled[s]) : handled[s][i] = accepted[s][i]
      BY <2>2 DEF ConsumerInv
    <3>3. handled[s] = accepted[s]
      BY <2>1, <3>1, <3>2, SeqEqual
    <3>4. DOMAIN handled[s] = 1..Len(handled[s])
      BY <2>1
    <3> QED
      BY <2>2, <3>1, <3>3, <3>4 DEF ConsumerInv
  <2> QED
    BY <2>5, <2>6
<1> QED
  BY <1>1, Invariance, PTL
-----------------------------------------------------------------------------
(* Sync implements BlockFlow. *)

\* What the refinement needs besides: a command that runs has no result yet, at most
\* one block is received and not handled, and runSync has returned when the channel
\* is closed.
FlowInv(s) ==
    /\ cpc[s] # "returned" => result[s] = "none"
    /\ index[s] <= Len(handled[s]) + 1
    /\ ppc[s] \in {"close", "ended"} => syncErr[s] # "none"

\* A step of a command keeps it, and is a step of the BlockFlow or none of it.
Flows(s) == FlowInv(s)' /\ (Flow!FlowNext \/ UNCHANGED Flow!flowVars)

\* Steps that neither bring a block, nor finish one, nor return.
LEMMA QuietFlows ==
    ASSUME TypeOK, NEW s \in Syncs, FlowInv(s), UNCHANGED <<result, handled, accepted>>,
           ~(cpc[s] = "returned" /\ cpc'[s] # "returned"),
           index'[s] <= Len(handled[s]) + 1,
           ppc'[s] \in {"close", "ended"} => syncErr'[s] # "none"
    PROVE  Flows(s)
BY DEF FlowInv, Flows, Flow!flowVars

\* A block that passes the checks comes.
LEMMA AcceptFlows ==
    ASSUME Inv, NEW s \in Syncs, FlowInv(s), NEW b \in Slots, ReadBlock(s, b),
           Acceptable(req[s], index[s], b)
    PROVE  Flows(s)
<1>1. /\ ppc[s] = "read" /\ ppc' = [ppc EXCEPT ![s] = "send"]
      /\ accepted' = [accepted EXCEPT ![s] = Append(accepted[s], b)]
      /\ UNCHANGED <<index, syncErr, cpc, result, handled>>
  BY DEF ReadBlock, consVars
<1>2. /\ index[s] \in Nat /\ handled[s] \in Seq(Slots) /\ ppc'[s] = "send"
  BY <1>1 DEF Inv, TypeOK
<1>3. FlowInv(s)'
  BY <1>1, <1>2 DEF FlowInv
<1>4. Len(accepted[s]) = index[s] /\ result[s] # "nil"
  BY <1>1 DEF Inv, ProducerInv, ConsumerInv
<1>5. Len(accepted[s]) < Len(handled[s]) + 2
  BY <1>2, <1>4 DEF FlowInv
<1>6. Flow!Come(s, b)
  BY <1>1, <1>4, <1>5 DEF Flow!Come, Flow!Ahead
<1> QED
  BY <1>3, <1>6 DEF Flows, Flow!FlowNext

\* The command is done with a block: it is the next one that came.
LEMMA HandledFlows ==
    ASSUME Inv, NEW s \in Syncs, FlowInv(s), cpc[s] \in {"store", "write"}, Handled(s),
           UNCHANGED prodVars
    PROVE  Flows(s)
<1>1. /\ cpc' = [cpc EXCEPT ![s] = "recv"] /\ UNCHANGED <<index, ppc, syncErr, accepted, result>>
      /\ handled' = [handled EXCEPT ![s] = Append(handled[s], got[s])]
  BY DEF Handled, prodVars
<1>2. /\ index[s] \in Nat /\ handled[s] \in Seq(Slots) /\ accepted[s] \in Seq(Slots)
      /\ handled'[s] = Append(handled[s], got[s]) /\ cpc'[s] = "recv"
  BY <1>1 DEF Inv, TypeOK
<1>3. /\ Len(handled[s]) + 1 = index[s] /\ got[s] = accepted[s][index[s]]
      /\ index[s] <= Len(accepted[s])
  BY <1>2 DEF Inv, ProducerInv, ConsumerInv, Working
<1>4. Len(handled'[s]) = index[s] /\ result[s] = "none"
  BY <1>2, <1>3 DEF FlowInv
<1>5. FlowInv(s)'
  BY <1>1, <1>2, <1>4 DEF FlowInv
<1>6. got[s] = accepted[s][Len(handled[s]) + 1] /\ Len(handled[s]) < Len(accepted[s])
  BY <1>2, <1>3
<1>7. Flow!Take(s)
  BY <1>1, <1>4, <1>6 DEF Flow!Take
<1> QED
  BY <1>5, <1>7 DEF Flows, Flow!FlowNext

\* The command returns.
LEMMA ReturnFlows ==
    ASSUME Inv, NEW s \in Syncs, FlowInv(s), cpc[s] \notin {"idle", "returned"},
           NEW e \in {"nil", "err"}, Return(s, e),
           e = "nil" => cpc[s] = "recv" /\ ppc[s] = "ended",
           UNCHANGED <<prodVars, handled>>
    PROVE  Flows(s)
<1>1. /\ cpc' = [cpc EXCEPT ![s] = "returned"] /\ result' = [result EXCEPT ![s] = e]
      /\ UNCHANGED <<index, ppc, syncErr, accepted, handled>>
  BY DEF Return, prodVars
<1>2. /\ index[s] \in Nat /\ handled[s] \in Seq(Slots) /\ accepted[s] \in Seq(Slots)
      /\ cpc'[s] = "returned"
  BY <1>1 DEF Inv, TypeOK
<1>3. FlowInv(s)' /\ result[s] = "none"
  BY <1>1, <1>2 DEF FlowInv
<1>4. ASSUME e = "nil" PROVE handled[s] = accepted[s]
  <2>1. Len(handled[s]) = Len(accepted[s])
    BY <1>4 DEF Inv, ProducerInv, ConsumerInv
  <2>2. \A i \in 1..Len(handled[s]) : handled[s][i] = accepted[s][i]
    BY DEF Inv, ConsumerInv
  <2> QED
    BY <1>2, <2>1, <2>2, SeqEqual
<1>5. Flow!Finish(s, e)
  BY <1>1, <1>3, <1>4 DEF Flow!Finish
<1> QED
  BY <1>3, <1>5 DEF Flows, Flow!FlowNext

\* Every step of a command.
LEMMA StepFlows ==
    ASSUME Inv, NEW s \in Syncs, FlowInv(s),
           \/ Run(s) \/ Producer(s) \/ CloseBlocks(s) \/ ProcessTimeout(s) \/ Receive(s)
           \/ ReceiveClosed(s) \/ ReceiveStopped(s) \/ Handling(s)
    PROVE  Flows(s)
<1>0. TypeOK /\ index[s] \in Nat /\ handled[s] \in Seq(Slots)
  BY DEF Inv, TypeOK
<1>1. CASE Run(s)
  BY <1>0, <1>1, QuietFlows DEF Run, TypeOK, FlowInv
<1>2. CASE Producer(s)
  <2>1. ASSUME NEW e \in {"nil", "err"}, SyncReturns(s, e) PROVE Flows(s)
    <3>1. syncErr'[s] = e
      BY <1>0, <2>1 DEF SyncReturns, TypeOK
    <3> QED
      BY <1>0, <2>1, <3>1, QuietFlows DEF SyncReturns, FlowInv, consVars
  <2>2. ASSUME NEW ok \in BOOLEAN, Request(s, ok) PROVE Flows(s)
    <3>1. CASE ok
      BY <1>0, <2>2, <3>1, QuietFlows DEF Request, TypeOK, FlowInv, consVars
    <3>2. CASE ~ok
      BY <2>1, <2>2, <3>2 DEF Request
    <3> QED
      BY <3>1, <3>2
  <2>3. ASSUME ReadEnd(s) \/ ReadError(s) PROVE Flows(s)
    BY <2>1, <2>3 DEF ReadEnd, ReadError
  <2>4. ASSUME NEW b \in Slots, ReadBlock(s, b) PROVE Flows(s)
    <3>1. CASE Acceptable(req[s], index[s], b)
      BY <2>4, <3>1, AcceptFlows
    <3>2. CASE ~Acceptable(req[s], index[s], b)
      BY <2>1, <2>4, <3>2 DEF ReadBlock
    <3> QED
      BY <3>1, <3>2
  <2> QED
    BY <1>2, <2>2, <2>3, <2>4 DEF Producer
<1>3. CASE CloseBlocks(s)
  BY <1>0, <1>3, QuietFlows DEF CloseBlocks, TypeOK, FlowInv, consVars
<1>4. CASE ProcessTimeout(s)
  BY <1>0, <1>4, QuietFlows DEF ProcessTimeout, FlowInv, prodVars, consVars
<1>5. CASE Receive(s)
  <2>1. Len(handled[s]) = index[s]
    BY <1>5 DEF Receive, Inv, ConsumerInv
  <2>2. index'[s] = index[s] + 1 /\ ppc'[s] = "read" /\ cpc[s] = "recv"
        /\ UNCHANGED <<result, handled, accepted>>
    BY <1>0, <1>5 DEF Receive, TypeOK
  <2> QED
    BY <1>0, <2>1, <2>2, QuietFlows
<1>6. CASE ReceiveClosed(s)
  <2>1. syncErr[s] \in {"nil", "err"}
    BY <1>0, <1>6 DEF ReceiveClosed, TypeOK, Results, FlowInv
  <2> QED
    BY <1>6, <2>1, ReturnFlows DEF ReceiveClosed, SyncErr
<1>7. CASE ReceiveStopped(s)
  BY <1>7, ReturnFlows DEF ReceiveStopped
<1>8. CASE Handling(s)
  <2>1. ASSUME NEW ok \in BOOLEAN, Process(s, ok) PROVE Flows(s)
    <3>1. CASE ok
      BY <1>0, <2>1, <3>1, QuietFlows DEF Process, FlowInv, prodVars
    <3>2. CASE ~ok
      BY <2>1, <3>2, ReturnFlows DEF Process
    <3> QED
      BY <3>1, <3>2
  <2>2. ASSUME StoreNot(s) PROVE Flows(s)
    BY <2>2, HandledFlows DEF StoreNot
  <2>3. ASSUME StoreOpen(s) PROVE Flows(s)
    <3>1. CASE Exists(got[s])
      BY <2>3, <3>1, HandledFlows DEF StoreOpen
    <3>2. CASE ~Exists(got[s])
      BY <1>0, <2>3, <3>2, QuietFlows DEF StoreOpen, FlowInv, prodVars
    <3> QED
      BY <3>1, <3>2
  <2>4. ASSUME StoreError(s) PROVE Flows(s)
    BY <2>4, ReturnFlows DEF StoreError
  <2>5. ASSUME NEW ok \in BOOLEAN, StoreWrite(s, ok) PROVE Flows(s)
    <3>1. CASE ok
      BY <2>5, <3>1, HandledFlows DEF StoreWrite
    <3>2. CASE ~ok
      BY <2>5, <3>2, ReturnFlows DEF StoreWrite
    <3> QED
      BY <3>1, <3>2
  <2> QED
    BY <1>8, <2>1, <2>2, <2>3, <2>4, <2>5 DEF Handling
<1> QED
  BY <1>1, <1>2, <1>3, <1>4, <1>5, <1>6, <1>7, <1>8

FlowInvAll == \A s \in Syncs : FlowInv(s)

LEMMA NextFlows ==
    Inv /\ FlowInvAll /\ [Next]_vars => FlowInvAll' /\ [Flow!FlowNext]_(Flow!flowVars)
<1> SUFFICES ASSUME Inv, FlowInvAll, [Next]_vars
             PROVE  FlowInvAll' /\ (Flow!FlowNext \/ UNCHANGED Flow!flowVars)
  OBVIOUS
<1>1. CASE Next
  <2>1. PICK s \in Syncs :
          \/ Run(s) \/ Producer(s) \/ CloseBlocks(s) \/ ProcessTimeout(s) \/ Receive(s)
          \/ ReceiveClosed(s) \/ ReceiveStopped(s) \/ Handling(s)
    BY <1>1 DEF Next
  <2>2. Flows(s)
    BY <2>1, StepFlows DEF FlowInvAll
  <2>3. Kept(s)
    BY <2>1, StepKept DEF Inv
  <2>4. ASSUME NEW t \in Syncs PROVE FlowInv(t)'
    <3>1. CASE t = s
      BY <2>2, <3>1 DEF Flows
    <3>2. CASE t # s
      BY <2>3, <3>2 DEF Kept, Same, FlowInv, FlowInvAll
    <3> QED
      BY <3>1, <3>2
  <2> QED
    BY <2>2, <2>4 DEF Flows, FlowInvAll
<1>2. CASE UNCHANGED vars
  BY <1>2 DEF vars, prodVars, consVars, Flow!flowVars, FlowInvAll, FlowInv
<1> QED
  BY <1>1, <1>2

\* handle and its goroutine, for every request and whatever the peer sends: blocks are
\* handled in the order of the response, the peer is at most two ahead, nothing is
\* handled after the return, and nothing comes after nil.
THEOREM SyncIsFlow == Spec => ImplementsFlow
<1>1. Init => Flow!FlowInit /\ FlowInvAll
  BY DEF Init, Flow!FlowInit, FlowInvAll, FlowInv
<1>2. Inv /\ FlowInvAll /\ [Next]_vars => FlowInvAll' /\ [Flow!FlowNext]_(Flow!flowVars)
  BY NextFlows
<1> QED
  BY <1>1, <1>2, Invariance, PTL DEF Spec, ImplementsFlow, Flow!FlowSpec
=============================================================================
