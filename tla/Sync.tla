-------------------------------- MODULE Sync --------------------------------
(***************************************************************************)
(* `chain on <chain> sync by-range` and `by-root`: a goroutine runs the    *)
(* request and sends the blocks of the response through a channel; the     *)
(* command processes and stores them. Models                               *)
(* control/actor/chain/chcmd/sync, the response side of p2p/rpc/reqresp,   *)
(* and FileDB.Store of chain/db/blocks. The chain and the peer are         *)
(* external: the chain may refuse a block, and the peer may send anything. *)
(*                                                                         *)
(* Slots are unsigned numbers of W bits. There is one block for each slot, *)
(* and the slot also stands for its root.                                  *)
(***************************************************************************)
EXTENDS Integers, Sequences

CONSTANTS
    W,           \* bits of a slot number, 64 in the code
    Syncs,       \* commands, which may run at the same time
    Requests     \* what users ask for

Limit == 2^W
Slots == 0..(Limit - 1)

\* by-range and by-root, with --process and --store.
RangeReqs == [kind : {"range"}, start : Slots, count : Slots, step : Slots \ {0},
              process : BOOLEAN, store : BOOLEAN]
RootReqs  == [kind : {"root"}, roots : Seq(Slots), process : BOOLEAN, store : BOOLEAN]

\* The second conjunct is arithmetic: it follows from the first.
ASSUME SyncAssumption ==
    /\ W \in Nat
    /\ Limit \in Nat \ {0}
    /\ \A r \in Requests : r \in RangeReqs \/ r \in RootReqs

\* No block.
NoBlock == -1

VARIABLES
    req,         \* the request of each command
    ppc,         \* what the goroutine of the request does
    index,       \* chunkIndex
    block,       \* the block that it sends
    syncErr,     \* what runSync returned
    cpc,         \* what the command does
    got,         \* the block that it works on
    done,        \* processingCtx is done
    result,      \* what handle returned
    accepted,    \* the blocks that passed the checks (history)
    handled,     \* the blocks that were processed and stored (history)
    files        \* the files of the DB

prodVars == <<ppc, index, block, syncErr, accepted>>
consVars == <<cpc, got, result, handled>>
vars == <<req, done, prodVars, consVars, files>>

Results == {"none", "nil", "err"}

\* maxRespChunks
MaxChunks(r) == IF r.kind = "range" THEN r.count ELSE Len(r.roots)

TypeOK ==
    /\ req \in [Syncs -> Requests]
    /\ ppc \in [Syncs -> {"idle", "open", "read", "send", "close", "ended"}]
    /\ index \in [Syncs -> Nat]
    /\ block \in [Syncs -> Slots \cup {NoBlock}]
    /\ syncErr \in [Syncs -> Results]
    /\ cpc \in [Syncs -> {"idle", "recv", "process", "store", "write", "returned"}]
    /\ got \in [Syncs -> Slots \cup {NoBlock}]
    /\ done \in [Syncs -> BOOLEAN]
    /\ result \in [Syncs -> Results]
    /\ accepted \in [Syncs -> Seq(Slots)]
    /\ handled \in [Syncs -> Seq(Slots)]
    /\ files \in [Slots -> {"none", "writing", "whole", "torn"}]

Init ==
    /\ req \in [Syncs -> Requests]
    /\ ppc = [s \in Syncs |-> "idle"]
    /\ index = [s \in Syncs |-> 0]
    /\ block = [s \in Syncs |-> NoBlock]
    /\ syncErr = [s \in Syncs |-> "none"]
    /\ cpc = [s \in Syncs |-> "idle"]
    /\ got = [s \in Syncs |-> NoBlock]
    /\ done = [s \in Syncs |-> FALSE]
    /\ result = [s \in Syncs |-> "none"]
    /\ accepted = [s \in Syncs |-> <<>>]
    /\ handled = [s \in Syncs |-> <<>>]
    /\ files = [b \in Slots |-> "none"]
-----------------------------------------------------------------------------
(* The goroutine of the request. *)

\* The command runs, up to the start of the goroutine.
Run(s) ==
    /\ cpc[s] = "idle"
    /\ cpc' = [cpc EXCEPT ![s] = "recv"]
    /\ ppc' = [ppc EXCEPT ![s] = "open"]
    /\ UNCHANGED <<req, done, index, block, syncErr, accepted, got, result, handled, files>>

\* runSync returns e.
SyncReturns(s, e) ==
    /\ ppc' = [ppc EXCEPT ![s] = "close"]
    /\ syncErr' = [syncErr EXCEPT ![s] = e]
    /\ UNCHANGED <<req, done, index, block, accepted, consVars, files>>

\* A stream is opened, the request is written, and the response is read. This
\* is the only step that the timeout of the request can end.
Request(s, ok) ==
    /\ ppc[s] = "open"
    /\ IF ok THEN /\ ppc' = [ppc EXCEPT ![s] = "read"]
                  /\ UNCHANGED <<req, done, index, block, syncErr, accepted, consVars, files>>
             ELSE SyncReturns(s, "err")

\* The condition of the loop over the chunks.
More(s) == index[s] < MaxChunks(req[s])

\* There are no more chunks, or as many were read as there may be.
ReadEnd(s) ==
    /\ ppc[s] = "read"
    /\ SyncReturns(s, "nil")

\* A chunk that cannot be read, that is too large, that does not decode, or that
\* has another result code than success.
ReadError(s) ==
    /\ ppc[s] = "read"
    /\ More(s)
    /\ SyncReturns(s, "err")

\* expectedEnd, which may overflow.
ExpectedEnd(r) == (r.start + ((r.step * r.count) % Limit)) % Limit

\* Mutants: no lower bound, so that the difference wraps; a root that was asked
\* for, at any place.
Acceptable_Early(r, i, b) ==
    IF r.kind = "range"
    THEN ((b - r.start) % Limit) % r.step = 0 /\ b < ExpectedEnd(r)
    ELSE \E j \in DOMAIN r.roots : r.roots[j] = b

\* The check of a block, the chunk of index i.
Acceptable(r, i, b) ==
    IF r.kind = "range"
    THEN b >= r.start /\ (b - r.start) % r.step = 0 /\ b < ExpectedEnd(r)
    ELSE i + 1 \in DOMAIN r.roots /\ r.roots[i + 1] = b

\* A chunk with a block.
ReadBlock(s, b) ==
    /\ ppc[s] = "read"
    /\ More(s)
    /\ IF Acceptable(req[s], index[s], b)
       THEN /\ ppc' = [ppc EXCEPT ![s] = "send"]
            /\ block' = [block EXCEPT ![s] = b]
            /\ accepted' = [accepted EXCEPT ![s] = Append(@, b)]
            /\ UNCHANGED <<req, done, index, syncErr, consVars, files>>
       ELSE SyncReturns(s, "err")

\* close(blocksCh)
CloseBlocks(s) ==
    /\ ppc[s] = "close"
    /\ ppc' = [ppc EXCEPT ![s] = "ended"]
    /\ UNCHANGED <<req, done, index, block, syncErr, accepted, consVars, files>>
-----------------------------------------------------------------------------
(* handle *)

\* The time for processing is up, or the call was cancelled, before handle returned.
ProcessTimeout(s) ==
    /\ cpc[s] \notin {"idle", "returned"}
    /\ ~done[s]
    /\ done' = [done EXCEPT ![s] = TRUE]
    /\ UNCHANGED <<req, prodVars, consVars, files>>

\* Mutant: the error is kept, and the loop goes on.
Return_Continues(s, e) ==
    /\ cpc' = [cpc EXCEPT ![s] = "recv"]
    /\ result' = [result EXCEPT ![s] = e]
    /\ got' = [got EXCEPT ![s] = NoBlock]

Return(s, e) ==
    /\ cpc' = [cpc EXCEPT ![s] = "returned"]
    /\ result' = [result EXCEPT ![s] = e]
    /\ got' = [got EXCEPT ![s] = NoBlock]

\* ExpectedCount is not set, so that the channel has no room: the send and the
\* receive are one step, and the loop of the sender goes on.
Receive(s) ==
    /\ ppc[s] = "send"
    /\ cpc[s] = "recv"
    /\ ppc' = [ppc EXCEPT ![s] = "read"]
    /\ index' = [index EXCEPT ![s] = @ + 1]
    /\ block' = [block EXCEPT ![s] = NoBlock]
    /\ got' = [got EXCEPT ![s] = block[s]]
    /\ cpc' = [cpc EXCEPT ![s] = "process"]
    /\ UNCHANGED <<req, done, syncErr, accepted, result, handled, files>>

\* Mutant: the error is lost.
SyncErr_Lost(s) == "nil"

\* What handle returns after the close.
SyncErr(s) == syncErr[s]

\* The channel is closed.
ReceiveClosed(s) ==
    /\ cpc[s] = "recv"
    /\ ppc[s] = "ended"
    /\ Return(s, SyncErr(s))
    /\ UNCHANGED <<req, done, prodVars, handled, files>>

\* Mutant: no case for the context.
Stopped_Never(s) == FALSE

\* The case of the context can be taken.
Stopped(s) == done[s]

ReceiveStopped(s) ==
    /\ cpc[s] = "recv"
    /\ Stopped(s)
    /\ Return(s, "err")
    /\ UNCHANGED <<req, done, prodVars, handled, files>>

\* AddBlock, with --process.
Process(s, ok) ==
    /\ cpc[s] = "process"
    /\ ok \/ req[s].process
    /\ IF ok THEN /\ cpc' = [cpc EXCEPT ![s] = "store"]
                  /\ UNCHANGED <<got, result>>
             ELSE Return(s, "err")
    /\ UNCHANGED <<req, done, prodVars, handled, files>>

\* The block is done.
Handled(s) ==
    /\ cpc' = [cpc EXCEPT ![s] = "recv"]
    /\ handled' = [handled EXCEPT ![s] = Append(@, got[s])]
    /\ got' = [got EXCEPT ![s] = NoBlock]
    /\ UNCHANGED result

\* No --store.
StoreNot(s) ==
    /\ cpc[s] = "store"
    /\ ~req[s].store
    /\ Handled(s)
    /\ UNCHANGED <<req, done, prodVars, files>>

\* O_EXCL: the file is there, whatever is in it.
Exists(b) == files[b] # "none"

\* FileDB.Store: the block is known, or a file is created.
StoreOpen(s) ==
    /\ cpc[s] = "store"
    /\ req[s].store
    /\ IF Exists(got[s])
       THEN Handled(s) /\ UNCHANGED files
       ELSE /\ cpc' = [cpc EXCEPT ![s] = "write"]
            /\ files' = [files EXCEPT ![got[s]] = "writing"]
            /\ UNCHANGED <<got, result, handled>>
    /\ UNCHANGED <<req, done, prodVars>>

\* The file cannot be created.
StoreError(s) ==
    /\ cpc[s] = "store"
    /\ req[s].store
    /\ ~Exists(got[s])
    /\ Return(s, "err")
    /\ UNCHANGED <<req, done, prodVars, handled, files>>

\* Serialize: all of the block, or a part of it, which stays.
StoreWrite(s, ok) ==
    /\ cpc[s] = "write"
    /\ files' = [files EXCEPT ![got[s]] = IF ok THEN "whole" ELSE "torn"]
    /\ IF ok THEN Handled(s) ELSE Return(s, "err") /\ UNCHANGED handled
    /\ UNCHANGED <<req, done, prodVars>>
-----------------------------------------------------------------------------
Producer(s) ==
    \/ \E ok \in BOOLEAN : Request(s, ok)
    \/ ReadEnd(s)
    \/ ReadError(s)
    \/ \E b \in Slots : ReadBlock(s, b)

Handling(s) ==
    \/ \E ok \in BOOLEAN : Process(s, ok)
    \/ StoreNot(s)
    \/ StoreOpen(s)
    \/ StoreError(s)
    \/ \E ok \in BOOLEAN : StoreWrite(s, ok)

Next ==
    \E s \in Syncs :
        \/ Run(s)
        \/ Producer(s)
        \/ CloseBlocks(s)
        \/ ProcessTimeout(s)
        \/ Receive(s)
        \/ ReceiveClosed(s)
        \/ ReceiveStopped(s)
        \/ Handling(s)

Spec == Init /\ [][Next]_vars

\* The command runs and its context ends at last (it has a timeout by default); a
\* select with a ready case takes it, and processing a block comes to an end.
\* Nothing is assumed of the peer: it may be silent.
Fairness ==
    \A s \in Syncs :
        /\ WF_vars(ProcessTimeout(s))
        /\ SF_vars(ReceiveStopped(s))
        /\ WF_vars(ReceiveClosed(s))
        /\ WF_vars(Handling(s))

FairSpec == Spec /\ Fairness
-----------------------------------------------------------------------------
(* Properties. *)

\* The blocks that a request asks for, without overflow.
Requested(r) ==
    IF r.kind = "range" THEN {r.start + i * r.step : i \in 0..(r.count - 1)}
                        ELSE {r.roots[i] : i \in DOMAIN r.roots}

\* Whatever a peer sends, and also when the end of the range overflows (range.go:91),
\* only blocks of the request reach the chain and the DB, by root in the order of
\* the roots (root.go:120), and not more of them than were asked for.
RequestedOnly ==
    \A s \in Syncs :
        /\ \A i \in DOMAIN accepted[s] :
              /\ accepted[s][i] \in Requested(req[s])
              /\ req[s].kind = "root" => accepted[s][i] = req[s].roots[i]
        /\ Len(accepted[s]) <= MaxChunks(req[s])

\* Blocks are handled in the order of the response; and a command that returns
\* without an error has handled all the blocks that came, of a request that ended
\* without an error, and they are in the DB (handle_sync.go:30-77: syncErr is read
\* without a lock).
NilMeansAll ==
    \A s \in Syncs :
        /\ handled[s] = SubSeq(accepted[s], 1, Len(handled[s]))
        /\ result[s] = "nil" =>
              /\ syncErr[s] = "nil"
              /\ handled[s] = accepted[s]
              /\ req[s].store => \A i \in DOMAIN handled[s] : files[handled[s][i]] # "none"

Flow == INSTANCE BlockFlow WITH
            Commands <- Syncs, Blocks <- Slots,
            came <- accepted, taken <- handled, outcome <- result

\* The goroutine and the command, with the channel between them (handle_sync.go:27-77),
\* are a BlockFlow: blocks are handled one by one in the order of the response, at
\* most two are in flight, a command returns once and handles nothing afterwards,
\* and after nil nothing comes any more.
ImplementsFlow == Flow!FlowSpec

\* A command returns, even when the peer stays silent and the goroutine of its
\* request never ends.
HandleReturns ==
    \A s \in Syncs : (cpc[s] = "recv") ~> (cpc[s] = "returned")
=============================================================================
