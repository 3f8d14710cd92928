------------------------------ MODULE Metadata ------------------------------
(***************************************************************************)
(* What Rumor knows of the metadata of its peers. A peer numbers its       *)
(* metadata; pings and pongs claim the current number, and a metadata      *)
(* request fetches what belongs to it. Models the book of                  *)
(* p2p/track/dstrack/metadata.go, and the commands of                      *)
(* control/actor/peer/metadata that work on it concurrently: ping (and     *)
(* poll, which runs pings), pong and req. The program may stop, with or    *)
(* without closing the peerstore, and start again on the same datastore.   *)
(***************************************************************************)
EXTENDS Integers

CONSTANTS
    Peers,         \* the peers
    Threads,       \* goroutines that run ping, pong and req
    MaxSeq,        \* bound: highest sequence number
    MaxTries,      \* --max-tries
    MaxRestarts,   \* bound: number of restarts
    MaxResets,     \* bound: number of times that peers start again from 0
    StoreMayFail   \* may a Put of the datastore return an error?

None == -1

ASSUME MetadataAssumption ==
    /\ Peers # {}
    /\ None \notin Threads
    /\ MaxSeq \in Nat
    /\ MaxTries \in Nat
    /\ MaxRestarts \in Nat
    /\ MaxResets \in Nat
    /\ StoreMayFail \in BOOLEAN

Seqs == 0..MaxSeq

\* A metadata object is its sequence number, None stands for an absent entry.
VARIABLES
    seq,        \* the number of each peer's own metadata
    metadatas,  \* dsMetadataBook.metadatas
    claims,     \* dsMetadataBook.claims
    fetches,    \* dsMetadataBook.fetches, counted up to MaxTries + 1
    dsMeta,     \* the metadata in the datastore
    dsClaim,    \* the claim in the datastore
    lock,       \* the thread in the middle of RegisterMetadata, or None
    pc,         \* what each thread does
    target,     \* the peer it works on
    val,        \* the number it received
    tries,      \* updates started since the last satisfying answer (history)
    highest,    \* the highest number ever claimed (history)
    restarts,   \* number of restarts so far
    resets      \* number of resets so far

cacheVars  == <<metadatas, claims, fetches>>
storeVars  == <<dsMeta, dsClaim>>
threadVars == <<pc, target, val>>
countVars  == <<restarts, resets>>
vars == <<seq, cacheVars, storeVars, lock, threadVars, tries, highest, countVars>>

TypeOK ==
    /\ seq \in [Peers -> Seqs]
    /\ metadatas \in [Peers -> Seqs \cup {None}]
    /\ claims \in [Peers -> Seqs \cup {None}]
    /\ fetches \in [Peers -> 0..(MaxTries + 1)]
    /\ dsMeta \in [Peers -> Seqs \cup {None}]
    /\ dsClaim \in [Peers -> Seqs \cup {None}]
    /\ lock \in Threads \cup {None}
    /\ pc \in [Threads -> {"idle", "ping", "claim", "look", "count", "fetch",
                           "register", "storeClaim"}]
    /\ target \in [Threads -> Peers]
    /\ val \in [Threads -> Seqs]
    /\ tries \in [Peers -> 0..(MaxTries + 1)]
    /\ highest \in [Peers -> Seqs \cup {None}]
    /\ restarts \in 0..MaxRestarts
    /\ resets \in 0..MaxResets

AnyPeer == CHOOSE p \in Peers : TRUE

Init ==
    /\ seq = [p \in Peers |-> 0]
    /\ metadatas = [p \in Peers |-> None]
    /\ claims = [p \in Peers |-> None]
    /\ fetches = [p \in Peers |-> 0]
    /\ dsMeta = [p \in Peers |-> None]
    /\ dsClaim = [p \in Peers |-> None]
    /\ lock = None
    /\ pc = [t \in Threads |-> "idle"]
    /\ target = [t \in Threads |-> AnyPeer]
    /\ val = [t \in Threads |-> 0]
    /\ tries = [p \in Peers |-> 0]
    /\ highest = [p \in Peers |-> None]
    /\ restarts = 0
    /\ resets = 0
-----------------------------------------------------------------------------
(* The book. Its methods run under its lock; metadata and claimedSeq load an *)
(* entry into the cache when they first need it.                             *)

Free == lock = None

\* Mutant: what is not cached is not there.
metadata_Cached(p) == metadatas[p]

\* metadata(id)
metadata(p) == IF metadatas[p] # None THEN metadatas[p] ELSE dsMeta[p]

\* claimedSeq(id)
claimedSeq(p) == IF claims[p] # None THEN claims[p] ELSE dsClaim[p]

\* Put: the outcomes for the entry that held old.
Put(old, new) == IF StoreMayFail THEN {old, new} ELSE {new}

Goto(t, l) == pc' = [pc EXCEPT ![t] = l]

\* Back to where nothing is going on.
Return(t) ==
    /\ pc' = [pc EXCEPT ![t] = "idle"]
    /\ target' = [target EXCEPT ![t] = AnyPeer]
    /\ val' = [val EXCEPT ![t] = 0]
-----------------------------------------------------------------------------
(* The peers. *)

\* A peer changes its metadata.
PeerUpdates(p) ==
    /\ seq[p] < MaxSeq
    /\ seq' = [seq EXCEPT ![p] = @ + 1]
    /\ UNCHANGED <<cacheVars, storeVars, lock, threadVars, tries, highest, countVars>>

\* A peer loses its metadata and starts again.
PeerResets(p) ==
    /\ resets < MaxResets
    /\ resets' = resets + 1
    /\ seq' = [seq EXCEPT ![p] = 0]
    /\ UNCHANGED <<cacheVars, storeVars, lock, threadVars, tries, highest, restarts>>
-----------------------------------------------------------------------------
(* ping, pong and req *)

\* ping: a request is on its way.
PingStart(t, p) ==
    /\ pc[t] = "idle"
    /\ Goto(t, "ping")
    /\ target' = [target EXCEPT ![t] = p]
    /\ UNCHANGED <<seq, cacheVars, storeVars, lock, val, tries, highest, countVars>>

\* The peer answers with a pong.
PingReply(t) ==
    /\ pc[t] = "ping"
    /\ val' = [val EXCEPT ![t] = seq[target[t]]]
    /\ Goto(t, "claim")
    /\ UNCHANGED <<seq, cacheVars, storeVars, lock, target, tries, highest, countVars>>

\* The peer answers with an error: there is no claim, and pong is 0.
PingRefused(t) ==
    /\ pc[t] = "ping"
    /\ Goto(t, "look")
    /\ UNCHANGED <<seq, cacheVars, storeVars, lock, target, val, tries, highest, countVars>>

\* pong: a ping of the peer comes in.
PongStart(t, p) ==
    /\ pc[t] = "idle"
    /\ target' = [target EXCEPT ![t] = p]
    /\ val' = [val EXCEPT ![t] = seq[p]]
    /\ Goto(t, "claim")
    /\ UNCHANGED <<seq, cacheVars, storeVars, lock, tries, highest, countVars>>

\* req: fetch without a ping.
ReqStart(t, p) ==
    /\ pc[t] = "idle"
    /\ target' = [target EXCEPT ![t] = p]
    /\ Goto(t, "fetch")
    /\ UNCHANGED <<seq, cacheVars, storeVars, lock, val, tries, highest, countVars>>

\* A request fails or times out.
RequestFails(t) ==
    /\ pc[t] \in {"ping", "fetch"}
    /\ Return(t)
    /\ UNCHANGED <<seq, cacheVars, storeVars, lock, tries, highest, countVars>>

\* Mutant: the last claim counts.
NewerClaim_Always(p, n) == TRUE

\* The claim is higher than the known one, or the first (None is below every number).
NewerClaim(p, n) == claimedSeq(p) < n

\* RegisterSeqClaim
RegisterSeqClaim(t) ==
    /\ pc[t] = "claim"
    /\ Free
    /\ LET p == target[t]
           newer == NewerClaim(p, val[t])
       IN /\ claims' = [claims EXCEPT ![p] = IF newer THEN val[t] ELSE claimedSeq(p)]
          /\ \E r \in Put(dsClaim[p], val[t]) :
                dsClaim' = [dsClaim EXCEPT ![p] = IF newer THEN r ELSE @]
          /\ highest' = [highest EXCEPT ![p] = IF @ < val[t] THEN val[t] ELSE @]
    /\ Goto(t, "look")
    /\ UNCHANGED <<seq, metadatas, fetches, dsMeta, lock, target, val, tries, countVars>>

\* Mutant: one number behind is good enough.
Due_Later(p, n) == metadata(p) < n - 1 \/ metadata(p) = None

\* There is no metadata, or it is older than the number in the ping or pong.
Due(p, n) == metadata(p) < n \/ metadata(p) = None

\* Metadata(peer), and whether an update is due (--update is on, its default).
Look(t) ==
    /\ pc[t] = "look"
    /\ Free
    /\ LET p == target[t] IN
          /\ metadatas' = [metadatas EXCEPT ![p] = metadata(p)]
          /\ IF Due(p, val[t])
             THEN Goto(t, "count") /\ UNCHANGED <<target, val>>
             ELSE Return(t)
    /\ UNCHANGED <<seq, claims, fetches, storeVars, lock, tries, highest, countVars>>

\* --force-update: fetch, whatever is known and however often it was tried.
LookForced(t) ==
    /\ pc[t] = "look"
    /\ Goto(t, "fetch")
    /\ UNCHANGED <<seq, cacheVars, storeVars, lock, target, val, tries, highest, countVars>>

\* Mutant: the count before this attempt.
Counted_Before(p) == fetches[p]

\* The count that RegisterMetaFetch returns.
Counted(p) == fetches[p] + 1

\* fetches is only compared with MaxTries: it is counted up to MaxTries + 1.
UpTo(n) == IF n > MaxTries + 1 THEN MaxTries + 1 ELSE n

\* RegisterMetaFetch, and the comparison with MaxTries.
RegisterMetaFetch(t) ==
    /\ pc[t] = "count"
    /\ Free
    /\ LET p == target[t] IN
          /\ fetches' = [fetches EXCEPT ![p] = UpTo(@ + 1)]
          /\ IF Counted(p) <= MaxTries
             THEN /\ Goto(t, "fetch")
                  /\ tries' = [tries EXCEPT ![p] = UpTo(@ + 1)]
                  /\ UNCHANGED <<target, val>>
             ELSE Return(t) /\ UNCHANGED tries
    /\ UNCHANGED <<seq, metadatas, claims, storeVars, lock, highest, countVars>>

\* The peer answers with its metadata.
FetchReply(t) ==
    /\ pc[t] = "fetch"
    /\ val' = [val EXCEPT ![t] = seq[target[t]]]
    /\ Goto(t, "register")
    /\ UNCHANGED <<seq, cacheVars, storeVars, lock, target, tries, highest, countVars>>

\* Mutant: whatever arrives last is kept.
Newer_Always(p, n) == TRUE

\* No metadata yet, or older one.
Newer(p, n) == metadata(p) < n

\* As new as what the cache says was claimed, 0 if it says nothing.
Satisfies(p, n) == n >= claims[p]

\* RegisterMetadata, up to the Put of the metadata. The lock stays taken.
RegisterMetadata(t) ==
    /\ pc[t] = "register"
    /\ Free
    /\ LET p == target[t]
           n == val[t]
       IN IF Newer(p, n)
          THEN /\ metadatas' = [metadatas EXCEPT ![p] = n]
               /\ \E r \in Put(dsMeta[p], n) : dsMeta' = [dsMeta EXCEPT ![p] = r]
               /\ fetches' = [fetches EXCEPT ![p] = IF Satisfies(p, n) THEN 0 ELSE @]
               /\ tries' = [tries EXCEPT ![p] = IF n >= claims[p] THEN 0 ELSE @]
               /\ lock' = t
               /\ Goto(t, "storeClaim")
               /\ UNCHANGED <<target, val>>
          ELSE /\ metadatas' = [metadatas EXCEPT ![p] = metadata(p)]
               /\ Return(t)
               /\ UNCHANGED <<dsMeta, fetches, tries, lock>>
    /\ UNCHANGED <<seq, claims, dsClaim, highest, countVars>>

\* What the cache says was claimed, 0 if it says nothing.
CachedClaim(p) == IF claims[p] = None THEN 0 ELSE claims[p]

\* The end of RegisterMetadata: a claim that the metadata is ahead of.
StoreClaim(t) ==
    /\ pc[t] = "storeClaim"
    /\ LET p == target[t] IN
          IF val[t] > CachedClaim(p)
          THEN /\ claims' = [claims EXCEPT ![p] = val[t]]
               /\ \E r \in Put(dsClaim[p], val[t]) : dsClaim' = [dsClaim EXCEPT ![p] = r]
          ELSE UNCHANGED <<claims, dsClaim>>
    /\ lock' = None
    /\ Return(t)
    /\ UNCHANGED <<seq, metadatas, fetches, dsMeta, tries, highest, countVars>>
-----------------------------------------------------------------------------
(* Restarts: the caches and the threads are gone. *)

Restart ==
    /\ restarts < MaxRestarts
    /\ restarts' = restarts + 1
    /\ metadatas' = [p \in Peers |-> None]
    /\ claims' = [p \in Peers |-> None]
    /\ fetches' = [p \in Peers |-> 0]
    /\ tries' = [p \in Peers |-> 0]
    /\ lock' = None
    /\ pc' = [t \in Threads |-> "idle"]
    /\ target' = [t \in Threads |-> AnyPeer]
    /\ val' = [t \in Threads |-> 0]
    /\ UNCHANGED <<seq, highest, resets>>

\* The program is killed, at any point.
Crash == Restart /\ UNCHANGED storeVars

\* Close: flush stores what is cached, all of it or as much as Put allows.
Flushed(cache, store) ==
    {f \in [Peers -> Seqs \cup {None}] :
        \A p \in Peers : IF cache[p] = None THEN f[p] = store[p]
                                            ELSE f[p] \in Put(store[p], cache[p])}

Close ==
    /\ Free
    /\ dsClaim' \in Flushed(claims, dsClaim)
    /\ dsMeta' \in Flushed(metadatas, dsMeta)
    /\ Restart
-----------------------------------------------------------------------------
Runs(t) ==
    \/ PingReply(t)
    \/ PingRefused(t)
    \/ RequestFails(t)
    \/ RegisterSeqClaim(t)
    \/ Look(t)
    \/ LookForced(t)
    \/ RegisterMetaFetch(t)
    \/ FetchReply(t)
    \/ RegisterMetadata(t)
    \/ StoreClaim(t)

Next ==
    \/ \E p \in Peers : PeerUpdates(p) \/ PeerResets(p)
    \/ \E t \in Threads, p \in Peers : PingStart(t, p) \/ PongStart(t, p) \/ ReqStart(t, p)
    \/ \E t \in Threads : Runs(t)
    \/ Crash
    \/ Close

Spec == Init /\ [][Next]_vars

\* Threads run and the book's lock is fair; poll pings every connected peer again
\* and again. Of the peer, that it does not leave every request unanswered.
Fairness ==
    /\ \A t \in Threads : SF_vars(Runs(t)) /\ SF_vars(PingReply(t)) /\ SF_vars(FetchReply(t))
    /\ \A p \in Peers : SF_vars(\E t \in Threads : PingStart(t, p))

FairSpec == Spec /\ Fairness
-----------------------------------------------------------------------------
(* Properties. *)

\* metadata.go:24: "Track metadata with highest sequence number". Whatever order
\* answers arrive in, whatever a reset peer sends, and through crashes, failed
\* Puts and the flush of Close, the stored metadata of a peer never gets older,
\* and what the running book answers never does.
MetaMonotone ==
    [][\A p \in Peers :
        /\ dsMeta'[p] >= dsMeta[p]
        /\ restarts' = restarts => metadata(p)' >= metadata(p)]_vars

Book == INSTANCE DurableBook WITH
            Numbers <- Seqs,
            Nothing <- None,
            known <- [p \in Peers |-> metadata(p)],
            stored <- dsMeta

\* metadata.go:43-61, 89-113, 145-194: a cache that is filled lazily, Puts that may fail, and
\* a flush of what is cached look like one book that only learns, and that a restart
\* takes back to what was stored: not further, and for every peer by itself.
ImplementsBook == Book!BookSpec

\* Between two satisfying answers, at most MaxTries updates of a peer are started
\* (ping.go:82-83, pong.go:76-77), however many pings and pongs run at once; the ones
\* forced by --force-update do not count.
TriesBounded == \A p \in Peers : tries[p] <= MaxTries

\* Once the book knows that its metadata is behind, it catches up, or it runs out
\* of tries, or the peer went back and no longer has what it claimed.
MetaCatchesUp ==
    \A p \in Peers :
        (metadata(p) < claimedSeq(p)) ~>
            \/ metadata(p) >= claimedSeq(p)
            \/ fetches[p] > MaxTries
            \/ seq[p] < claimedSeq(p)

\* metadata.go:26: "highest claimed seq nr, we may not have the actual corresponding
\* metadata yet". While the program runs, no older claim, answer or lazy load of two
\* goroutines takes the highest claim of a peer away. A restart may: RegisterMetadata
\* then compares with an empty cache (metadata.go:159).
ClaimIsHighest == \A p \in Peers : Free /\ restarts = 0 => claimedSeq(p) >= highest[p]
=============================================================================
