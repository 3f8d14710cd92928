--------------------------- MODULE MetadataProofs ---------------------------
(***************************************************************************)
(* What holds of Metadata for every number of peers, goroutines, sequence  *)
(* numbers, tries, restarts and resets, and whether or not Puts may fail.  *)
(***************************************************************************)
EXTENDS Metadata, TLAPS

-----------------------------------------------------------------------------
(* The inductive invariant. *)

\* The cache is never behind the datastore: a Put follows a write of the cache, and
\* a lazy load fills the cache from the datastore.
CacheAhead == \A p \in Peers : metadatas[p] # None => metadatas[p] >= dsMeta[p]

\* Updates are only started after they were counted, and both counts start again
\* with the same answers.
TriesCounted == \A p \in Peers : tries[p] <= fetches[p]

\* Until a restart the cache has the highest claim.
CachedIsHighest == restarts = 0 => \A p \in Peers : claims[p] >= highest[p]

Inv ==
    /\ TypeOK
    /\ CacheAhead
    /\ TriesCounted
    /\ TriesBounded
    /\ CachedIsHighest
-----------------------------------------------------------------------------
(* Types. *)

LEMMA AnyPeerIsPeer == AnyPeer \in Peers
BY MetadataAssumption DEF AnyPeer

\* The book gives a sequence number or None.
LEMMA BookTypes ==
    ASSUME TypeOK, NEW p \in Peers
    PROVE  metadata(p) \in Seqs \cup {None} /\ claimedSeq(p) \in Seqs \cup {None}
BY DEF TypeOK, metadata, claimedSeq

\* A Put leaves one of two numbers.
LEMMA PutType ==
    ASSUME NEW old, NEW new, NEW r \in Put(old, new)
    PROVE  r \in {old, new}
BY DEF Put

LEMMA ReturnType ==
    ASSUME TypeOK, NEW t \in Threads, Return(t)
    PROVE  TypeOK!8' /\ TypeOK!9' /\ TypeOK!10'
BY AnyPeerIsPeer, MetadataAssumption DEF TypeOK, Return, Seqs

LEMMA InitInv == Init => Inv
<1> SUFFICES ASSUME Init PROVE Inv
  OBVIOUS
<1>1. TypeOK
  BY AnyPeerIsPeer, MetadataAssumption DEF Init, TypeOK, Seqs, None
<1>2. CacheAhead /\ TriesCounted /\ TriesBounded /\ CachedIsHighest
  BY MetadataAssumption DEF Init, CacheAhead, TriesCounted, TriesBounded, CachedIsHighest, None
<1> QED
  BY <1>1, <1>2 DEF Inv

\* Every step keeps the types.
LEMMA StepType == TypeOK /\ [Next]_vars => TypeOK'
<1> SUFFICES ASSUME TypeOK, [Next]_vars PROVE TypeOK'
  OBVIOUS
<1> USE MetadataAssumption, AnyPeerIsPeer
<1> USE DEF cacheVars, storeVars, threadVars, countVars
<1>1. ASSUME NEW p \in Peers, PeerUpdates(p) PROVE TypeOK'
  BY <1>1 DEF TypeOK, PeerUpdates, Seqs
<1>2. ASSUME NEW p \in Peers, PeerResets(p) PROVE TypeOK'
  BY <1>2 DEF TypeOK, PeerResets, Seqs
<1>3. ASSUME NEW t \in Threads, NEW p \in Peers, PingStart(t, p) PROVE TypeOK'
  BY <1>3 DEF TypeOK, PingStart, Goto
<1>4. ASSUME NEW t \in Threads, NEW p \in Peers, PongStart(t, p) PROVE TypeOK'
  BY <1>4 DEF TypeOK, PongStart, Goto
<1>5. ASSUME NEW t \in Threads, NEW p \in Peers, ReqStart(t, p) PROVE TypeOK'
  BY <1>5 DEF TypeOK, ReqStart, Goto
<1>6. ASSUME NEW t \in Threads, PingReply(t) PROVE TypeOK'
  BY <1>6 DEF TypeOK, PingReply, Goto
<1>7. ASSUME NEW t \in Threads, PingRefused(t) PROVE TypeOK'
  BY <1>7 DEF TypeOK, PingRefused, Goto
<1>8. ASSUME NEW t \in Threads, RequestFails(t) PROVE TypeOK'
  BY <1>8, ReturnType DEF TypeOK, RequestFails
<1>9. ASSUME NEW t \in Threads, RegisterSeqClaim(t) PROVE TypeOK'
  <2>1. target[t] \in Peers /\ val[t] \in Seqs
    BY DEF TypeOK
  <2>2. PICK r \in Put(dsClaim[target[t]], val[t]) :
          dsClaim' = [dsClaim EXCEPT ![target[t]] =
                        IF NewerClaim(target[t], val[t]) THEN r ELSE @]
    BY <1>9 DEF RegisterSeqClaim
  <2>3. dsClaim' \in [Peers -> Seqs \cup {None}]
    BY <2>1, <2>2 DEF TypeOK, Put
  <2>4. claims' \in [Peers -> Seqs \cup {None}] /\ highest' \in [Peers -> Seqs \cup {None}]
    BY <1>9, <2>1, BookTypes DEF TypeOK, RegisterSeqClaim
  <2> QED
    BY <1>9, <2>3, <2>4 DEF TypeOK, RegisterSeqClaim, Goto
<1>10. ASSUME NEW t \in Threads, Look(t) PROVE TypeOK'
  <2>1. metadatas' \in [Peers -> Seqs \cup {None}]
    BY <1>10, BookTypes DEF TypeOK, Look
  <2>2. TypeOK!8' /\ TypeOK!9' /\ TypeOK!10'
    BY <1>10, ReturnType DEF TypeOK, Look, Goto
  <2> QED
    BY <1>10, <2>1, <2>2 DEF TypeOK, Look
<1>11. ASSUME NEW t \in Threads, LookForced(t) PROVE TypeOK'
  BY <1>11 DEF TypeOK, LookForced, Goto
<1>12. ASSUME NEW t \in Threads, RegisterMetaFetch(t) PROVE TypeOK'
  <2>1. TypeOK!8' /\ TypeOK!9' /\ TypeOK!10'
    BY <1>12, ReturnType DEF TypeOK, RegisterMetaFetch, Goto
  <2>2. fetches' \in [Peers -> 0..(MaxTries + 1)] /\ tries' \in [Peers -> 0..(MaxTries + 1)]
    BY <1>12 DEF TypeOK, RegisterMetaFetch, UpTo
  <2> QED
    BY <1>12, <2>1, <2>2 DEF TypeOK, RegisterMetaFetch
<1>13. ASSUME NEW t \in Threads, FetchReply(t) PROVE TypeOK'
  BY <1>13 DEF TypeOK, FetchReply, Goto
<1>14. ASSUME NEW t \in Threads, RegisterMetadata(t) PROVE TypeOK'
  <2>1. target[t] \in Peers /\ val[t] \in Seqs
    BY DEF TypeOK
  <2>2. CASE Newer(target[t], val[t])
    <3>1. PICK r \in Put(dsMeta[target[t]], val[t]) : dsMeta' = [dsMeta EXCEPT ![target[t]] = r]
      BY <1>14, <2>2 DEF RegisterMetadata
    <3>2. dsMeta' \in [Peers -> Seqs \cup {None}]
      BY <2>1, <3>1 DEF TypeOK, Put
    <3>3. metadatas' \in [Peers -> Seqs \cup {None}]
      BY <1>14, <2>1, <2>2 DEF TypeOK, RegisterMetadata
    <3>4. fetches' \in [Peers -> 0..(MaxTries + 1)] /\ tries' \in [Peers -> 0..(MaxTries + 1)]
      BY <1>14, <2>1, <2>2 DEF TypeOK, RegisterMetadata
    <3> QED
      BY <1>14, <2>2, <3>2, <3>3, <3>4 DEF TypeOK, RegisterMetadata, Goto
  <2>3. CASE ~Newer(target[t], val[t])
    <3>1. metadatas' \in [Peers -> Seqs \cup {None}]
      BY <1>14, <2>1, <2>3, BookTypes DEF TypeOK, RegisterMetadata
    <3> QED
      BY <1>14, <2>3, <3>1, ReturnType DEF TypeOK, RegisterMetadata
  <2> QED
    BY <2>2, <2>3
<1>15. ASSUME NEW t \in Threads, StoreClaim(t) PROVE TypeOK'
  <2>1. target[t] \in Peers /\ val[t] \in Seqs
    BY DEF TypeOK
  <2>2. claims' \in [Peers -> Seqs \cup {None}]
    BY <1>15, <2>1 DEF TypeOK, StoreClaim
  <2>3. dsClaim' \in [Peers -> Seqs \cup {None}]
    <3>1. CASE val[t] > CachedClaim(target[t])
      <4>1. PICK r \in Put(dsClaim[target[t]], val[t]) :
              dsClaim' = [dsClaim EXCEPT ![target[t]] = r]
        BY <1>15, <3>1 DEF StoreClaim
      <4> QED
        BY <2>1, <4>1 DEF TypeOK, Put
    <3>2. CASE ~(val[t] > CachedClaim(target[t]))
      BY <1>15, <3>2 DEF StoreClaim, TypeOK
    <3> QED
      BY <3>1, <3>2
  <2> QED
    BY <1>15, <2>2, <2>3, ReturnType DEF TypeOK, StoreClaim
<1>16. ASSUME Restart, dsClaim' \in [Peers -> Seqs \cup {None}], dsMeta' \in [Peers -> Seqs \cup {None}]
       PROVE  TypeOK'
  BY <1>16 DEF TypeOK, Restart, Seqs
<1>17. CASE Crash
  BY <1>16, <1>17 DEF Crash, TypeOK
<1>18. CASE Close
  BY <1>16, <1>18 DEF Close, Flushed
<1>19. CASE UNCHANGED vars
  BY <1>19 DEF TypeOK, vars
<1> QED
  BY <1>1, <1>2, <1>3, <1>4, <1>5, <1>6, <1>7, <1>8, <1>9, <1>10, <1>11, <1>12, <1>13,
     <1>14, <1>15, <1>17, <1>18, <1>19 DEF Next, Runs
-----------------------------------------------------------------------------
(* What the book knows. *)

\* The steps that leave the metadata of the book as it is.
LEMMA BookKept ==
    ASSUME UNCHANGED <<metadatas, dsMeta>>, NEW p \in Peers
    PROVE  metadata(p)' = metadata(p)
BY DEF metadata

\* No step makes the metadata of a peer older, in the datastore or in the book,
\* and the cache stays ahead of the datastore.
LEMMA StepMeta ==
    ASSUME TypeOK, TypeOK', CacheAhead, [Next]_vars
    PROVE  /\ CacheAhead'
           /\ \A p \in Peers :
                /\ dsMeta'[p] >= dsMeta[p]
                /\ restarts' = restarts => metadata(p)' >= metadata(p)
<1> USE MetadataAssumption
<1> USE DEF cacheVars, storeVars, threadVars, countVars
<1>0. /\ metadatas \in [Peers -> Seqs \cup {None}] /\ dsMeta \in [Peers -> Seqs \cup {None}]
      /\ Seqs \cup {None} \subseteq Int
      /\ \A n \in Seqs \cup {None} : n >= None
  BY DEF TypeOK, Seqs, None
<1>1. ASSUME UNCHANGED <<metadatas, dsMeta, restarts>>
      PROVE  /\ CacheAhead'
             /\ \A p \in Peers : dsMeta'[p] >= dsMeta[p] /\ metadata(p)' >= metadata(p)
  BY <1>0, <1>1, BookKept, BookTypes DEF CacheAhead
<1>2. ASSUME NEW q \in Peers, metadatas' = [metadatas EXCEPT ![q] = metadata(q)],
             UNCHANGED <<dsMeta, restarts>>
      PROVE  /\ CacheAhead'
             /\ \A p \in Peers : dsMeta'[p] >= dsMeta[p] /\ metadata(p)' >= metadata(p)
  BY <1>0, <1>2 DEF CacheAhead, metadata
<1>3. ASSUME NEW t \in Threads, Look(t)
      PROVE  /\ CacheAhead'
             /\ \A p \in Peers : dsMeta'[p] >= dsMeta[p] /\ metadata(p)' >= metadata(p)
  BY <1>2, <1>3 DEF Look, TypeOK
<1>4. ASSUME NEW t \in Threads, RegisterMetadata(t)
      PROVE  /\ CacheAhead'
             /\ \A p \in Peers : dsMeta'[p] >= dsMeta[p] /\ metadata(p)' >= metadata(p)
  <2> DEFINE q == target[t]
  <2>1. q \in Peers /\ val[t] \in Seqs
    BY DEF TypeOK
  <2>2. CASE Newer(q, val[t])
    <3>1. PICK r \in Put(dsMeta[q], val[t]) : dsMeta' = [dsMeta EXCEPT ![q] = r]
      BY <1>4, <2>2 DEF RegisterMetadata
    <3>2. r \in {dsMeta[q], val[t]}
      BY <3>1, PutType
    <3>3. metadatas' = [metadatas EXCEPT ![q] = val[t]]
      BY <1>4, <2>2 DEF RegisterMetadata
    <3>4. metadata(q) < val[t] /\ dsMeta[q] <= metadata(q)
      BY <1>0, <2>1, <2>2 DEF Newer, metadata, CacheAhead
    <3> QED
      BY <1>0, <2>1, <3>1, <3>2, <3>3, <3>4 DEF CacheAhead, metadata, Seqs, None
  <2>3. CASE ~Newer(q, val[t])
    BY <1>2, <1>4, <2>1, <2>3 DEF RegisterMetadata
  <2> QED
    BY <2>2, <2>3
<1>5. CASE Crash
  <2>1. /\ metadatas' = [p \in Peers |-> None] /\ restarts' = restarts + 1
        /\ UNCHANGED dsMeta /\ restarts \in Nat
    BY <1>5 DEF Crash, Restart, TypeOK
  <2> QED
    BY <1>0, <2>1 DEF CacheAhead
<1>6. CASE Close
  <2>1. /\ metadatas' = [p \in Peers |-> None] /\ restarts' = restarts + 1
        /\ dsMeta' \in Flushed(metadatas, dsMeta) /\ restarts \in Nat
    BY <1>6 DEF Close, Restart, TypeOK
  <2>2. ASSUME NEW p \in Peers PROVE dsMeta'[p] >= dsMeta[p]
    BY <1>0, <2>1, PutType DEF Flushed, CacheAhead
  <2> QED
    BY <2>1, <2>2 DEF CacheAhead
<1>7. ASSUME NEW p \in Peers, PeerUpdates(p) \/ PeerResets(p)
      PROVE  UNCHANGED <<metadatas, dsMeta, restarts>>
  BY <1>7 DEF PeerUpdates, PeerResets
<1>8. ASSUME NEW t \in Threads, NEW p \in Peers, PingStart(t, p) \/ PongStart(t, p) \/ ReqStart(t, p)
      PROVE  UNCHANGED <<metadatas, dsMeta, restarts>>
  BY <1>8 DEF PingStart, PongStart, ReqStart
<1>9. ASSUME NEW t \in Threads, Runs(t)
      PROVE  \/ UNCHANGED <<metadatas, dsMeta, restarts>>
             \/ Look(t) \/ RegisterMetadata(t)
  BY <1>9 DEF Runs, PingReply, PingRefused, RequestFails, RegisterSeqClaim, LookForced,
              RegisterMetaFetch, FetchReply, StoreClaim
<1>10. CASE UNCHANGED vars
  BY <1>1, <1>10 DEF vars
<1> QED
  BY <1>1, <1>3, <1>4, <1>5, <1>6, <1>7, <1>8, <1>9, <1>10 DEF Next
-----------------------------------------------------------------------------
(* Tries. *)

\* A try is counted before it is started, and compared with what it was counted to.
LEMMA StepTries ==
    ASSUME TypeOK, TriesCounted, TriesBounded, [Next]_vars
    PROVE  TriesCounted' /\ TriesBounded'
<1> USE MetadataAssumption
<1> USE DEF cacheVars, storeVars, threadVars, countVars
<1>1. ASSUME UNCHANGED <<fetches, tries>> PROVE TriesCounted' /\ TriesBounded'
  BY <1>1 DEF TriesCounted, TriesBounded
<1>2. ASSUME NEW t \in Threads, RegisterMetaFetch(t) PROVE TriesCounted' /\ TriesBounded'
  <2> DEFINE q == target[t]
  <2>1. q \in Peers /\ fetches \in [Peers -> 0..(MaxTries + 1)] /\ tries \in [Peers -> 0..(MaxTries + 1)]
    BY DEF TypeOK
  <2>2. fetches' = [fetches EXCEPT ![q] = UpTo(@ + 1)]
    BY <1>2 DEF RegisterMetaFetch
  <2>3. CASE Counted(q) <= MaxTries
    <3>1. tries' = [tries EXCEPT ![q] = UpTo(@ + 1)]
      BY <1>2, <2>3 DEF RegisterMetaFetch
    <3> QED
      BY <2>1, <2>2, <2>3, <3>1 DEF TriesCounted, TriesBounded, UpTo, Counted
  <2>4. CASE ~(Counted(q) <= MaxTries)
    BY <1>2, <2>1, <2>2, <2>4 DEF RegisterMetaFetch, TriesCounted, TriesBounded, UpTo
  <2> QED
    BY <2>3, <2>4
<1>3. ASSUME NEW t \in Threads, RegisterMetadata(t) PROVE TriesCounted' /\ TriesBounded'
  <2> DEFINE q == target[t]
  <2>1. q \in Peers /\ fetches \in [Peers -> 0..(MaxTries + 1)] /\ tries \in [Peers -> 0..(MaxTries + 1)]
    BY DEF TypeOK
  <2>2. CASE Newer(q, val[t])
    BY <1>3, <2>1, <2>2 DEF RegisterMetadata, Satisfies, TriesCounted, TriesBounded
  <2>3. CASE ~Newer(q, val[t])
    BY <1>1, <1>3, <2>3 DEF RegisterMetadata
  <2> QED
    BY <2>2, <2>3
<1>4. ASSUME Restart PROVE TriesCounted' /\ TriesBounded'
  BY <1>4 DEF Restart, TriesCounted, TriesBounded
<1>5. ASSUME NEW p \in Peers, PeerUpdates(p) \/ PeerResets(p) PROVE UNCHANGED <<fetches, tries>>
  BY <1>5 DEF PeerUpdates, PeerResets
<1>6. ASSUME NEW t \in Threads, NEW p \in Peers, PingStart(t, p) \/ PongStart(t, p) \/ ReqStart(t, p)
      PROVE  UNCHANGED <<fetches, tries>>
  BY <1>6 DEF PingStart, PongStart, ReqStart
<1>7. ASSUME NEW t \in Threads, Runs(t)
      PROVE  UNCHANGED <<fetches, tries>> \/ RegisterMetaFetch(t) \/ RegisterMetadata(t)
  BY <1>7 DEF Runs, PingReply, PingRefused, RequestFails, RegisterSeqClaim, Look, LookForced,
              FetchReply, StoreClaim
<1>8. CASE UNCHANGED vars
  BY <1>1, <1>8 DEF vars
<1> QED
  BY <1>1, <1>2, <1>3, <1>4, <1>5, <1>6, <1>7, <1>8 DEF Next, Crash, Close
-----------------------------------------------------------------------------
(* Claims. *)

\* Until a restart, claims in the cache only go up, and with the highest one.
LEMMA StepClaims ==
    ASSUME TypeOK, TypeOK', CachedIsHighest, [Next]_vars
    PROVE  CachedIsHighest'
<1> USE MetadataAssumption
<1> USE DEF cacheVars, storeVars, threadVars, countVars
<1>0. /\ claims \in [Peers -> Seqs \cup {None}] /\ highest \in [Peers -> Seqs \cup {None}]
      /\ Seqs \cup {None} \subseteq Int
      /\ \A n \in Seqs \cup {None} : n >= None
  BY DEF TypeOK, Seqs, None
<1>1. ASSUME UNCHANGED <<claims, highest, restarts>> PROVE CachedIsHighest'
  BY <1>1 DEF CachedIsHighest
<1>2. ASSUME NEW t \in Threads, RegisterSeqClaim(t) PROVE CachedIsHighest'
  <2> SUFFICES ASSUME restarts = 0 PROVE \A p \in Peers : claims'[p] >= highest'[p]
    BY <1>2 DEF RegisterSeqClaim, CachedIsHighest
  <2> DEFINE q == target[t]
  <2>1. q \in Peers /\ val[t] \in Seqs /\ claimedSeq(q) \in Seqs \cup {None}
    BY BookTypes DEF TypeOK
  <2>2. claimedSeq(q) >= highest[q]
    BY <1>0, <2>1 DEF CachedIsHighest, claimedSeq
  <2>3. /\ claims' = [claims EXCEPT ![q] = IF claimedSeq(q) < val[t] THEN val[t] ELSE claimedSeq(q)]
        /\ highest' = [highest EXCEPT ![q] = IF @ < val[t] THEN val[t] ELSE @]
    BY <1>2 DEF RegisterSeqClaim, NewerClaim
  <2> QED
    BY <1>0, <2>1, <2>2, <2>3 DEF CachedIsHighest
<1>3. ASSUME NEW t \in Threads, StoreClaim(t) PROVE CachedIsHighest'
  <2> DEFINE q == target[t]
  <2>1. q \in Peers /\ val[t] \in Seqs
    BY DEF TypeOK
  <2>2. CASE val[t] > CachedClaim(q)
    <3>1. claims' = [claims EXCEPT ![q] = val[t]] /\ UNCHANGED <<highest, restarts>>
      BY <1>3, <2>2 DEF StoreClaim
    <3>2. val[t] > claims[q]
      BY <1>0, <2>1, <2>2 DEF CachedClaim, Seqs, None
    <3> QED
      BY <1>0, <2>1, <3>1, <3>2 DEF CachedIsHighest
  <2>3. CASE ~(val[t] > CachedClaim(q))
    BY <1>1, <1>3, <2>3 DEF StoreClaim
  <2> QED
    BY <2>2, <2>3
<1>4. ASSUME Restart PROVE CachedIsHighest'
  BY <1>4 DEF Restart, CachedIsHighest, TypeOK
<1>5. ASSUME NEW p \in Peers, PeerUpdates(p) \/ PeerResets(p)
      PROVE  UNCHANGED <<claims, highest, restarts>>
  BY <1>5 DEF PeerUpdates, PeerResets
<1>6. ASSUME NEW t \in Threads, NEW p \in Peers, PingStart(t, p) \/ PongStart(t, p) \/ ReqStart(t, p)
      PROVE  UNCHANGED <<claims, highest, restarts>>
  BY <1>6 DEF PingStart, PongStart, ReqStart
<1>7. ASSUME NEW t \in Threads, Runs(t)
      PROVE  UNCHANGED <<claims, highest, restarts>> \/ RegisterSeqClaim(t) \/ StoreClaim(t)
  BY <1>7 DEF Runs, PingReply, PingRefused, RequestFails, Look, LookForced, RegisterMetaFetch,
              FetchReply, RegisterMetadata
<1>8. CASE UNCHANGED vars
  BY <1>1, <1>8 DEF vars
<1> QED
  BY <1>1, <1>2, <1>3, <1>4, <1>5, <1>6, <1>7, <1>8 DEF Next, Crash, Close
-----------------------------------------------------------------------------
(* The theorems. *)

\* The inductive invariant holds in every reachable state.
THEOREM Invariance == Spec => []Inv
<1>1. Inv /\ [Next]_vars => Inv'
  BY StepType, StepMeta, StepTries, StepClaims DEF Inv
<1> QED
  BY <1>1, InitInv, PTL DEF Spec

\* RegisterMetadata, the lazy load, the flush of Close and crashes never replace the
\* metadata of a peer by an older one.
THEOREM MetadataOnlyGrows == Spec => MetaMonotone
<1>1. Inv /\ Inv' /\ [Next]_vars
        => [\A p \in Peers :
              /\ dsMeta'[p] >= dsMeta[p]
              /\ restarts' = restarts => metadata(p)' >= metadata(p)]_vars
  BY StepMeta DEF Inv
<1> QED
  BY <1>1, Invariance, PTL DEF Spec, MetaMonotone

\* RegisterMetaFetch: however many pings and pongs run at once, no more than MaxTries
\* updates of a peer are started between two satisfying answers.
THEOREM TriesAreBounded == Spec => []TriesBounded
<1>1. Inv => TriesBounded
  BY DEF Inv
<1> QED
  BY <1>1, Invariance, PTL

\* RegisterSeqClaim and RegisterMetadata: until the program is restarted the book
\* answers with the highest sequence number that a peer claimed.
THEOREM HighestClaimKept == Spec => []ClaimIsHighest
<1>1. Inv => ClaimIsHighest
  <2> SUFFICES ASSUME Inv, NEW p \in Peers, restarts = 0 PROVE claimedSeq(p) >= highest[p]
    BY DEF ClaimIsHighest
  <2> QED
    BY MetadataAssumption DEF Inv, TypeOK, CachedIsHighest, claimedSeq, Seqs, None
<1> QED
  BY <1>1, Invariance, PTL
-----------------------------------------------------------------------------
(* Metadata implements DurableBook. *)

\* What the book answers is a function of the cache and the datastore.
LEMMA BookSame ==
    ASSUME UNCHANGED <<metadatas, dsMeta>>
    PROVE  UNCHANGED Book!bookVars
BY DEF Book!bookVars, metadata

\* A lazy load changes no answer.
LEMMA LoadSame ==
    ASSUME TypeOK, NEW q \in Peers, metadatas' = [metadatas EXCEPT ![q] = metadata(q)],
           UNCHANGED dsMeta
    PROVE  UNCHANGED Book!bookVars
<1>1. ASSUME NEW p \in Peers PROVE metadata(p)' = metadata(p)
  BY DEF TypeOK, metadata
<1> QED
  BY <1>1 DEF Book!bookVars

\* RegisterMetadata learns, or it finds that it knows better.
LEMMA RegisterLearns ==
    ASSUME TypeOK, NEW t \in Threads, RegisterMetadata(t)
    PROVE  (\E p \in Peers, n \in Seqs : Book!Learn(p, n)) \/ UNCHANGED Book!bookVars
<1>1. PICK q \in Peers, n \in Seqs : q = target[t] /\ n = val[t]
  BY DEF TypeOK
<1>2. CASE Newer(q, n)
  <2>1. PICK r \in Put(dsMeta[q], n) : dsMeta' = [dsMeta EXCEPT ![q] = r]
    BY <1>1, <1>2 DEF RegisterMetadata
  <2>2. dsMeta' \in {dsMeta, [dsMeta EXCEPT ![q] = n]}
    <3>1. r = dsMeta[q] \/ r = n
      BY <2>1 DEF Put
    <3>2. dsMeta = [dsMeta EXCEPT ![q] = dsMeta[q]]
      BY DEF TypeOK
    <3> QED
      BY <2>1, <3>1, <3>2
  <2>3. metadatas' = [metadatas EXCEPT ![q] = n]
    BY <1>1, <1>2 DEF RegisterMetadata
  <2>4. ASSUME NEW p \in Peers PROVE metadata(p)' = IF p = q THEN n ELSE metadata(p)
    BY <2>1, <2>3 DEF TypeOK, metadata, Seqs, None
  <2>5. [p \in Peers |-> metadata(p)]' = [[p \in Peers |-> metadata(p)] EXCEPT ![q] = n]
    BY <2>4
  <2>6. metadata(q) < n
    BY <1>2 DEF Newer
  <2>7. Book!Learn(q, n)
    BY <2>2, <2>5, <2>6 DEF Book!Learn
  <2> QED
    BY <2>7
<1>3. CASE ~Newer(q, n)
  BY <1>1, <1>3, LoadSame DEF RegisterMetadata
<1> QED
  BY <1>2, <1>3

\* After a restart the cache is empty, and the book answers with what is stored: what
\* was stored before, or what the flush of Close stored.
LEMMA RestartReopens ==
    ASSUME TypeOK, Crash \/ Close
    PROVE  Book!Reopen
<1>1. metadatas' = [p \in Peers |-> None]
  BY DEF Crash, Close, Restart
<1>2. [p \in Peers |-> metadata(p)]' = dsMeta' /\ dsMeta' = [p \in Peers |-> dsMeta'[p]]
  <2>1. dsMeta' \in [Peers -> Seqs \cup {None}]
    BY DEF TypeOK, Crash, Close, Flushed, storeVars
  <2>2. ASSUME NEW p \in Peers PROVE metadata(p)' = dsMeta'[p]
    BY <1>1 DEF metadata
  <2> QED
    BY <2>1, <2>2
<1>3. ASSUME NEW p \in Peers PROVE dsMeta'[p] \in {dsMeta[p], metadata(p)}
  <2>1. CASE Crash
    BY <2>1 DEF Crash, storeVars
  <2>2. CASE Close
    <3>1. dsMeta' \in Flushed(metadatas, dsMeta)
      BY <2>2 DEF Close
    <3>2. CASE metadatas[p] = None
      BY <3>1, <3>2 DEF Flushed
    <3>3. CASE metadatas[p] # None
      BY <3>1, <3>3, PutType DEF Flushed, metadata
    <3> QED
      BY <3>2, <3>3
  <2> QED
    BY <2>1, <2>2
<1> QED
  BY <1>2, <1>3 DEF Book!Reopen

\* The book with its lazy cache, failing Puts and flush is a DurableBook: it only
\* learns, and a restart takes it back to what was stored.
THEOREM BookIsDurable == Spec => ImplementsBook
<1>1. Init => Book!BookInit
  BY DEF Init, Book!BookInit, metadata
<1>2. Inv /\ [Next]_vars => [Book!BookNext]_(Book!bookVars)
  <2> SUFFICES ASSUME TypeOK, [Next]_vars PROVE [Book!BookNext]_(Book!bookVars)
    BY DEF Inv
  <2>1. CASE Crash \/ Close
    BY <2>1, RestartReopens DEF Book!BookNext
  <2>2. ASSUME NEW t \in Threads, RegisterMetadata(t) PROVE [Book!BookNext]_(Book!bookVars)
    BY <2>2, RegisterLearns DEF Book!BookNext
  <2>3. ASSUME NEW t \in Threads, Look(t) PROVE UNCHANGED Book!bookVars
    <3>1. PICK q \in Peers : q = target[t]
      BY DEF TypeOK
    <3> QED
      BY <2>3, <3>1, LoadSame DEF Look, storeVars
  <2>4. \/ UNCHANGED <<metadatas, dsMeta>>
        \/ Crash \/ Close
        \/ \E t \in Threads : Look(t) \/ RegisterMetadata(t)
    <3> USE DEF cacheVars, storeVars
    <3>1. ASSUME NEW p \in Peers, PeerUpdates(p) \/ PeerResets(p) PROVE UNCHANGED <<metadatas, dsMeta>>
      BY <3>1 DEF PeerUpdates, PeerResets
    <3>2. ASSUME NEW t \in Threads, NEW p \in Peers, PingStart(t, p) \/ PongStart(t, p) \/ ReqStart(t, p)
          PROVE  UNCHANGED <<metadatas, dsMeta>>
      BY <3>2 DEF PingStart, PongStart, ReqStart
    <3>3. ASSUME NEW t \in Threads, Runs(t)
          PROVE  UNCHANGED <<metadatas, dsMeta>> \/ Look(t) \/ RegisterMetadata(t)
      BY <3>3 DEF Runs, PingReply, PingRefused, RequestFails, RegisterSeqClaim, LookForced,
                  RegisterMetaFetch, FetchReply, StoreClaim
    <3>4. CASE UNCHANGED vars
      BY <3>4 DEF vars
    <3> QED
      BY <3>1, <3>2, <3>3, <3>4 DEF Next
  <2> QED
    BY <2>1, <2>2, <2>3, <2>4, BookSame
<1> QED
  BY <1>1, <1>2, Invariance, PTL DEF Spec, ImplementsBook, Book!BookSpec
=============================================================================
