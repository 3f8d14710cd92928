----------------------------- MODULE RpcProofs -----------------------------
(***************************************************************************)
(* What holds of Rpc for every number of listeners, streams and sessions,  *)
(* all request sizes and limits, with compression or without it.           *)
(***************************************************************************)
EXTENDS Rpc, TLAPS

-----------------------------------------------------------------------------
(* The inductive invariant. *)

\* A handler that took a key and has not returned.
Holding(s) == spc[s] \in {"store", "step", "wait"}

\* Every key that is in use anywhere was taken from the counter: by a handler, in
\* Requests, or by a session that runs resp or close.
KeysAreTaken ==
    /\ \A s \in Streams : Holding(s) => key[s] < counter
    /\ \A k \in Keys : requests[k] # 0 => k < counter
    /\ \A c \in Sessions : cpc[c] # "idle" => ckey[c] < counter

\* A key that was taken and not stored yet is known to nobody else.
NewKeysAreFresh ==
    \A s \in Streams : spc[s] = "store" =>
        /\ \A r \in Streams : r # s /\ Holding(r) => key[r] # key[s]
        /\ requests[key[s]] = 0
        /\ \A c \in Sessions : cpc[c] # "idle" => ckey[c] # key[s]

\* The handler has not stored its request yet.
Early(s) == spc[s] \in {"none", "length", "adjust", "listen", "store"}

\* A request is stored once: before that it is in no entry and not cancelled, and
\* then under one key. A session deletes what is cancelled.
EntryInv ==
    /\ \A s \in Streams : Early(s) => ~cancelled[s] /\ \A k \in Keys : requests[k] # s
    /\ \A j, k \in Keys : requests[j] = requests[k] /\ requests[k] # 0 => j = k
    /\ \A c \in Sessions : cpc[c] = "delete" => EntryOf(ckey[c]) = 0

Inv ==
    /\ TypeOK
    /\ EntryInv
    /\ KeysAreTaken
    /\ NewKeysAreFresh
    /\ Answerable
    /\ ClosesItsOwn
-----------------------------------------------------------------------------
(* Types. *)

LEMMA ZeroIsKey == 0 \in Keys
BY RpcAssumption DEF Keys

LEMMA KeysAndStreams == (\A k \in Keys : k \in Nat) /\ (\A s \in Streams : s \in Nat /\ s # 0)
BY RpcAssumption DEF Keys, Streams

\* snappy needs a natural number of bytes for a natural number of bytes.
LEMMA EncodedLenType == ASSUME NEW n \in Nat PROVE MaxEncodedLen(n) \in Nat
BY DEF MaxEncodedLen

LEMMA FinishType ==
    ASSUME TypeOK, NEW c \in Sessions, Finish(c)
    PROVE  /\ cpc' \in [Sessions -> {"idle", "resp", "close", "delete"}]
           /\ ckey' \in [Sessions -> Keys]
           /\ centry' \in [Sessions -> Streams \cup {0}]
BY ZeroIsKey DEF TypeOK, Finish

LEMMA InitInv == Init => Inv
<1> SUFFICES ASSUME Init PROVE Inv
  OBVIOUS
<1>1. TypeOK
  BY ZeroIsKey, RpcAssumption DEF Init, TypeOK
<1>2. KeysAreTaken /\ NewKeysAreFresh /\ Answerable /\ ClosesItsOwn
  BY DEF Init, KeysAreTaken, NewKeysAreFresh, Answerable, ClosesItsOwn, Holding
<1>3. EntryInv
  BY KeysAndStreams DEF Init, EntryInv, Early
<1> QED
  BY <1>1, <1>2, <1>3 DEF Inv

\* Every step keeps the types.
LEMMA StepType == TypeOK /\ [Next]_vars => TypeOK'
<1> SUFFICES ASSUME TypeOK, [Next]_vars PROVE TypeOK'
  OBVIOUS
<1> USE DEF listenVars, streamVars, requestVars, sessVars
<1>1. ASSUME NEW l \in Listeners, Listener(l) PROVE TypeOK'
  <2>1. ASSUME NEW d \in BOOLEAN, Listen(l, d) PROVE TypeOK'
    BY <2>1 DEF TypeOK, Listen
  <2>2. CASE ListenReturn(l)
    BY <2>2 DEF TypeOK, ListenReturn
  <2>3. CASE StopCancel(l)
    BY <2>3 DEF TypeOK, StopCancel
  <2>4. CASE StopReturn(l)
    BY <2>4 DEF TypeOK, StopReturn
  <2>5. CASE CallOver(l)
    BY <2>5 DEF TypeOK, CallOver
  <2> QED
    BY <1>1, <2>1, <2>2, <2>3, <2>4, <2>5 DEF Listener
<1>2. ASSUME NEW s \in Streams, NEW sz \in Sizes \cup {NoLength}, Open(s, sz) PROVE TypeOK'
  BY <1>2 DEF TypeOK, Open, Goto
<1>3. ASSUME NEW s \in Streams, Handler(s) PROVE TypeOK'
  <2>1. CASE Judge(s)
    <3>1. flagged' \in [Streams -> BOOLEAN]
      BY <2>1 DEF TypeOK, Judge
    <3> QED
      BY <2>1, <3>1 DEF TypeOK, Judge, Goto
  <2>2. CASE Adjust(s)
    <3>1. limit' \in [Listeners -> Nat]
      BY <2>2, EncodedLenType DEF TypeOK, Adjust
    <3> QED
      BY <2>2, <3>1 DEF TypeOK, Adjust, Goto
  <2>3. CASE Drop(s)
    BY <2>3 DEF TypeOK, Drop, Goto
  <2>4. CASE AddKey(s)
    BY <2>4, RpcAssumption DEF TypeOK, AddKey, NextKey, Goto, Keys
  <2>5. CASE AddStore(s)
    BY <2>5 DEF TypeOK, AddStore, Goto
  <2>6. CASE StepRefused(s)
    BY <2>6 DEF TypeOK, StepRefused, Goto
  <2>7. CASE Responded(s)
    BY <2>7 DEF TypeOK, Responded, Goto
  <2> QED
    BY <1>3, <2>1, <2>2, <2>3, <2>4, <2>5, <2>6, <2>7 DEF Handler
<1>4. ASSUME NEW s \in Streams, StepTaken(s) PROVE TypeOK'
  BY <1>4 DEF TypeOK, StepTaken, Goto
<1>5. ASSUME NEW c \in Sessions, Command(c) PROVE TypeOK'
  <2>1. ASSUME NEW k \in Keys, NEW cmd \in {"resp", "close"}, GetRequest(c, k, cmd) PROVE TypeOK'
    BY <2>1 DEF TypeOK, GetRequest
  <2>2. ASSUME NEW done \in BOOLEAN, RespWrite(c, done) PROVE TypeOK'
    <3>1. CASE done
      BY <2>2, <3>1 DEF TypeOK, RespWrite
    <3>2. CASE ~done
      BY <2>2, <3>2, FinishType DEF TypeOK, RespWrite
    <3> QED
      BY <3>1, <3>2
  <2>3. CASE RespFails(c)
    BY <2>3, FinishType DEF TypeOK, RespFails
  <2>4. CASE CloseRequest(c)
    <3>1. CASE requests[ckey[c]] = 0
      BY <2>4, <3>1, FinishType DEF TypeOK, CloseRequest
    <3>2. CASE requests[ckey[c]] # 0
      BY <2>4, <3>2 DEF TypeOK, CloseRequest
    <3> QED
      BY <3>1, <3>2
  <2>5. CASE DeleteRequest(c)
    <3>1. requests' \in [Keys -> Streams \cup {0}]
      BY <2>5 DEF TypeOK, DeleteRequest
    <3> QED
      BY <2>5, <3>1, FinishType DEF TypeOK, DeleteRequest
  <2> QED
    BY <1>5, <2>1, <2>2, <2>3, <2>4, <2>5 DEF Command
<1>6. CASE UNCHANGED vars
  BY <1>6 DEF TypeOK, vars
<1> QED
  BY <1>1, <1>2, <1>3, <1>4, <1>5, <1>6 DEF Next
-----------------------------------------------------------------------------
(* Keys. *)

\* What a step has to leave alone so that the invariants about keys hold by themselves:
\* no handler comes to hold a key, none goes on from store to step.
KeysAlone ==
    /\ UNCHANGED <<requestVars, sessVars>>
    /\ \A s \in Streams : /\ Holding(s)' => Holding(s)
                          /\ Early(s)' => Early(s)
                          /\ spc'[s] = "store" <=> spc[s] = "store"
                          /\ spc'[s] \in {"step", "wait"} => spc[s] \in {"step", "wait"}

KeyInv == KeysAreTaken /\ NewKeysAreFresh /\ Answerable /\ ClosesItsOwn /\ EntryInv

LEMMA KeysAloneKeep == KeyInv /\ KeysAlone => KeyInv'
<1> SUFFICES ASSUME KeyInv, KeysAlone PROVE KeyInv'
  OBVIOUS
<1> USE DEF KeyInv, KeysAlone, requestVars, sessVars
<1>1. KeysAreTaken' /\ NewKeysAreFresh' /\ Answerable' /\ ClosesItsOwn'
  BY DEF KeysAreTaken, NewKeysAreFresh, Answerable, ClosesItsOwn, Holding
<1>2. EntryInv'
  BY DEF EntryInv, EntryOf
<1> QED
  BY <1>1, <1>2

\* The steps that do not touch keys.
LEMMA OtherSteps ==
    ASSUME TypeOK
    PROVE  /\ \A l \in Listeners : Listener(l) => KeysAlone
           /\ \A s \in Streams, sz \in Sizes \cup {NoLength} : Open(s, sz) => KeysAlone
           /\ \A s \in Streams : StepTaken(s) => KeysAlone
           /\ \A s \in Streams : Handler(s) => KeysAlone \/ AddKey(s) \/ AddStore(s)
<1> USE DEF KeysAlone, Holding, Early, Goto, TypeOK
<1>1. ASSUME NEW l \in Listeners, Listener(l) PROVE KeysAlone
  BY <1>1 DEF Listener, Listen, ListenReturn, StopCancel, StopReturn, CallOver, streamVars
<1>2. ASSUME NEW s \in Streams, NEW sz \in Sizes \cup {NoLength}, Open(s, sz) PROVE KeysAlone
  BY <1>2 DEF Open
<1>3. ASSUME NEW s \in Streams, StepTaken(s) PROVE KeysAlone
  BY <1>3 DEF StepTaken
<1>4. ASSUME NEW s \in Streams, Judge(s) PROVE KeysAlone
  BY <1>4 DEF Judge
<1>5. ASSUME NEW s \in Streams, Adjust(s) PROVE KeysAlone
  BY <1>5 DEF Adjust
<1>6. ASSUME NEW s \in Streams, Drop(s) \/ StepRefused(s) \/ Responded(s) PROVE KeysAlone
  BY <1>6 DEF Drop, StepRefused, Responded
<1> QED
  BY <1>1, <1>2, <1>3, <1>4, <1>5, <1>6 DEF Handler

\* AddRequest takes the counter as the key, which nobody has: all others are below.
LEMMA AddKeyKeeps ==
    ASSUME TypeOK, KeyInv, NEW s \in Streams, AddKey(s)
    PROVE  KeyInv'
<1> USE KeysAndStreams
<1>1. /\ key' = [key EXCEPT ![s] = counter] /\ counter' = counter + 1 /\ counter \in Keys
      /\ spc[s] = "listen" /\ spc' = [spc EXCEPT ![s] = "store"]
      /\ UNCHANGED <<requests, cancelled, sessVars>>
  BY DEF AddKey, NextKey, Goto
<1>2. /\ spc \in [Streams -> {"none", "length", "adjust", "listen", "store", "step", "wait", "done"}]
      /\ key \in [Streams -> Keys] /\ ckey \in [Sessions -> Keys] /\ counter \in Nat
      /\ requests \in [Keys -> Streams \cup {0}]
  BY RpcAssumption DEF TypeOK
<1>3. KeysAreTaken'
  <2>1. \A r \in Streams : Holding(r)' => key'[r] < counter'
    <3> SUFFICES ASSUME NEW r \in Streams, Holding(r)' PROVE key'[r] < counter'
      OBVIOUS
    <3>1. key[r] \in Nat /\ (r = s => key'[r] = counter) /\ (r # s => key'[r] = key[r])
      BY <1>1, <1>2
    <3>2. r # s => key[r] < counter
      BY <1>1, <1>2 DEF KeyInv, KeysAreTaken, Holding
    <3> QED
      BY <1>1, <1>2, <3>1, <3>2
  <2>2. \A k \in Keys : requests'[k] # 0 => k < counter'
    BY <1>1, <1>2 DEF KeyInv, KeysAreTaken
  <2>3. \A c \in Sessions : cpc'[c] # "idle" => ckey'[c] < counter'
    <3> SUFFICES ASSUME NEW c \in Sessions, cpc'[c] # "idle" PROVE ckey'[c] < counter'
      OBVIOUS
    <3>1. ckey'[c] = ckey[c] /\ cpc'[c] = cpc[c] /\ ckey[c] \in Nat
      BY <1>1, <1>2 DEF sessVars
    <3>2. ckey[c] < counter
      BY <3>1 DEF KeyInv, KeysAreTaken
    <3> QED
      BY <1>1, <1>2, <3>1, <3>2
  <2> QED
    BY <2>1, <2>2, <2>3 DEF KeysAreTaken
<1>4. NewKeysAreFresh'
  <2> SUFFICES ASSUME NEW r \in Streams, spc'[r] = "store"
               PROVE  /\ \A q \in Streams : q # r /\ Holding(q)' => key'[q] # key'[r]
                      /\ requests'[key'[r]] = 0
                      /\ \A c \in Sessions : cpc'[c] # "idle" => ckey'[c] # key'[r]
    BY DEF NewKeysAreFresh
  <2>1. CASE r = s
    BY <1>1, <1>2, <2>1 DEF KeyInv, KeysAreTaken, Holding, sessVars
  <2>2. CASE r # s
    BY <1>1, <1>2, <2>2 DEF KeyInv, KeysAreTaken, NewKeysAreFresh, Holding, sessVars
  <2> QED
    BY <2>1, <2>2
<1>5. Answerable' /\ ClosesItsOwn'
  BY <1>1, <1>2 DEF KeyInv, Answerable, ClosesItsOwn, sessVars
<1>6. EntryInv'
  BY <1>1, <1>2 DEF KeyInv, EntryInv, EntryOf, Early, sessVars
<1> QED
  BY <1>3, <1>4, <1>5, <1>6 DEF KeyInv

\* The entry takes a place in Requests that is free, and that no session looked up.
LEMMA AddStoreKeeps ==
    ASSUME TypeOK, KeyInv, NEW s \in Streams, AddStore(s)
    PROVE  KeyInv'
<1> USE KeysAndStreams
<1>1. /\ requests' = [requests EXCEPT ![key[s]] = s] /\ spc[s] = "store"
      /\ spc' = [spc EXCEPT ![s] = "step"]
      /\ UNCHANGED <<key, counter, cancelled, sessVars>>
  BY DEF AddStore, Goto
<1>2. /\ spc \in [Streams -> {"none", "length", "adjust", "listen", "store", "step", "wait", "done"}]
      /\ key \in [Streams -> Keys] /\ ckey \in [Sessions -> Keys]
      /\ requests \in [Keys -> Streams \cup {0}]
  BY DEF TypeOK
<1>3. KeysAreTaken'
  BY <1>1, <1>2 DEF KeyInv, KeysAreTaken, Holding, sessVars
<1>4. NewKeysAreFresh'
  BY <1>1, <1>2 DEF KeyInv, NewKeysAreFresh, Holding, sessVars
<1>5. Answerable'
  BY <1>1, <1>2 DEF KeyInv, NewKeysAreFresh, Holding, Answerable
<1>6. ClosesItsOwn'
  BY <1>1, <1>2 DEF KeyInv, NewKeysAreFresh, ClosesItsOwn, sessVars
<1>7. EntryInv'
  <2>1. /\ key[s] \in Keys /\ requests[key[s]] = 0 /\ ~cancelled[s]
        /\ \A k \in Keys : requests[k] # s
        /\ \A d \in Sessions : cpc[d] # "idle" => ckey[d] # key[s]
    BY <1>1, <1>2 DEF KeyInv, NewKeysAreFresh, EntryInv, Early
  <2>2. \A r \in Streams : Early(r)' => ~cancelled'[r] /\ \A k \in Keys : requests'[k] # r
    BY <1>1, <1>2, <2>1 DEF KeyInv, EntryInv, Early
  <2>3. \A j, k \in Keys : requests'[j] = requests'[k] /\ requests'[k] # 0 => j = k
    BY <1>1, <1>2, <2>1 DEF KeyInv, EntryInv
  <2>4. \A d \in Sessions : cpc'[d] = "delete" => EntryOf(ckey[d])' = 0
    BY <1>1, <1>2, <2>1 DEF KeyInv, EntryInv, EntryOf, sessVars
  <2> QED
    BY <1>1, <2>2, <2>3, <2>4 DEF EntryInv, sessVars
<1> QED
  BY <1>3, <1>4, <1>5, <1>6, <1>7 DEF KeyInv

\* resp and close only use keys that they found in Requests; what is deleted there
\* is cancelled.
LEMMA CommandKeeps ==
    ASSUME TypeOK, KeyInv, NEW c \in Sessions, Command(c)
    PROVE  KeyInv'
<1> USE KeysAndStreams
<1> USE DEF listenVars, streamVars, requestVars
<1>2. /\ key \in [Streams -> Keys] /\ ckey \in [Sessions -> Keys]
      /\ requests \in [Keys -> Streams \cup {0}] /\ cancelled \in [Streams -> BOOLEAN]
      /\ cpc \in [Sessions -> {"idle", "resp", "close", "delete"}]
      /\ centry \in [Sessions -> Streams \cup {0}]
  BY DEF TypeOK
<1>3. ASSUME NEW k \in Keys, NEW cmd \in {"resp", "close"}, GetRequest(c, k, cmd) PROVE KeyInv'
  <2>1. KeysAreTaken' /\ NewKeysAreFresh' /\ Answerable' /\ ClosesItsOwn'
    BY <1>2, <1>3 DEF GetRequest, KeyInv, KeysAreTaken, NewKeysAreFresh, Answerable, ClosesItsOwn,
                      Holding
  <2>2. EntryInv'
    BY <1>2, <1>3 DEF GetRequest, KeyInv, EntryInv, EntryOf, Early
  <2> QED
    BY <2>1, <2>2 DEF KeyInv
<1>4. ASSUME UNCHANGED <<spc, requestVars>>,
             \A d \in Sessions : cpc'[d] # "idle" =>
                /\ cpc[d] # "idle" /\ ckey'[d] = ckey[d] /\ centry'[d] = centry[d]
                /\ cpc'[d] = "delete" => cpc[d] = "delete"
      PROVE  KeyInv'
  <2>1. KeysAreTaken' /\ NewKeysAreFresh' /\ Answerable' /\ ClosesItsOwn'
    BY <1>2, <1>4 DEF KeyInv, KeysAreTaken, NewKeysAreFresh, Answerable, ClosesItsOwn, Holding
  <2>2. EntryInv'
    BY <1>2, <1>4 DEF KeyInv, EntryInv, EntryOf, Early
  <2> QED
    BY <2>1, <2>2 DEF KeyInv
<1>5. ASSUME NEW done \in BOOLEAN, RespWrite(c, done) PROVE KeyInv'
  BY <1>2, <1>4, <1>5 DEF RespWrite, Finish
<1>6. CASE RespFails(c)
  BY <1>2, <1>4, <1>6 DEF RespFails, Finish
<1>7. CASE CloseRequest(c) /\ requests[ckey[c]] = 0
  BY <1>2, <1>4, <1>7 DEF CloseRequest, Finish
<1>8. CASE CloseRequest(c) /\ requests[ckey[c]] # 0
  <2>1. PICK e \in Streams : e = requests[ckey[c]]
    BY <1>2, <1>8
  <2>2. /\ cpc[c] = "close" /\ cancelled' = [cancelled EXCEPT ![e] = TRUE]
        /\ cpc' = [cpc EXCEPT ![c] = "delete"]
        /\ UNCHANGED <<spc, key, counter, requests, ckey, centry>>
    BY <1>8, <2>1 DEF CloseRequest
  <2>3. KeysAreTaken' /\ NewKeysAreFresh' /\ ClosesItsOwn' /\ Answerable'
    BY <1>2, <2>2 DEF KeyInv, KeysAreTaken, NewKeysAreFresh, ClosesItsOwn, Answerable, Holding
  <2>4. \A s \in Streams : Early(s)' => ~cancelled'[s] /\ \A k \in Keys : requests'[k] # s
    BY <1>2, <2>1, <2>2 DEF KeyInv, EntryInv, Early
  <2>5. \A k \in Keys : EntryOf(k) = 0 => EntryOf(k)' = 0
    BY <1>2, <2>2 DEF EntryOf
  <2>6. EntryOf(ckey[c])' = 0
    BY <1>2, <2>1, <2>2 DEF EntryOf
  <2>7. \A d \in Sessions : cpc'[d] = "delete" => EntryOf(ckey[d])' = 0
    BY <1>2, <2>2, <2>5, <2>6 DEF KeyInv, EntryInv
  <2>8. EntryInv'
    BY <2>2, <2>4, <2>7 DEF KeyInv, EntryInv
  <2> QED
    BY <2>3, <2>8 DEF KeyInv
<1>9. CASE DeleteRequest(c)
  <2>1. /\ cpc[c] = "delete" /\ requests' = [requests EXCEPT ![ckey[c]] = 0]
        /\ cpc' = [cpc EXCEPT ![c] = "idle"] /\ ckey' = [ckey EXCEPT ![c] = 0]
        /\ centry' = [centry EXCEPT ![c] = 0]
        /\ UNCHANGED <<spc, key, counter, cancelled>>
    BY <1>9 DEF DeleteRequest, Finish
  <2>2. KeysAreTaken' /\ NewKeysAreFresh' /\ ClosesItsOwn'
    BY <1>2, <2>1 DEF KeyInv, KeysAreTaken, NewKeysAreFresh, ClosesItsOwn, Holding
  <2>3. Answerable'
    <3> SUFFICES ASSUME NEW s \in Streams, spc[s] \in {"step", "wait"}, ~cancelled[s]
                 PROVE  requests'[key[s]] = s
      BY <2>1 DEF Answerable
    <3>1. requests[key[s]] = s
      BY DEF KeyInv, Answerable
    <3>2. EntryOf(ckey[c]) = 0
      BY <2>1 DEF KeyInv, EntryInv
    <3>3. key[s] # ckey[c]
      BY <3>1, <3>2 DEF EntryOf
    <3> QED
      BY <1>2, <2>1, <3>1, <3>3
  <2>4. EntryInv'
    <3>1. \A s \in Streams : Early(s)' => ~cancelled'[s] /\ \A k \in Keys : requests'[k] # s
      BY <1>2, <2>1 DEF KeyInv, EntryInv, Early
    <3>2. \A j, k \in Keys : requests'[j] = requests'[k] /\ requests'[k] # 0 => j = k
      BY <1>2, <2>1 DEF KeyInv, EntryInv
    <3>3. \A k \in Keys : EntryOf(k) = 0 => EntryOf(k)' = 0
      BY <1>2, <2>1 DEF EntryOf
    <3>4. ASSUME NEW d \in Sessions, cpc'[d] = "delete" PROVE EntryOf(ckey[d])' = 0 /\ ckey'[d] = ckey[d]
      <4>1. d # c /\ cpc[d] = "delete" /\ ckey[d] \in Keys
        BY <1>2, <2>1, <3>4
      <4>2. EntryOf(ckey[d]) = 0
        BY <4>1 DEF KeyInv, EntryInv
      <4> QED
        BY <1>2, <2>1, <3>3, <4>1, <4>2
    <3> QED
      BY <3>1, <3>2, <3>4 DEF EntryInv, EntryOf
  <2> QED
    BY <2>2, <2>3, <2>4 DEF KeyInv
<1> QED
  BY <1>3, <1>5, <1>6, <1>7, <1>8, <1>9 DEF Command
-----------------------------------------------------------------------------
(* The theorems. *)

\* The inductive invariant holds in every reachable state.
THEOREM Invariance == Spec => []Inv
<1>1. Inv /\ [Next]_vars => Inv'
  <2> SUFFICES ASSUME TypeOK, KeyInv, [Next]_vars PROVE TypeOK' /\ KeyInv'
    BY DEF Inv, KeyInv
  <2>1. TypeOK'
    BY StepType
  <2>2. ASSUME UNCHANGED vars PROVE KeyInv'
    <3>1. KeysAlone
      BY <2>2 DEF KeysAlone, vars, streamVars, requestVars, sessVars, Holding, Early
    <3> QED
      BY <3>1, KeysAloneKeep
  <2>3. ASSUME Next PROVE KeyInv'
    <3>1. ASSUME NEW s \in Streams, Handler(s) PROVE KeyInv'
      BY <3>1, OtherSteps, KeysAloneKeep, AddKeyKeeps, AddStoreKeeps
    <3>2. ASSUME NEW c \in Sessions, Command(c) PROVE KeyInv'
      BY <3>2, CommandKeeps
    <3>3. \/ KeysAlone
          \/ \E s \in Streams : Handler(s)
          \/ \E c \in Sessions : Command(c)
      BY <2>3, OtherSteps DEF Next
    <3> QED
      BY <3>1, <3>2, <3>3, KeysAloneKeep
  <2> QED
    BY <2>1, <2>2, <2>3
<1> QED
  BY <1>1, InitInv, PTL DEF Spec

\* Every variable keeps its type: the shared size limit stays a length through any
\* number of requests, and the key counter within its range.
THEOREM TypeCorrect == Spec => []TypeOK
<1>1. Inv => TypeOK
  BY DEF Inv
<1> QED
  BY <1>1, Invariance, PTL

\* AddRequest and CloseRequest: a request whose handler waits for an answer is found
\* under the key that was reported for it.
THEOREM WaitingIsAnswerable == Spec => []Answerable
<1>1. Inv => Answerable
  BY DEF Inv
<1> QED
  BY <1>1, Invariance, PTL

\* CloseRequest: the second lookup finds the request that was answered, or nothing.
THEOREM CloseHitsItsOwn == Spec => []ClosesItsOwn
<1>1. Inv => ClosesItsOwn
  BY DEF Inv
<1> QED
  BY <1>1, Invariance, PTL
-----------------------------------------------------------------------------
(* Rpc implements RequestTable. *)

\* What a step changes of the table as it is seen from outside.
LEMMA TableSame ==
    ASSUME UNCHANGED <<requests, cancelled>>, GivenKeys' = GivenKeys
    PROVE  UNCHANGED Table!tableVars
<1>1. \A k \in Keys : EntryOf(k)' = EntryOf(k)
  BY DEF EntryOf
<1> QED
  BY <1>1 DEF Table!tableVars

LEMMA KeysAloneSame == KeysAlone => UNCHANGED Table!tableVars
<1> SUFFICES ASSUME KeysAlone PROVE UNCHANGED Table!tableVars
  OBVIOUS
<1>1. UNCHANGED <<key, cancelled, counter, requests>>
  BY DEF KeysAlone, requestVars
<1>2. GivenKeys' = GivenKeys
  BY <1>1 DEF KeysAlone, GivenKeys
<1> QED
  BY <1>1, <1>2, TableSame

\* A key that was taken is not given before its entry is stored.
LEMMA AddKeySame ==
    ASSUME TypeOK, KeyInv, NEW s \in Streams, AddKey(s)
    PROVE  UNCHANGED Table!tableVars
<1>1. /\ key' = [key EXCEPT ![s] = counter] /\ counter' = counter + 1 /\ counter \in Keys
      /\ spc[s] = "listen" /\ spc' = [spc EXCEPT ![s] = "store"]
      /\ UNCHANGED <<requests, cancelled>>
  BY DEF AddKey, NextKey, Goto
<1>2. /\ spc \in [Streams -> {"none", "length", "adjust", "listen", "store", "step", "wait", "done"}]
      /\ key \in [Streams -> Keys] /\ counter \in Nat
  BY RpcAssumption DEF TypeOK
<1>3. ASSUME NEW k \in Keys PROVE k \in GivenKeys' <=> k \in GivenKeys
  <2>1. k \in GivenKeys' <=> k < counter + 1 /\ \A r \in Streams : spc'[r] = "store" => key'[r] # k
    BY <1>1 DEF GivenKeys
  <2>2. k \in GivenKeys <=> k < counter /\ \A r \in Streams : spc[r] = "store" => key[r] # k
    BY DEF GivenKeys
  <2>3. (\A r \in Streams : spc'[r] = "store" => key'[r] # k)
            <=> k # counter /\ \A r \in Streams : spc[r] = "store" => key[r] # k
    BY <1>1, <1>2
  <2>4. k < counter + 1 /\ k # counter <=> k < counter
    BY <1>2, KeysAndStreams
  <2> QED
    BY <2>1, <2>2, <2>3, <2>4
<1>4. GivenKeys' = GivenKeys
  BY <1>3 DEF GivenKeys
<1> QED
  BY <1>1, <1>4, TableSame

\* The Store of AddRequest is where the request enters the table.
LEMMA AddStoreEnters ==
    ASSUME TypeOK, KeyInv, NEW s \in Streams, AddStore(s)
    PROVE  \E k \in Keys, r \in Streams : Table!Enter(k, r)
<1> USE KeysAndStreams
<1>1. PICK k \in Keys : k = key[s]
  BY DEF TypeOK
<1>2. /\ requests' = [requests EXCEPT ![k] = s] /\ spc[s] = "store"
      /\ spc' = [spc EXCEPT ![s] = "step"]
      /\ UNCHANGED <<key, counter, cancelled>>
  BY <1>1 DEF AddStore, Goto
<1>3. /\ spc \in [Streams -> {"none", "length", "adjust", "listen", "store", "step", "wait", "done"}]
      /\ key \in [Streams -> Keys] /\ requests \in [Keys -> Streams \cup {0}]
  BY DEF TypeOK
<1>4. k \notin GivenKeys
  BY <1>1, <1>2 DEF GivenKeys
<1>5. ~cancelled[s] /\ \A j \in Keys : requests[j] # s
  BY <1>2 DEF KeyInv, EntryInv, Early
<1>6. \A j \in Keys : EntryOf(j) # s
  BY <1>5 DEF EntryOf
<1>7. \A j \in Keys : EntryOf(j)' = IF j = k THEN s ELSE EntryOf(j)
  BY <1>2, <1>3, <1>5 DEF EntryOf
<1>8. ASSUME NEW j \in Keys PROVE j \in GivenKeys' <=> j \in GivenKeys \cup {k}
  <2>1. j \in GivenKeys' <=> j < counter /\ \A r \in Streams : spc'[r] = "store" => key[r] # j
    BY <1>2 DEF GivenKeys
  <2>2. j \in GivenKeys <=> j < counter /\ \A r \in Streams : spc[r] = "store" => key[r] # j
    BY DEF GivenKeys
  <2>3. k < counter /\ \A r \in Streams : r # s /\ spc[r] = "store" => key[r] # k
    BY <1>1, <1>2 DEF KeyInv, KeysAreTaken, NewKeysAreFresh, Holding
  <2> QED
    BY <1>1, <1>2, <1>3, <2>1, <2>2, <2>3
<1>9. GivenKeys' = GivenKeys \cup {k}
  BY <1>8 DEF GivenKeys
<1>10. [j \in Keys |-> EntryOf(j)]' = [[j \in Keys |-> EntryOf(j)] EXCEPT ![k] = s]
  BY <1>7
<1>11. Table!Enter(k, s)
  BY <1>2, <1>4, <1>5, <1>6, <1>9, <1>10 DEF Table!Enter
<1> QED
  BY <1>11

\* The Cancel of CloseRequest is where a request leaves the table, if it is still there.
LEMMA CommandCloses ==
    ASSUME TypeOK, KeyInv, NEW c \in Sessions, Command(c)
    PROVE  (\E k \in Keys : Table!CloseKey(k)) \/ UNCHANGED Table!tableVars
<1> USE KeysAndStreams
<1>t. /\ ckey \in [Sessions -> Keys] /\ cancelled \in [Streams -> BOOLEAN]
      /\ requests \in [Keys -> Streams \cup {0}]
  BY DEF TypeOK
<1>1. ASSUME UNCHANGED <<spc, key, counter>> PROVE GivenKeys' = GivenKeys
  BY <1>1 DEF GivenKeys
<1>2. CASE \/ \E k \in Keys, cmd \in {"resp", "close"} : GetRequest(c, k, cmd)
           \/ \E done \in BOOLEAN : RespWrite(c, done)
           \/ RespFails(c)
  BY <1>1, <1>2, TableSame DEF GetRequest, RespWrite, RespFails, streamVars, requestVars
<1>3. CASE CloseRequest(c)
  <2>f. UNCHANGED <<spc, key, counter, requests>> /\ GivenKeys' = GivenKeys
    BY <1>1, <1>3 DEF CloseRequest, streamVars
  <2>1. PICK k \in Keys : k = ckey[c]
    BY <1>t
  <2>2. CASE requests[k] = 0
    BY <1>3, <2>f, <2>1, <2>2, TableSame DEF CloseRequest
  <2>3. CASE requests[k] # 0
    <3>1. PICK e \in Streams : e = requests[k]
      BY <1>t, <2>3
    <3>2. cancelled' = [cancelled EXCEPT ![e] = TRUE]
      BY <1>3, <2>1, <2>3, <3>1 DEF CloseRequest
    <3>3. CASE cancelled[e]
      <4>1. cancelled' = cancelled
        BY <1>t, <3>2, <3>3
      <4> QED
        BY <2>f, <4>1, TableSame
    <3>4. CASE ~cancelled[e]
      <4>1. EntryOf(k) = e
        BY <3>1, <3>4 DEF EntryOf
      <4>2. \A j \in Keys : j # k => requests[j] # e
        BY <3>1 DEF KeyInv, EntryInv
      <4>3. \A j \in Keys : EntryOf(j)' = IF j = k THEN 0 ELSE EntryOf(j)
        BY <1>t, <2>f, <3>1, <3>2, <4>2 DEF EntryOf
      <4>4. [j \in Keys |-> EntryOf(j)]' = [[j \in Keys |-> EntryOf(j)] EXCEPT ![k] = 0]
        BY <4>3
      <4>5. {s \in Streams : cancelled[s]}' = {s \in Streams : cancelled[s]} \cup {e}
        BY <1>t, <3>2
      <4>6. Table!CloseKey(k)
        BY <2>f, <4>1, <4>4, <4>5 DEF Table!CloseKey
      <4> QED
        BY <4>6
    <3> QED
      BY <3>3, <3>4
  <2> QED
    BY <2>2, <2>3
<1>4. CASE DeleteRequest(c)
  <2>1. /\ cpc[c] = "delete" /\ requests' = [requests EXCEPT ![ckey[c]] = 0]
        /\ UNCHANGED <<spc, key, counter, cancelled>>
    BY <1>4 DEF DeleteRequest, streamVars
  <2>2. EntryOf(ckey[c]) = 0
    BY <2>1 DEF KeyInv, EntryInv
  <2>3. \A j \in Keys : EntryOf(j)' = EntryOf(j)
    BY <1>t, <2>1, <2>2 DEF EntryOf
  <2> QED
    BY <1>1, <2>1, <2>3 DEF Table!tableVars
<1> QED
  BY <1>2, <1>3, <1>4 DEF Command

\* The Responder implements RequestTable: its two-step AddRequest and CloseRequest,
\* run by any number of handlers and sessions, look like atomic operations of a table
\* that gives a key once and enters and closes a request once.
THEOREM ResponderIsTable == Spec => ImplementsTable
<1>1. Init => Table!TableInit
  <2> SUFFICES ASSUME Init PROVE Table!TableInit
    OBVIOUS
  <2>1. [k \in Keys |-> EntryOf(k)] = [k \in Keys |-> 0]
    BY DEF Init, EntryOf
  <2>2. GivenKeys = {}
    BY KeysAndStreams DEF Init, GivenKeys
  <2>3. {s \in Streams : cancelled[s]} = {}
    BY DEF Init
  <2> QED
    BY <2>1, <2>2, <2>3 DEF Table!TableInit
<1>2. Inv /\ [Next]_vars => [Table!TableNext]_(Table!tableVars)
  <2> SUFFICES ASSUME TypeOK, KeyInv, [Next]_vars PROVE [Table!TableNext]_(Table!tableVars)
    BY DEF Inv, KeyInv
  <2>1. CASE UNCHANGED vars
    <3>1. KeysAlone
      BY <2>1 DEF KeysAlone, vars, streamVars, requestVars, sessVars, Holding, Early
    <3> QED
      BY <3>1, KeysAloneSame
  <2>2. CASE Next
    <3>1. \/ KeysAlone
          \/ \E s \in Streams : AddKey(s) \/ AddStore(s)
          \/ \E c \in Sessions : Command(c)
      BY <2>2, OtherSteps DEF Next
    <3> QED
      BY <3>1, KeysAloneSame, AddKeySame, AddStoreEnters, CommandCloses DEF Table!TableNext
  <2> QED
    BY <2>1, <2>2
<1> QED
  BY <1>1, <1>2, Invariance, PTL DEF Spec, ImplementsTable, Table!TableSpec
=============================================================================
