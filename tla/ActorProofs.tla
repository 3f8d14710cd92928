---------------------------- MODULE ActorProofs ----------------------------
(***************************************************************************)
(* What holds of Actor for every number of commands and keys, whatever the *)
(* commands are.                                                           *)
(***************************************************************************)
EXTENDS Actor, TLAPS

-----------------------------------------------------------------------------
(* The inductive invariant. *)

\* Which commands come to the steps that set keys, hosts and stores.
JobInv ==
    \A p \in Procs :
        /\ pc[p] \in {"key", "options", "store", "create", "node", "host", "sethost"} => Is(p, "start")
        /\ pc[p] = "setpriv" => Is(p, "start") \/ Is(p, "enr")
        /\ pc[p] \in {"lazy", "state", "fields"} => Is(p, "enr")

\* A command that got past SetPriv works with the key of the actor.
KeyInv ==
    \A p \in Procs :
        /\ pc[p] = "setpriv" => key[p] # None
        /\ pc[p] = "setpriv" /\ Is(p, "start") => key[p] = p
        /\ pc[p] \in {"options", "store", "create", "retain", "switch", "node", "host"} /\ Is(p, "start")
              => priv # None /\ key[p] = priv
        /\ pc[p] \in {"lazy", "state"} => priv # None /\ key[p] = priv

\* A host that was made has a key, also when it was closed since.
HostInv ==
    /\ p2pHost # None => hkey[p2pHost] # None
    /\ enr # None => priv # None
    /\ \A p \in Procs :
        /\ pc[p] = "sethost" => hkey[p] # None
        /\ pc[p] = "switch" /\ ref[p] # None => hkey[ref[p]] # None

\* A store that is switched to exists, and a host is made on a store.
StoreInv ==
    /\ p2pHost # None => current # None
    /\ \A p \in Procs :
        /\ pc[p] \in {"retain", "switch"} => to[p] \in stores
        /\ pc[p] \in {"node", "host", "sethost"} => current # None

\* There is a host, or one is about to be set.
HostComing == p2pHost # None \/ \E q \in Procs : pc[q] \in {"host", "sethost"}

\* From the moment it is added for a host, the key is in the current store.
KeyStored == HostComing /\ ~blind => priv \in keys[current]

\* A topic is registered by a join that is done, and a leave deletes what no gossip
\* node has any more.
TopicInv ==
    /\ topic # None => pc[topic] = "done"
    /\ \A g \in Procs : joined[g] # None => pc[joined[g]] \in {"put", "done"}
    /\ \A p \in Procs :
        /\ pc[p] \in {"close", "delete", "subscribe"} => ref[p] # None /\ pc[ref[p]] = "done"
        /\ pc[p] = "delete" => \A g \in Procs : joined[g] # ref[p]

IdentityInv == JobInv /\ KeyInv /\ HostInv /\ OneKey
StoresInv == StoreInv /\ KeyStored
TopicsInv == TopicInv /\ TopicsKept

Inv == TypeOK /\ IdentityInv /\ StoresInv /\ TopicsInv
-----------------------------------------------------------------------------
(* Types. *)

\* What the options of a command are.
LEMMA JobTypes ==
    ASSUME job \in Plans, NEW p \in Procs
    PROVE  /\ Is(p, "start") => job[p].key \in Maybe(Keys)
           /\ Is(p, "enr") => job[p].key \in Maybe(Keys)
<1>1. job[p] \in Jobs
  BY ActorAssumption
<1> QED
  BY <1>1 DEF Jobs, Is

\* Every step of a command keeps the types.
LEMMA StepType ==
    ASSUME TypeOK, JobInv, KeyInv, StoreInv, TopicInv, NEW p \in Procs,
           HostStep(p) \/ StoreStep(p) \/ EnrStep(p) \/ GossipStep(p) \/ Dv5Step(p)
    PROVE  TypeOK'
<1> USE ActorAssumption DEF Maybe, AllKeys
<1> USE DEF procVars, hostVars, storeVars, enrVars, gossipVars, dv5Vars
<1> USE DEF At, Starts, Goes, Keep, Load, KeepsLocals, HostOnly, StoreOnly, PrivOnly, EnrOnly,
            GossipOnly, Dv5Only, LocalOnly
<1>1. ASSUME StartCheck(p) PROVE TypeOK'
  BY <1>1 DEF TypeOK, StartCheck
<1>2. ASSUME StartKey(p) PROVE TypeOK'
  <2>1. job[p].key \in Maybe(Keys)
    BY <1>2, JobTypes DEF TypeOK, StartKey
  <2>2. key' \in [Procs -> Maybe(AllKeys)] /\ priv' \in Maybe(AllKeys)
    BY <1>2, <2>1 DEF TypeOK, StartKey
  <2>3. \E where \in {"failed", "options", "setpriv"} : pc' = [pc EXCEPT ![p] = where]
    BY <1>2 DEF StartKey
  <2> QED
    BY <1>2, <2>2, <2>3 DEF TypeOK, StartKey
<1>3. ASSUME StartSetPriv(p) PROVE TypeOK'
  <2>1. key' \in [Procs -> Maybe(AllKeys)] /\ priv' \in Maybe(AllKeys)
    <3>1. key \in [Procs -> Maybe(AllKeys)] /\ priv \in Maybe(AllKeys) /\ p \in AllKeys
      BY DEF TypeOK
    <3>2. CASE Conflict(p)
      BY <1>3, <3>1, <3>2 DEF StartSetPriv
    <3>3. CASE ~Conflict(p)
      BY <1>3, <3>1, <3>3 DEF StartSetPriv
    <3> QED
      BY <3>2, <3>3
  <2> QED
    BY <1>3, <2>1 DEF TypeOK, StartSetPriv
<1>4. ASSUME StartStore(p) PROVE TypeOK'
  BY <1>4 DEF TypeOK, StartStore
<1>5. ASSUME AddPrivKey(p) PROVE TypeOK'
  <2>1. key[p] \in AllKeys
    BY <1>5 DEF TypeOK, AddPrivKey, JobInv, KeyInv
  <2>2. keys' \in [Procs -> SUBSET AllKeys]
    BY <1>5, <2>1 DEF TypeOK, AddPrivKey
  <2> QED
    BY <1>5, <2>2 DEF TypeOK, AddPrivKey
<1>6. ASSUME SetHost(p) PROVE TypeOK'
  BY <1>6 DEF TypeOK, SetHost
<1>7. ASSUME CloseHost(p) PROVE TypeOK'
  BY <1>7 DEF TypeOK, CloseHost
<1>8. ASSUME HostClosed(p) PROVE TypeOK'
  BY <1>8 DEF TypeOK, HostClosed
<1>9. ASSUME NEW ok \in BOOLEAN, StartOptions(p, ok) PROVE TypeOK'
  BY <1>9 DEF TypeOK, StartOptions
<1>10. ASSUME NEW ok \in BOOLEAN, NewNode(p, ok) PROVE TypeOK'
  BY <1>10 DEF TypeOK, NewNode
<1>11. ASSUME NEW ok \in BOOLEAN, CreateStore(p, ok) PROVE TypeOK'
  <2>1. stores' \subseteq Procs /\ stores \subseteq stores'
    BY <1>11 DEF TypeOK, CreateStore, Shared
  <2> QED
    BY <1>11, <2>1 DEF TypeOK, CreateStore
<1>12. ASSUME NEW s \in Maybe(Procs), FindStore(p, s) PROVE TypeOK'
  BY <1>12 DEF TypeOK, FindStore
<1>13. ASSUME Retain(p) PROVE TypeOK'
  BY <1>13 DEF TypeOK, Retain
<1>14. ASSUME Switch(p) PROVE TypeOK'
  <2>1. to[p] \in stores /\ to[p] \in Procs
    BY <1>14 DEF TypeOK, Switch, StoreInv
  <2>2. Retained(p) \subseteq AllKeys
    BY DEF TypeOK, Retained
  <2>3. keys' \in [Procs -> SUBSET AllKeys]
    BY <1>14, <2>1, <2>2 DEF TypeOK, Switch
  <2>4. blind' \in BOOLEAN
    BY <1>14 DEF TypeOK, Switch
  <2> QED
    BY <1>14, <2>1, <2>3, <2>4 DEF TypeOK, Switch
<1>15. ASSUME EnrMake(p) PROVE TypeOK'
  <2>1. job[p].key \in Maybe(Keys)
    BY <1>15, JobTypes DEF TypeOK, EnrMake
  <2>2. key' \in [Procs -> Maybe(AllKeys)]
    BY <1>15, <2>1 DEF TypeOK, EnrMake
  <2> QED
    BY <1>15, <2>2 DEF TypeOK, EnrMake
<1>16. ASSUME EnrSetPriv(p) PROVE TypeOK'
  BY <1>16 DEF TypeOK, EnrSetPriv
<1>17. ASSUME EnrLazy(p) PROVE TypeOK'
  BY <1>17 DEF TypeOK, EnrLazy
<1>18. ASSUME NewEnrState(p) PROVE TypeOK'
  BY <1>18 DEF TypeOK, NewEnrState
<1>19. ASSUME NEW fromHost \in BOOLEAN, EnrFields(p, fromHost) PROVE TypeOK'
  <2>1. enrVals' \in [Procs -> [Fields -> Maybe(Procs)]]
    <3>1. enrVals \in [Procs -> [Fields -> Maybe(Procs)]]
      BY DEF TypeOK
    <3>2. PICK vals : /\ enrVals' = [enrVals EXCEPT ![enr] = vals]
                      /\ \A f \in Fields : vals[f] \in {None, p, enrVals[enr][f]}
                      /\ vals = [f \in Fields |-> vals[f]]
      <4> DEFINE changed == job[p].changed \cup IF fromHost THEN {"ip", "port"} ELSE {}
                 vals == [f \in Fields |-> IF f = "ip" /\ job[p].rmip THEN None
                                           ELSE IF f \in changed \/ (f = "port" /\ enrVals[enr][f] = None) THEN p
                                           ELSE enrVals[enr][f]]
      <4>1. /\ \A f \in Fields : vals[f] \in {None, p, enrVals[enr][f]}
            /\ vals = [f \in Fields |-> vals[f]]
        OBVIOUS
      <4>2. enrVals' = [enrVals EXCEPT ![enr] = vals]
        BY <1>19 DEF EnrFields
      <4> QED
        BY <4>1, <4>2
    <3>3. ASSUME enr \in Procs PROVE vals \in [Fields -> Maybe(Procs)]
      BY <3>1, <3>2, <3>3
    <3> QED
      BY <3>1, <3>2, <3>3
  <2> QED
    BY <1>19, <2>1 DEF TypeOK, EnrFields
<1>20. ASSUME GossipStart(p) PROVE TypeOK'
  BY <1>20 DEF TypeOK, GossipStart
<1>21. ASSUME GossipJoin(p) PROVE TypeOK'
  BY <1>21 DEF TypeOK, GossipJoin
<1>22. ASSUME TopicJoin(p) PROVE TypeOK'
  <2>1. CASE gs = None
    BY <1>22, <2>1 DEF TypeOK, TopicJoin
  <2>2. CASE gs # None
    <3>1. joined' \in [Procs -> Maybe(Procs)]
      <4>1. joined \in [Procs -> Maybe(Procs)]
        BY DEF TypeOK
      <4>2. joined' = joined \/ joined' = [joined EXCEPT ![gs] = p]
        BY <1>22, <2>2 DEF TopicJoin
      <4> QED
        BY <4>1, <4>2
    <3> QED
      BY <1>22, <2>2, <3>1 DEF TypeOK, TopicJoin
  <2> QED
    BY <2>1, <2>2
<1>23. ASSUME StoreTopic(p) PROVE TypeOK'
  BY <1>23 DEF TypeOK, StoreTopic
<1>24. ASSUME LoadTopic(p) PROVE TypeOK'
  BY <1>24 DEF TypeOK, LoadTopic
<1>25. ASSUME TopicClose(p) PROVE TypeOK'
  <2>1. joined' \in [Procs -> Maybe(Procs)]
    BY <1>25 DEF TypeOK, TopicClose
  <2> QED
    BY <1>25, <2>1 DEF TypeOK, TopicClose
<1>26. ASSUME DeleteTopic(p) PROVE TypeOK'
  BY <1>26 DEF TypeOK, DeleteTopic
<1>27. ASSUME Subscribe(p) PROVE TypeOK'
  <2>1. ref[p] \in Procs
    BY <1>27 DEF TypeOK, Subscribe, TopicInv
  <2>2. subs' \subseteq Procs \X Procs /\ handlers' \subseteq Procs \X Procs
    BY <1>27, <2>1 DEF TypeOK, Subscribe
  <2> QED
    BY <1>27, <2>2 DEF TypeOK, Subscribe
<1>28. ASSUME StopLog(p) PROVE TypeOK'
  BY <1>28 DEF TypeOK, StopLog
<1>29. ASSUME NEW ok \in BOOLEAN, NewGossipSub(p, ok) PROVE TypeOK'
  BY <1>29 DEF TypeOK, NewGossipSub
<1>30. ASSUME Dv5Check(p) PROVE TypeOK'
  BY <1>30 DEF TypeOK, Dv5Check
<1>31. ASSUME Dv5Use(p) PROVE TypeOK'
  BY <1>31 DEF TypeOK, Dv5Use
<1>32. ASSUME StopDv5(p) PROVE TypeOK'
  BY <1>32 DEF TypeOK, StopDv5
<1>33. ASSUME ClearDv5(p) PROVE TypeOK'
  BY <1>33 DEF TypeOK, ClearDv5
<1>34. ASSUME NEW ok \in BOOLEAN, Dv5Run(p, ok) PROVE TypeOK'
  BY <1>34 DEF TypeOK, Dv5Run
<1> QED
  BY <1>1, <1>2, <1>3, <1>4, <1>5, <1>6, <1>7, <1>8, <1>9, <1>10, <1>11, <1>12, <1>13, <1>14, <1>15, <1>16, <1>17, <1>18, <1>19, <1>20, <1>21, <1>22, <1>23, <1>24, <1>25, <1>26, <1>27, <1>28, <1>29, <1>30, <1>31, <1>32, <1>33, <1>34
  DEF HostStep, StoreStep, EnrStep, GossipStep, Dv5Step
-----------------------------------------------------------------------------
(* One identity. *)

\* Where commands go that IdentityInv says nothing about.
Elsewhere == {"failed", "done", "closing", "new", "join", "put", "close", "delete",
              "subscribe", "use", "running", "clear"}

\* The command of p goes to one of the given places, or stays.
Moves(p, places) == pc' = pc \/ \E where \in places : pc' = [pc EXCEPT ![p] = where]

\* Once there is a key, no step changes it.
LEMMA PrivKept ==
    ASSUME NEW p \in Procs,
           HostStep(p) \/ StoreStep(p) \/ EnrStep(p) \/ GossipStep(p) \/ Dv5Step(p)
    PROVE  priv' = priv \/ (priv = None /\ (StartKey(p) \/ StartSetPriv(p) \/ EnrSetPriv(p)))
<1> USE DEF LocalOnly, HostOnly, StoreOnly, EnrOnly, GossipOnly, Dv5Only
<1>1. ASSUME HostStep(p)
      PROVE  priv' = priv \/ (priv = None /\ (StartKey(p) \/ StartSetPriv(p)))
  BY <1>1 DEF HostStep, StartCheck, StartKey, StartSetPriv, StartStore, AddPrivKey, SetHost,
              CloseHost, HostClosed, StartOptions, NewNode, Conflict
<1>2. ASSUME StoreStep(p) PROVE priv' = priv
  BY <1>2 DEF StoreStep, CreateStore, FindStore, Retain, Switch
<1>3. ASSUME EnrStep(p) PROVE priv' = priv \/ (priv = None /\ EnrSetPriv(p))
  BY <1>3 DEF EnrStep, EnrMake, EnrSetPriv, EnrLazy, NewEnrState, EnrFields, Conflict
<1>4. ASSUME GossipStep(p) PROVE priv' = priv
  BY <1>4 DEF GossipStep, GossipStart, GossipJoin, TopicJoin, StoreTopic, LoadTopic, TopicClose,
              DeleteTopic, Subscribe, StopLog, NewGossipSub
<1>5. ASSUME Dv5Step(p) PROVE priv' = priv
  BY <1>5 DEF Dv5Step, Dv5Check, Dv5Use, StopDv5, ClearDv5, Dv5Run
<1> QED
  BY <1>1, <1>2, <1>3, <1>4, <1>5

\* Steps that go elsewhere and leave keys, hosts and the ENR alone.
LEMMA IdentityFrame ==
    ASSUME TypeOK, IdentityInv, NEW p \in Procs, Moves(p, Elsewhere),
           UNCHANGED <<job, key, priv, hkey, enr, enrKey>>,
           p2pHost' \in {None, p2pHost},
           \A q \in Procs : q # p => ref'[q] = ref[q],
           pc' = pc => ref' = ref
    PROVE  IdentityInv'
<1> USE DEF TypeOK, IdentityInv, Moves, Elsewhere, Is
<1>1. JobInv'
  BY DEF JobInv
<1>2. KeyInv'
  BY DEF KeyInv
<1>3. HostInv'
  BY DEF HostInv
<1>4. OneKey'
  BY DEF OneKey
<1> QED
  BY <1>1, <1>2, <1>3, <1>4

\* Gossip and discv5 have nothing to do with the identity.
LEMMA GossipIdentity ==
    ASSUME TypeOK, IdentityInv, NEW p \in Procs, GossipStep(p) \/ Dv5Step(p)
    PROVE  IdentityInv'
<1> USE DEF Moves, Elsewhere, Goes, Load, KeepsLocals, LocalOnly, HostOnly, GossipOnly, Dv5Only,
            hostVars, enrVars
<1>1. ASSUME GossipStep(p)
      PROVE  /\ Moves(p, Elsewhere) /\ UNCHANGED <<job, key, priv, hkey, enr, enrKey, p2pHost>>
             /\ pc' = pc => ref' = ref
             /\ \A q \in Procs : q # p => ref'[q] = ref[q]
  <2>1. CASE LoadTopic(p)
    <3>1. Moves(p, Elsewhere) /\ UNCHANGED <<job, key, priv, hkey, enr, enrKey, p2pHost>>
      BY <2>1 DEF LoadTopic
    <3>2. pc[p] = "idle" /\ ref' = [ref EXCEPT ![p] = topic]
      BY <2>1 DEF LoadTopic, At
    <3>3. pc' # pc
      BY <2>1, <3>2 DEF LoadTopic, TypeOK
    <3> QED
      BY <3>1, <3>2, <3>3 DEF TypeOK
  <2>2. CASE ~LoadTopic(p)
    <3>1. UNCHANGED ref
      BY <1>1, <2>2 DEF GossipStep, GossipStart, GossipJoin, TopicJoin, StoreTopic, TopicClose,
              DeleteTopic, Subscribe, StopLog, NewGossipSub
    <3>2. Moves(p, Elsewhere) /\ UNCHANGED <<job, key, priv, hkey, enr, enrKey, p2pHost>>
      BY <1>1, <2>2 DEF GossipStep, GossipStart, GossipJoin, TopicJoin, StoreTopic, TopicClose,
              DeleteTopic, Subscribe, StopLog, NewGossipSub
    <3> QED
      BY <3>1, <3>2
  <2> QED
    BY <2>1, <2>2
<1>2. ASSUME Dv5Step(p)
      PROVE  Moves(p, Elsewhere) /\ UNCHANGED <<job, key, ref, priv, hkey, enr, enrKey, p2pHost>>
  BY <1>2 DEF Dv5Step, Dv5Check, Dv5Use, StopDv5, ClearDv5, Dv5Run
<1>3. CASE GossipStep(p)
  BY <1>1, <1>3, IdentityFrame
<1>4. CASE Dv5Step(p)
  BY <1>2, <1>4, IdentityFrame
<1> QED
  BY <1>3, <1>4

\* SetPriv leaves a key that is the one of the command from there on.
LEMMA KeySet ==
    ASSUME TypeOK, IdentityInv, NEW p \in Procs, NEW k \in AllKeys, priv \in {None, k}, priv' = k,
           key' = [key EXCEPT ![p] = k],
           \/ Is(p, "start") /\ pc' = [pc EXCEPT ![p] = "options"]
           \/ Is(p, "enr") /\ pc' = [pc EXCEPT ![p] = "lazy"],
           UNCHANGED <<job, ref, hkey, p2pHost, enr, enrKey>>
    PROVE  IdentityInv'
<1> USE DEF IdentityInv
<1>1. k # None /\ pc = [q \in Procs |-> pc[q]] /\ key \in [Procs -> Maybe(AllKeys)]
  BY ActorAssumption DEF TypeOK, AllKeys
<1>2. JobInv'
  BY <1>1 DEF JobInv, Is
<1>3. KeyInv'
  BY <1>1 DEF KeyInv, Is
<1>4. HostInv'
  BY <1>1 DEF HostInv
<1>5. OneKey'
  BY <1>1 DEF OneKey, HostInv
<1> QED
  BY <1>2, <1>3, <1>4, <1>5

\* Host start takes the key that SetPriv leaves, and makes its host with it.
LEMMA HostIdentity ==
    ASSUME TypeOK, IdentityInv, NEW p \in Procs, HostStep(p)
    PROVE  IdentityInv'
<1> USE ActorAssumption
<1> USE DEF TypeOK, IdentityInv, JobInv, KeyInv, HostInv, OneKey, Is, At, Starts, Goes, Keep, Load,
            KeepsLocals, LocalOnly, HostOnly, StoreOnly, PrivOnly, EnrOnly, hostVars, storeVars, enrVars,
            Maybe
<1>1. ASSUME StartCheck(p) PROVE IdentityInv'
  BY <1>1 DEF StartCheck
<1>2. ASSUME StartKey(p) PROVE IdentityInv'
  <2> HIDE DEF TypeOK, IdentityInv, JobInv, KeyInv, HostInv, OneKey
  <2> DEFINE given == job[p].key
  <2>1. given \in Maybe(Keys) /\ Is(p, "start") /\ pc[p] = "key"
    BY <1>2, JobTypes DEF StartKey, TypeOK
  <2>2. UNCHANGED <<job, ref, hkey, p2pHost, enr, enrKey>>
    BY <1>2 DEF StartKey
  <2>3. CASE given # None /\ Conflict(given)
    <3>1. pc' = [pc EXCEPT ![p] = "failed"] /\ UNCHANGED <<key, priv>>
      BY <1>2, <2>3 DEF StartKey
    <3> QED
      BY <2>2, <3>1, IdentityFrame DEF Moves, Elsewhere
  <2>4. CASE given # None /\ ~Conflict(given)
    <3>1. pc' = [pc EXCEPT ![p] = "options"] /\ key' = [key EXCEPT ![p] = given] /\ priv' = given
      BY <1>2, <2>4 DEF StartKey
    <3>2. given \in AllKeys /\ priv \in {None, given}
      BY <2>1, <2>4 DEF AllKeys, Conflict
    <3> QED
      BY <2>1, <2>2, <3>1, <3>2, KeySet
  <2>5. CASE given = None /\ priv # None
    <3>1. pc' = [pc EXCEPT ![p] = "options"] /\ key' = [key EXCEPT ![p] = priv] /\ priv' = priv
      BY <1>2, <2>5 DEF StartKey
    <3>2. priv \in AllKeys
      BY <2>5 DEF TypeOK
    <3> QED
      BY <2>1, <2>2, <3>1, <3>2, KeySet
  <2>6. CASE given = None /\ priv = None
    <3>1. pc' = [pc EXCEPT ![p] = "setpriv"] /\ key' = [key EXCEPT ![p] = p] /\ priv' = priv
      BY <1>2, <2>6 DEF StartKey
    <3>2. p # None /\ pc = [q \in Procs |-> pc[q]] /\ key \in [Procs -> Maybe(AllKeys)]
      BY DEF TypeOK
    <3>3. JobInv'
      BY <2>1, <2>2, <3>1, <3>2 DEF JobInv, IdentityInv
    <3>4. KeyInv'
      BY <2>1, <2>2, <3>1, <3>2 DEF KeyInv, IdentityInv
    <3>5. HostInv' /\ OneKey'
      BY <2>2, <3>1, <3>2 DEF HostInv, OneKey, IdentityInv
    <3> QED
      BY <3>3, <3>4, <3>5 DEF IdentityInv
  <2> QED
    BY <2>3, <2>4, <2>5, <2>6
<1>3. ASSUME StartSetPriv(p) PROVE IdentityInv'
  <2> HIDE DEF TypeOK, IdentityInv, JobInv, KeyInv, HostInv, OneKey
  <2>1. Is(p, "start") /\ pc[p] = "setpriv" /\ pc' = [pc EXCEPT ![p] = "options"]
    BY <1>3 DEF StartSetPriv
  <2>2. UNCHANGED <<job, ref, hkey, p2pHost, enr, enrKey>>
    BY <1>3 DEF StartSetPriv
  <2>3. key[p] = p /\ key \in [Procs -> Maybe(AllKeys)] /\ priv \in Maybe(AllKeys)
    BY <2>1 DEF IdentityInv, KeyInv, TypeOK
  <2>4. CASE Conflict(p)
    <3>1. key' = [key EXCEPT ![p] = priv] /\ priv' = priv /\ priv \in AllKeys
      BY <1>3, <2>3, <2>4 DEF StartSetPriv, Conflict
    <3> QED
      BY <2>1, <2>2, <3>1, KeySet
  <2>5. CASE ~Conflict(p)
    <3>1. key' = [key EXCEPT ![p] = p] /\ priv' = p /\ p \in AllKeys /\ priv \in {None, p}
      BY <1>3, <2>3, <2>5 DEF StartSetPriv, Conflict, AllKeys
    <3> QED
      BY <2>1, <2>2, <3>1, KeySet
  <2> QED
    BY <2>4, <2>5
<1>4. ASSUME StartStore(p) PROVE IdentityInv'
  BY <1>4 DEF StartStore
<1>5. ASSUME AddPrivKey(p) PROVE IdentityInv'
  BY <1>5 DEF AddPrivKey
<1>6. ASSUME SetHost(p) PROVE IdentityInv'
  BY <1>6 DEF SetHost
<1>7. ASSUME CloseHost(p) PROVE IdentityInv'
  BY <1>7 DEF CloseHost
<1>8. ASSUME HostClosed(p) PROVE IdentityInv'
  BY <1>8 DEF HostClosed
<1>9. ASSUME NEW ok \in BOOLEAN, StartOptions(p, ok) PROVE IdentityInv'
  BY <1>9 DEF StartOptions
<1>10. ASSUME NEW ok \in BOOLEAN, NewNode(p, ok) PROVE IdentityInv'
  <2> HIDE DEF TypeOK, IdentityInv, JobInv, KeyInv, HostInv, OneKey
  <2>1. pc[p] = "host" /\ UNCHANGED <<job, key, ref, priv, p2pHost, enr, enrKey>>
    BY <1>10 DEF NewNode
  <2>2. CASE ok
    <3>1. pc' = [pc EXCEPT ![p] = "sethost"] /\ hkey' = [hkey EXCEPT ![p] = key[p]]
      BY <1>10, <2>2 DEF NewNode
    <3>2. Is(p, "start") /\ priv # None /\ key[p] = priv
      BY <2>1 DEF IdentityInv, JobInv, KeyInv
    <3>3. /\ pc = [q \in Procs |-> pc[q]] /\ hkey \in [Procs -> Maybe(AllKeys)]
          /\ p2pHost \in Maybe(Procs) /\ ref \in [Procs -> Maybe(Procs)]
      BY DEF TypeOK
    <3>4. JobInv' /\ KeyInv'
      BY <2>1, <3>1, <3>2, <3>3 DEF IdentityInv, JobInv, KeyInv
    <3>5. HostInv'
      BY <2>1, <3>1, <3>2, <3>3 DEF IdentityInv, HostInv
    <3>6. OneKey'
      BY <2>1, <3>1, <3>2, <3>3 DEF IdentityInv, OneKey
    <3> QED
      BY <3>4, <3>5, <3>6 DEF IdentityInv
  <2>3. CASE ~ok
    <3>1. pc' = [pc EXCEPT ![p] = "failed"] /\ UNCHANGED hkey
      BY <1>10, <2>3 DEF NewNode
    <3> QED
      BY <2>1, <3>1, IdentityFrame DEF Moves, Elsewhere
  <2> QED
    BY <2>2, <2>3
<1> QED
  BY <1>1, <1>2, <1>3, <1>4, <1>5, <1>6, <1>7, <1>8, <1>9, <1>10
  DEF HostStep

\* Stores do not change the identity.
LEMMA StoreIdentity ==
    ASSUME TypeOK, IdentityInv, NEW p \in Procs, StoreStep(p)
    PROVE  IdentityInv'
<1> USE ActorAssumption
<1> USE DEF TypeOK, IdentityInv, JobInv, KeyInv, HostInv, OneKey, Is, At, Starts, Goes, Keep, Load,
            KeepsLocals, LocalOnly, HostOnly, StoreOnly, PrivOnly, EnrOnly, hostVars, storeVars, enrVars,
            Maybe
<1>1. ASSUME NEW ok \in BOOLEAN, CreateStore(p, ok) PROVE IdentityInv'
  BY <1>1 DEF CreateStore
<1>2. ASSUME NEW s \in Maybe(Procs), FindStore(p, s) PROVE IdentityInv'
  BY <1>2 DEF FindStore
<1>3. ASSUME Retain(p) PROVE IdentityInv'
  BY <1>3 DEF Retain
<1>4. ASSUME Switch(p) PROVE IdentityInv'
  BY <1>4 DEF Switch
<1> QED
  BY <1>1, <1>2, <1>3, <1>4
  DEF StoreStep

\* enr make fails when its key is not the one that SetPriv has.
LEMMA EnrIdentity ==
    ASSUME TypeOK, IdentityInv, NEW p \in Procs, EnrStep(p)
    PROVE  IdentityInv'
<1> USE ActorAssumption
<1> USE DEF TypeOK, IdentityInv, JobInv, KeyInv, HostInv, OneKey, Is, At, Starts, Goes, Keep, Load,
            KeepsLocals, LocalOnly, HostOnly, StoreOnly, PrivOnly, EnrOnly, hostVars, storeVars, enrVars,
            Maybe
<1>1. ASSUME EnrMake(p) PROVE IdentityInv'
  BY <1>1 DEF EnrMake
<1>2. ASSUME EnrSetPriv(p) PROVE IdentityInv'
  <2> HIDE DEF TypeOK, IdentityInv, JobInv, KeyInv, HostInv, OneKey
  <2>1. Is(p, "enr") /\ pc[p] = "setpriv" /\ UNCHANGED <<job, key, ref, hkey, p2pHost, enr, enrKey>>
    BY <1>2 DEF EnrSetPriv
  <2>2. CASE Conflict(key[p])
    <3>1. pc' = [pc EXCEPT ![p] = "failed"] /\ UNCHANGED priv
      BY <1>2, <2>2 DEF EnrSetPriv
    <3> QED
      BY <2>1, <3>1, IdentityFrame DEF Moves, Elsewhere
  <2>3. CASE ~Conflict(key[p])
    <3>1. pc' = [pc EXCEPT ![p] = "lazy"] /\ priv' = key[p]
      BY <1>2, <2>3 DEF EnrSetPriv
    <3>2. key[p] \in AllKeys /\ key' = [key EXCEPT ![p] = key[p]] /\ priv \in {None, key[p]}
      BY <2>1, <2>3 DEF TypeOK, IdentityInv, KeyInv, Conflict
    <3> QED
      BY <2>1, <3>1, <3>2, KeySet
  <2> QED
    BY <2>2, <2>3
<1>3. ASSUME EnrLazy(p) PROVE IdentityInv'
  BY <1>3 DEF EnrLazy
<1>4. ASSUME NewEnrState(p) PROVE IdentityInv'
  BY <1>4 DEF NewEnrState
<1>5. ASSUME NEW fromHost \in BOOLEAN, EnrFields(p, fromHost) PROVE IdentityInv'
  BY <1>5 DEF EnrFields
<1> QED
  BY <1>1, <1>2, <1>3, <1>4, <1>5
  DEF EnrStep
-----------------------------------------------------------------------------
(* The key follows the host. *)

\* Where commands go that StoresInv says nothing about.
Storeless == Elsewhere \cup {"key", "setpriv", "options", "store", "create", "lazy", "state", "fields"}

\* A host is made after the actor has a key.
LEMMA HostHasKey ==
    ASSUME TypeOK, IdentityInv, HostComing
    PROVE  priv # None
BY DEF TypeOK, IdentityInv, JobInv, KeyInv, HostInv, OneKey, HostComing, Maybe

\* Steps that leave the stores alone.
LEMMA StoresFrame ==
    ASSUME TypeOK, StoresInv, NEW p \in Procs, Moves(p, Storeless),
           UNCHANGED <<stores, current, keys, blind>>, p2pHost' \in {None, p2pHost},
           \A q \in Procs : to'[q] = to[q],
           HostComing => priv' = priv
    PROVE  StoresInv'
<1>1. pc = [q \in Procs |-> pc[q]]
  BY DEF TypeOK
<1>2. StoreInv'
  BY <1>1 DEF StoresInv, StoreInv, Moves, Storeless, Elsewhere
<1>3. HostComing' => HostComing
  BY <1>1 DEF HostComing, Moves, Storeless, Elsewhere
<1>4. KeyStored'
  BY <1>3 DEF StoresInv, KeyStored
<1> QED
  BY <1>2, <1>4 DEF StoresInv

\* The steps of ENR, gossip and discv5 leave the stores alone.
LEMMA OtherStores ==
    ASSUME TypeOK, IdentityInv, StoresInv, NEW p \in Procs,
           EnrStep(p) \/ GossipStep(p) \/ Dv5Step(p)
    PROVE  StoresInv'
<1> USE DEF Moves, Storeless, Elsewhere, Goes, Load, Keep, KeepsLocals, LocalOnly, HostOnly, EnrOnly,
            GossipOnly, Dv5Only, hostVars, storeVars
<1>1. HostComing => priv' = priv
  BY PrivKept, HostHasKey
<1>2. ASSUME EnrStep(p)
      PROVE  Moves(p, Storeless) /\ UNCHANGED <<stores, current, keys, blind, p2pHost, to>>
  BY <1>2 DEF EnrStep, EnrMake, EnrSetPriv, EnrLazy, NewEnrState, EnrFields
<1>3. ASSUME GossipStep(p)
      PROVE  Moves(p, Storeless) /\ UNCHANGED <<stores, current, keys, blind, p2pHost, to>>
  BY <1>3 DEF GossipStep, GossipStart, GossipJoin, TopicJoin, StoreTopic, LoadTopic, TopicClose,
              DeleteTopic, Subscribe, StopLog, NewGossipSub
<1>4. ASSUME Dv5Step(p)
      PROVE  Moves(p, Storeless) /\ UNCHANGED <<stores, current, keys, blind, p2pHost, to>>
  BY <1>4 DEF Dv5Step, Dv5Check, Dv5Use, StopDv5, ClearDv5, Dv5Run
<1>5. Moves(p, Storeless) /\ UNCHANGED <<stores, current, keys, blind, p2pHost, to>>
  BY <1>2, <1>3, <1>4
<1> QED
  BY <1>1, <1>5, StoresFrame

\* Host start adds its key to the current store before there is a host.
LEMMA HostStores ==
    ASSUME TypeOK, IdentityInv, StoresInv, NEW p \in Procs, HostStep(p)
    PROVE  StoresInv'
<1> USE DEF Goes, Keep, KeepsLocals, LocalOnly, HostOnly, StoreOnly, PrivOnly, hostVars, storeVars, At
<1>1. HostComing => priv' = priv
  BY PrivKept, HostHasKey
<1>2. /\ pc = [q \in Procs |-> pc[q]] /\ p # None /\ p2pHost \in Maybe(Procs)
      /\ keys \in [Procs -> SUBSET AllKeys] /\ current \in Maybe(Procs)
  BY ActorAssumption DEF TypeOK, Maybe
<1>3. CASE StartCheck(p) \/ StartKey(p) \/ StartSetPriv(p) \/ CloseHost(p) \/ HostClosed(p)
           \/ \E ok \in BOOLEAN : StartOptions(p, ok)
  <2>1. Moves(p, Storeless) /\ UNCHANGED <<stores, current, keys, blind, to>> /\ p2pHost' \in {None, p2pHost}
    BY <1>3 DEF StartCheck, StartKey, StartSetPriv, CloseHost, HostClosed, StartOptions,
                Moves, Storeless, Elsewhere
  <2> QED
    BY <1>1, <2>1, StoresFrame
<1>4. ASSUME StartStore(p) PROVE StoresInv'
  <2>1. /\ UNCHANGED <<stores, current, keys, blind, to, p2pHost, priv>>
        /\ \/ current # None /\ pc' = [pc EXCEPT ![p] = "node"]
           \/ pc' = [pc EXCEPT ![p] = "create"]
    BY <1>4 DEF StartStore
  <2>2. StoreInv'
    BY <1>2, <2>1 DEF StoresInv, StoreInv
  <2>3. KeyStored'
    BY <1>2, <2>1 DEF StoresInv, KeyStored, HostComing
  <2> QED
    BY <2>2, <2>3 DEF StoresInv
<1>5. ASSUME AddPrivKey(p) PROVE StoresInv'
  <2>1. /\ pc[p] = "node" /\ pc' = [pc EXCEPT ![p] = "host"]
        /\ keys' = [keys EXCEPT ![current] = @ \cup {key[p]}]
        /\ UNCHANGED <<stores, current, blind, to, p2pHost, priv>>
    BY <1>5 DEF AddPrivKey
  <2>2. StoreInv'
    BY <1>2, <2>1 DEF StoresInv, StoreInv
  <2>3. current \in Procs /\ key[p] = priv
    BY <1>2, <2>1 DEF StoresInv, StoreInv, IdentityInv, JobInv, KeyInv, Maybe
  <2>4. KeyStored'
    BY <1>2, <2>1, <2>3 DEF KeyStored
  <2> QED
    BY <2>2, <2>4 DEF StoresInv
<1>6. ASSUME SetHost(p) PROVE StoresInv'
  <2>1. /\ pc[p] = "sethost" /\ p2pHost' \in {p, p2pHost}
        /\ UNCHANGED <<stores, current, keys, blind, to, priv>>
        /\ \E where \in {"done", "failed"} : pc' = [pc EXCEPT ![p] = where]
    BY <1>6 DEF SetHost
  <2>2. StoreInv'
    BY <1>2, <2>1 DEF StoresInv, StoreInv
  <2>3. HostComing
    BY <2>1 DEF HostComing
  <2>4. KeyStored'
    BY <2>1, <2>3 DEF StoresInv, KeyStored
  <2> QED
    BY <2>2, <2>4 DEF StoresInv
<1>7. ASSUME NEW ok \in BOOLEAN, NewNode(p, ok) PROVE StoresInv'
  <2>1. /\ pc[p] = "host" /\ UNCHANGED <<stores, current, keys, blind, to, p2pHost, priv>>
        /\ \E where \in {"sethost", "failed"} : pc' = [pc EXCEPT ![p] = where]
    BY <1>7 DEF NewNode
  <2>2. StoreInv'
    BY <1>2, <2>1 DEF StoresInv, StoreInv
  <2>3. HostComing
    BY <2>1 DEF HostComing
  <2>4. KeyStored'
    BY <2>1, <2>3 DEF StoresInv, KeyStored
  <2> QED
    BY <2>2, <2>4 DEF StoresInv
<1> QED
  BY <1>3, <1>4, <1>5, <1>6, <1>7 DEF HostStep

\* A switch copies the key of the host that it saw.
LEMMA StoreStores ==
    ASSUME TypeOK, IdentityInv, StoresInv, NEW p \in Procs, StoreStep(p)
    PROVE  StoresInv'
<1> USE DEF Goes, Load, KeepsLocals, LocalOnly, HostOnly, StoreOnly, hostVars, storeVars, At
<1>1. /\ pc = [q \in Procs |-> pc[q]] /\ to = [q \in Procs |-> to[q]]
      /\ p2pHost \in Maybe(Procs) /\ None \notin stores /\ stores \subseteq Procs
      /\ keys \in [Procs -> SUBSET AllKeys] /\ current \in Maybe(Procs)
      /\ ref \in [Procs -> Maybe(Procs)]
  BY ActorAssumption DEF TypeOK, Maybe
<1>2. ASSUME NEW ok \in BOOLEAN, CreateStore(p, ok) PROVE StoresInv'
  <2>1. /\ UNCHANGED <<current, keys, blind, p2pHost, priv>>
        /\ to' = [to EXCEPT ![p] = p] /\ stores \subseteq stores'
        /\ \/ p \in stores' /\ pc' = [pc EXCEPT ![p] = "retain"]
           \/ pc' = [pc EXCEPT ![p] = "failed"]
    BY <1>2 DEF CreateStore, Shared
  <2>2. StoreInv'
    BY <1>1, <2>1 DEF StoresInv, StoreInv
  <2>3. KeyStored'
    BY <1>1, <2>1 DEF StoresInv, KeyStored, HostComing
  <2> QED
    BY <2>2, <2>3 DEF StoresInv
<1>3. ASSUME NEW s \in Maybe(Procs), FindStore(p, s) PROVE StoresInv'
  <2>1. /\ UNCHANGED <<stores, current, keys, blind, p2pHost, priv>>
        /\ to' = [to EXCEPT ![p] = s]
        /\ \/ s \in stores /\ pc' = [pc EXCEPT ![p] = "retain"]
           \/ pc' = [pc EXCEPT ![p] = "failed"]
    BY <1>3 DEF FindStore, Maybe
  <2>2. StoreInv'
    BY <1>1, <2>1 DEF StoresInv, StoreInv
  <2>3. KeyStored'
    BY <1>1, <2>1 DEF StoresInv, KeyStored, HostComing
  <2> QED
    BY <2>2, <2>3 DEF StoresInv
<1>4. ASSUME Retain(p) PROVE StoresInv'
  <2>1. /\ pc[p] = "retain" /\ UNCHANGED <<stores, current, keys, blind, p2pHost, priv, to>>
        /\ \E where \in {"done", "switch"} : pc' = [pc EXCEPT ![p] = where]
    BY <1>4 DEF Retain
  <2>2. StoreInv'
    BY <1>1, <2>1 DEF StoresInv, StoreInv
  <2>3. KeyStored'
    BY <1>1, <2>1 DEF StoresInv, KeyStored, HostComing
  <2> QED
    BY <2>2, <2>3 DEF StoresInv
<1>5. ASSUME Switch(p) PROVE StoresInv'
  <2>1. /\ pc[p] = "switch" /\ UNCHANGED <<stores, p2pHost, priv, to>>
        /\ keys' = [keys EXCEPT ![to[p]] = @ \cup Retained(p)]
        /\ current' = to[p]
        /\ blind' = (blind \/ (ref[p] = None /\ HostComing))
        /\ \E where \in {"done", "node"} : pc' = [pc EXCEPT ![p] = where]
    BY <1>5 DEF Switch, HostComing
  <2>2. to[p] \in stores
    BY <2>1 DEF StoresInv, StoreInv
  <2>3. StoreInv'
    BY <1>1, <2>1, <2>2 DEF StoresInv, StoreInv
  <2>4. HostComing' => HostComing
    BY <1>1, <2>1 DEF HostComing
  <2>5. ASSUME HostComing, ~blind' PROVE priv \in keys'[to[p]]
    <3>1. ref[p] # None /\ ~blind
      BY <2>1, <2>5
    <3>2. hkey[ref[p]] = priv
      BY <1>1, <2>1, <3>1 DEF IdentityInv, HostInv, OneKey, Maybe
    <3>3. current # None /\ priv \in keys[current]
      BY <2>5, <3>1 DEF StoresInv, StoreInv, KeyStored, HostComing
    <3>4. priv \in Retained(p)
      BY <3>1, <3>2, <3>3 DEF Retained
    <3> QED
      BY <1>1, <2>1, <2>2, <3>4
  <2>6. KeyStored'
    BY <2>1, <2>4, <2>5 DEF KeyStored
  <2> QED
    BY <2>3, <2>6 DEF StoresInv
<1> QED
  BY <1>2, <1>3, <1>4, <1>5 DEF StoreStep
-----------------------------------------------------------------------------
(* Topics. *)

\* A command that is not putting a topic moves on, and topics stay as they are.
LEMMA TopicsFrame ==
    ASSUME TypeOK, TopicsInv, NEW p \in Procs, pc[p] \notin {"put", "done"},
           NEW where, where \notin {"put", "close", "delete", "subscribe"},
           pc' = [pc EXCEPT ![p] = where],
           UNCHANGED <<topic, joined, lost>>, \A q \in Procs : q # p => ref'[q] = ref[q]
    PROVE  TopicsInv'
<1>1. /\ pc = [q \in Procs |-> pc[q]] /\ topic \in Maybe(Procs) /\ joined \in [Procs -> Maybe(Procs)]
      /\ ref \in [Procs -> Maybe(Procs)]
  BY DEF TypeOK
<1>2. TopicInv'
  BY <1>1 DEF TopicsInv, TopicInv, Maybe
<1>3. TopicsKept'
  BY <1>1 DEF TopicsInv, TopicsKept, Maybe
<1> QED
  BY <1>2, <1>3 DEF TopicsInv

\* The other parts leave topics alone.
LEMMA OtherTopics ==
    ASSUME TypeOK, TopicsInv, NEW p \in Procs,
           HostStep(p) \/ StoreStep(p) \/ EnrStep(p) \/ Dv5Step(p)
    PROVE  TopicsInv'
<1> DEFINE Alone == /\ pc[p] \notin {"put", "done"}
                    /\ \E where : /\ where \notin {"put", "close", "delete", "subscribe"}
                                  /\ pc' = [pc EXCEPT ![p] = where]
                    /\ UNCHANGED <<topic, joined, lost>>
<1> USE DEF Goes, Load, Keep, KeepsLocals, LocalOnly, HostOnly, StoreOnly, PrivOnly, EnrOnly,
            Dv5Only, hostVars, storeVars, enrVars, gossipVars, At, Starts
<1>1. ref = [q \in Procs |-> ref[q]]
  BY DEF TypeOK
<1>2. ASSUME HostStep(p) PROVE Alone /\ UNCHANGED ref
  BY <1>2 DEF HostStep, StartCheck, StartKey, StartSetPriv, StartStore, AddPrivKey, SetHost,
              CloseHost, HostClosed, StartOptions, NewNode
<1>3. ASSUME StoreStep(p) PROVE Alone /\ \E x : ref' = [ref EXCEPT ![p] = x]
  BY <1>1, <1>3 DEF StoreStep, CreateStore, FindStore, Retain, Switch
<1>4. ASSUME EnrStep(p) PROVE Alone /\ UNCHANGED ref
  BY <1>4 DEF EnrStep, EnrMake, EnrSetPriv, EnrLazy, NewEnrState, EnrFields
<1>5. ASSUME Dv5Step(p) PROVE Alone /\ UNCHANGED ref
  BY <1>5 DEF Dv5Step, Dv5Check, Dv5Use, StopDv5, ClearDv5, Dv5Run
<1>6. Alone /\ \A q \in Procs : q # p => ref'[q] = ref[q]
  BY <1>1, <1>2, <1>3, <1>4, <1>5
<1> QED
  BY <1>6, TopicsFrame

\* Joins register what they joined, and leaves delete what they closed.
LEMMA GossipTopics ==
    ASSUME TypeOK, TopicsInv, NEW p \in Procs, GossipStep(p)
    PROVE  TopicsInv'
<1> USE DEF Goes, Load, KeepsLocals, LocalOnly, HostOnly, GossipOnly, hostVars, gossipVars, At, Starts
<1>1. /\ pc = [q \in Procs |-> pc[q]] /\ topic \in Maybe(Procs) /\ joined \in [Procs -> Maybe(Procs)]
      /\ ref \in [Procs -> Maybe(Procs)] /\ p # None /\ gs \in Maybe(Procs)
  BY ActorAssumption DEF TypeOK, Maybe
<1>2. CASE GossipStart(p) \/ GossipJoin(p) \/ Subscribe(p) \/ StopLog(p)
           \/ \E ok \in BOOLEAN : NewGossipSub(p, ok)
  <2>1. /\ pc[p] \notin {"put", "done"}
        /\ \E where : /\ where \notin {"put", "close", "delete", "subscribe"}
                      /\ pc' = [pc EXCEPT ![p] = where]
        /\ UNCHANGED <<topic, joined, lost, ref>>
    BY <1>2 DEF GossipStart, GossipJoin, Subscribe, StopLog, NewGossipSub
  <2> QED
    BY <2>1, TopicsFrame
<1>3. ASSUME TopicJoin(p) PROVE TopicsInv'
  <2>1. pc[p] = "join" /\ UNCHANGED <<topic, lost, ref>>
    BY <1>3 DEF TopicJoin
  <2>2. CASE UNCHANGED <<pc, joined>>
    BY <2>1, <2>2 DEF TopicsInv, TopicInv, TopicsKept
  <2>3. CASE UNCHANGED joined /\ pc' = [pc EXCEPT ![p] = "failed"]
    BY <2>1, <2>3, TopicsFrame
  <2>4. CASE gs # None /\ joined' = [joined EXCEPT ![gs] = p] /\ pc' = [pc EXCEPT ![p] = "put"]
    <3>1. TopicInv'
      <4>1. (topic # None => pc[topic] = "done")'
        BY <1>1, <2>1, <2>4 DEF TopicsInv, TopicInv, Maybe
      <4>2. (\A g \in Procs : joined[g] # None => pc[joined[g]] \in {"put", "done"})'
        BY <1>1, <2>1, <2>4 DEF TopicsInv, TopicInv, Maybe
      <4>3. (\A q \in Procs : pc[q] \in {"close", "delete", "subscribe"} => ref[q] # None /\ pc[ref[q]] = "done")'
        BY <1>1, <2>1, <2>4 DEF TopicsInv, TopicInv, Maybe
      <4>4. (\A q \in Procs : pc[q] = "delete" => \A g \in Procs : joined[g] # ref[q])'
        BY <1>1, <2>1, <2>4 DEF TopicsInv, TopicInv, Maybe
      <4> QED
        BY <4>1, <4>2, <4>3, <4>4 DEF TopicInv
    <3>2. TopicsKept'
      BY <1>1, <2>1, <2>4 DEF TopicsInv, TopicsKept, Maybe
    <3> QED
      BY <3>1, <3>2 DEF TopicsInv
  <2> QED
    BY <1>3, <2>2, <2>3, <2>4 DEF TopicJoin
<1>4. ASSUME StoreTopic(p) PROVE TopicsInv'
  <2>1. /\ pc[p] = "put" /\ topic' = p /\ lost' = (lost \/ topic # None)
        /\ pc' = [pc EXCEPT ![p] = "done"] /\ UNCHANGED <<joined, ref>>
    BY <1>4 DEF StoreTopic
  <2>2. TopicInv'
    BY <1>1, <2>1 DEF TopicsInv, TopicInv, Maybe
  <2>3. TopicsKept'
    BY <1>1, <2>1 DEF TopicsInv, TopicsKept, Maybe
  <2> QED
    BY <2>2, <2>3 DEF TopicsInv
<1>5. ASSUME LoadTopic(p) PROVE TopicsInv'
  <2>1. /\ pc[p] = "idle" /\ ref' = [ref EXCEPT ![p] = topic] /\ UNCHANGED <<joined, topic, lost>>
        /\ \/ pc' = [pc EXCEPT ![p] = "failed"]
           \/ topic # None /\ \E where \in {"close", "subscribe"} : pc' = [pc EXCEPT ![p] = where]
    BY <1>5 DEF LoadTopic
  <2>2. TopicInv'
    BY <1>1, <2>1 DEF TopicsInv, TopicInv, Maybe
  <2>3. TopicsKept'
    BY <1>1, <2>1 DEF TopicsInv, TopicsKept, Maybe
  <2> QED
    BY <2>2, <2>3 DEF TopicsInv
<1>6. ASSUME TopicClose(p) PROVE TopicsInv'
  <2>1. pc[p] = "close" /\ UNCHANGED <<topic, lost, ref>>
    BY <1>6 DEF TopicClose
  <2>2. CASE UNCHANGED joined /\ pc' = [pc EXCEPT ![p] = "failed"]
    BY <2>1, <2>2, TopicsFrame
  <2>3. CASE /\ joined' = [g \in Procs |-> IF joined[g] = ref[p] THEN None ELSE joined[g]]
             /\ pc' = [pc EXCEPT ![p] = "delete"]
    <3>1. TopicInv'
      BY <1>1, <2>1, <2>3 DEF TopicsInv, TopicInv, Maybe
    <3>2. TopicsKept'
      BY <1>1, <2>1, <2>3 DEF TopicsInv, TopicsKept, Maybe
    <3> QED
      BY <3>1, <3>2 DEF TopicsInv
  <2> QED
    BY <1>6, <2>2, <2>3 DEF TopicClose
<1>7. ASSUME DeleteTopic(p) PROVE TopicsInv'
  <2>1. /\ pc[p] = "delete" /\ topic' = None /\ lost' = (lost \/ topic \notin {None, ref[p]})
        /\ pc' = [pc EXCEPT ![p] = "done"] /\ UNCHANGED <<joined, ref>>
    BY <1>7 DEF DeleteTopic
  <2>2. TopicInv'
    BY <1>1, <2>1 DEF TopicsInv, TopicInv, Maybe
  <2>3. \A g \in Procs : joined[g] # ref[p]
    BY <2>1 DEF TopicsInv, TopicInv
  <2>4. TopicsKept'
    BY <1>1, <2>1, <2>3 DEF TopicsInv, TopicsKept, Maybe
  <2> QED
    BY <2>2, <2>4 DEF TopicsInv
<1> QED
  BY <1>2, <1>3, <1>4, <1>5, <1>6, <1>7 DEF GossipStep
-----------------------------------------------------------------------------
(* The theorems. *)

LEMMA InitInv == Init => Inv
<1> SUFFICES ASSUME Init PROVE Inv
  OBVIOUS
<1> USE ActorAssumption DEF Init
<1>1. TypeOK
  BY DEF TypeOK, Maybe, AllKeys
<1>2. IdentityInv
  BY DEF IdentityInv, JobInv, KeyInv, HostInv, OneKey
<1>3. StoresInv
  BY DEF StoresInv, StoreInv, KeyStored, HostComing
<1>4. TopicsInv
  BY DEF TopicsInv, TopicInv, TopicsKept
<1> QED
  BY <1>1, <1>2, <1>3, <1>4 DEF Inv

LEMMA NextInv == Inv /\ [Next]_vars => Inv'
<1> SUFFICES ASSUME Inv, [Next]_vars PROVE Inv'
  OBVIOUS
<1>1. CASE Next
  <2>1. PICK p \in Procs : HostStep(p) \/ StoreStep(p) \/ EnrStep(p) \/ GossipStep(p) \/ Dv5Step(p)
    BY <1>1 DEF Next
  <2>2. TypeOK'
    BY <2>1, StepType DEF Inv, IdentityInv, StoresInv, TopicsInv
  <2>3. IdentityInv'
    BY <2>1, HostIdentity, StoreIdentity, EnrIdentity, GossipIdentity DEF Inv
  <2>4. StoresInv'
    BY <2>1, HostStores, StoreStores, OtherStores DEF Inv
  <2>5. TopicsInv'
    BY <2>1, GossipTopics, OtherTopics DEF Inv
  <2> QED
    BY <2>2, <2>3, <2>4, <2>5 DEF Inv
<1>2. CASE UNCHANGED vars
  <2> USE <1>2 DEF vars, procVars, hostVars, storeVars, enrVars, gossipVars, dv5Vars, Inv
  <2>1. TypeOK'
    BY DEF TypeOK
  <2>2. IdentityInv'
    BY DEF IdentityInv, JobInv, KeyInv, HostInv, OneKey, Is
  <2>3. StoresInv'
    BY DEF StoresInv, StoreInv, KeyStored, HostComing
  <2>4. TopicsInv'
    BY DEF TopicsInv, TopicInv, TopicsKept
  <2> QED
    BY <2>1, <2>2, <2>3, <2>4
<1> QED
  BY <1>1, <1>2

\* The inductive invariant holds of every behaviour of an actor.
THEOREM Invariance == Spec => []Inv
<1>1. Init => Inv
  BY InitInv
<1>2. Inv /\ [Next]_vars => Inv'
  BY NextInv
<1> QED
  BY <1>1, <1>2, PTL DEF Spec

\* The parts of an actor have their types: among others, a command that waits for
\* a handle, a store or a key has one, and the current store is a shared one.
THEOREM TypeCorrect == Spec => []TypeOK
<1>1. Inv => TypeOK
  BY DEF Inv
<1> QED
  BY <1>1, Invariance, PTL

\* SetPriv, called from racing host starts and enr makes, gives the actor one key:
\* every host and the ENR have it.
THEOREM OneIdentity == Spec => []OneKey
<1>1. Inv => OneKey
  BY DEF Inv, IdentityInv
<1> QED
  BY <1>1, Invariance, PTL

\* Unless Switch was called with a host that was read too early, the key of the
\* running host is in the current peerstore, through all switches and restarts.
THEOREM KeyStays == Spec => []KeyFollowsHost
<1>1. Inv => KeyFollowsHost
  <2> SUFFICES ASSUME Inv, p2pHost \in open, ~blind PROVE hkey[p2pHost] \in keys[current]
    BY DEF KeyFollowsHost
  <2>1. p2pHost \in Procs /\ p2pHost # None
    BY ActorAssumption DEF Inv, TypeOK
  <2>2. hkey[p2pHost] = priv
    BY <2>1 DEF Inv, IdentityInv, HostInv, OneKey
  <2>3. priv \in keys[current]
    BY <2>1 DEF Inv, StoresInv, KeyStored, HostComing
  <2> QED
    BY <2>2, <2>3
<1> QED
  BY <1>1, Invariance, PTL

\* Whatever joins and leaves race, a topic that pubsub has joined is registered or
\* about to be, until a leave deletes the entry of another join by name.
THEOREM TopicsAreKept == Spec => []TopicsKept
<1>1. Inv => TopicsKept
  BY DEF Inv, TopicsInv
<1> QED
  BY <1>1, Invariance, PTL
=============================================================================
