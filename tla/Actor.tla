------------------------------- MODULE Actor -------------------------------
(***************************************************************************)
(* One actor: its private key, host, peerstores, local ENR, gossip and     *)
(* discv5 node, and the commands that make and end them. Commands of one   *)
(* actor run concurrently. Two of these parts have locks (the key and the  *)
(* host); the others are checked first and written later.                  *)
(*                                                                         *)
(* A process is one command. What it makes (a key, host, store, ENR state, *)
(* gossip node, topic handle, discv5 node) is named after it.              *)
(***************************************************************************)
EXTENDS Integers, FiniteSets

CONSTANTS
    Procs,  \* the commands
    Plans,  \* functions that give each process its command
    Keys,   \* private keys that users give
    None    \* nil

Maybe(S) == S \cup {None}
AllKeys == Procs \cup Keys
Fields == {"ip", "port", "attnets", "eth2"}

\* The commands, with the options that matter.
Jobs ==
    [op : {"start"}, key : Maybe(Keys)]
    \cup [op : {"create"}, switch : BOOLEAN]
    \cup [op : {"enr"}, key : Maybe(Keys), gen : BOOLEAN, changed : SUBSET Fields, rmip : BOOLEAN]
    \cup [op : {"stop", "switch", "gossip", "join", "leave", "log", "events", "publish",
                "dv5", "ping", "random", "none"}]

ASSUME ActorAssumption ==
    /\ None \notin Procs \cup Keys /\ Procs \cap Keys = {}
    /\ \A plan \in Plans : plan \in [Procs -> Jobs]

VARIABLES
    job, pc,        \* the command of a process, and where it is
    key, ref, to,   \* its local values: a key, what it loaded, a store
    priv,           \* the key of the actor
    p2pHost, hLock, \* HostState, and who holds its lock
    open,           \* hosts that were made and not closed
    hkey,           \* the key each host was made with
    stores,         \* GlobalPeerstores
    current,        \* the store in CurrentPeerstore
    keys,           \* the private keys in each store
    enr, enrKey, enrVals, \* LazyEnrState.Current, the key and the entries of each state
    gs,             \* GsNode
    topic,          \* Topics: the handle that is registered for the topic
    joined,         \* each gossip node: the handle of the topic
    subs, handlers, \* subscriptions and event handlers, with the handle they are for
    dv5, dv5Open,   \* Dv5Node, and the nodes that are open
    crashed,        \* a nil pointer was used
    blind,          \* a switch did not see a host that had stored its key (history)
    lost            \* the registration of a joined topic was overwritten or deleted (history)

procVars == <<job, pc, key, ref, to>>
hostVars == <<p2pHost, hLock, open, hkey>>
storeVars == <<stores, current, keys, blind>>
enrVars == <<enr, enrKey, enrVals>>
gossipVars == <<gs, topic, joined, subs, handlers, lost>>
dv5Vars == <<dv5, dv5Open>>
vars == <<procVars, priv, hostVars, storeVars, enrVars, gossipVars, dv5Vars, crashed>>

TypeOK ==
    /\ job \in Plans
    /\ pc \in [Procs -> {"idle", "key", "setpriv", "options", "store", "create", "retain",
                         "switch", "node", "host", "sethost", "closing", "lazy", "state",
                         "fields", "check", "new", "join", "put", "close", "delete",
                         "subscribe", "use", "running", "clear", "done", "failed"}]
    /\ key \in [Procs -> Maybe(AllKeys)] /\ priv \in Maybe(AllKeys)
    /\ ref \in [Procs -> Maybe(Procs)] /\ to \in [Procs -> Maybe(Procs)]
    /\ p2pHost \in Maybe(Procs) /\ hLock \in Maybe(Procs)
    /\ open \subseteq Procs /\ hkey \in [Procs -> Maybe(AllKeys)]
    /\ stores \subseteq Procs /\ current \in Maybe(stores)
    /\ keys \in [Procs -> SUBSET AllKeys]
    /\ enr \in Maybe(Procs) /\ enrKey \in [Procs -> Maybe(AllKeys)]
    /\ enrVals \in [Procs -> [Fields -> Maybe(Procs)]]
    /\ gs \in Maybe(Procs) /\ topic \in Maybe(Procs)
    /\ joined \in [Procs -> Maybe(Procs)]
    /\ subs \subseteq Procs \X Procs /\ handlers \subseteq Procs \X Procs
    /\ dv5 \in Maybe(Procs) /\ dv5Open \subseteq Procs
    /\ {crashed, blind, lost} \subseteq BOOLEAN

\* NewActor: only the dynamic peerstore is there, without a store.
Init ==
    /\ job \in Plans
    /\ pc = [p \in Procs |-> "idle"]
    /\ key = [p \in Procs |-> None] /\ ref = key /\ to = key
    /\ priv = None
    /\ p2pHost = None /\ hLock = None /\ open = {} /\ hkey = key
    /\ stores = {} /\ current = None /\ keys = [p \in Procs |-> {}]
    /\ enr = None /\ enrKey = key
    /\ enrVals = [p \in Procs |-> [f \in Fields |-> None]]
    /\ gs = None /\ topic = None /\ joined = key /\ subs = {} /\ handlers = {}
    /\ dv5 = None /\ dv5Open = {}
    /\ crashed = FALSE /\ blind = FALSE /\ lost = FALSE

Is(p, op) == job[p].op = op
At(p, where) == pc[p] = where
Starts(p, op) == At(p, "idle") /\ Is(p, op)
Goes(p, where) == pc' = [pc EXCEPT ![p] = where]
Keep(p, k) == key' = [key EXCEPT ![p] = k]
Load(p, x) == ref' = [ref EXCEPT ![p] = x]
KeepsLocals == UNCHANGED <<job, key, ref, to>>

\* The processes whose steps may have changed only these.
HostOnly == UNCHANGED <<priv, storeVars, enrVars, gossipVars, dv5Vars, crashed>>
StoreOnly == UNCHANGED <<priv, hostVars, enrVars, gossipVars, dv5Vars, crashed>>
PrivOnly == UNCHANGED <<hostVars, storeVars, enrVars, gossipVars, dv5Vars, crashed>>
EnrOnly == UNCHANGED <<hostVars, storeVars, gossipVars, dv5Vars, crashed>>
GossipOnly == UNCHANGED <<priv, hostVars, storeVars, enrVars, dv5Vars>>
Dv5Only == UNCHANGED <<priv, hostVars, storeVars, enrVars, gossipVars>>
LocalOnly == HostOnly /\ UNCHANGED hostVars
-----------------------------------------------------------------------------
(* The private key *)

\* Mutant: the key that is already there is not compared.
Conflict_Unchecked(k) == FALSE

\* SetPriv refuses another key than the one of the actor.
Conflict(k) == priv # None /\ priv # k

\* Host start looks for a host, and for the key to use.
StartCheck(p) ==
    /\ Starts(p, "start")
    /\ Goes(p, IF p2pHost = None THEN "key" ELSE "failed")
    /\ KeepsLocals /\ LocalOnly

StartKey(p) ==
    LET given == job[p].key
    IN  /\ At(p, "key") /\ Is(p, "start")
        /\ IF given # None
           THEN IF Conflict(given) THEN Goes(p, "failed") /\ UNCHANGED <<key, priv>>
                ELSE Goes(p, "options") /\ Keep(p, given) /\ priv' = given
           ELSE /\ Goes(p, IF priv = None THEN "setpriv" ELSE "options")
                /\ Keep(p, IF priv = None THEN p ELSE priv)
                /\ UNCHANGED priv
        /\ UNCHANGED <<job, ref, to>> /\ PrivOnly

\* The generated key is set, unless a key has come in between: then that is used.
StartSetPriv(p) ==
    /\ At(p, "setpriv") /\ Is(p, "start")
    /\ IF Conflict(p) THEN Keep(p, priv) /\ UNCHANGED priv
       ELSE priv' = p /\ UNCHANGED key
    /\ Goes(p, "options")
    /\ UNCHANGED <<job, ref, to>> /\ PrivOnly

\* Transports, muxers and security protocols are recognized, or not.
StartOptions(p, ok) ==
    /\ At(p, "options")
    /\ Goes(p, IF ok THEN "store" ELSE "failed")
    /\ KeepsLocals /\ LocalOnly

\* A peerstore is created if there is none.
StartStore(p) ==
    /\ At(p, "store")
    /\ Goes(p, IF current = None THEN "create" ELSE "node")
    /\ KeepsLocals /\ LocalOnly
-----------------------------------------------------------------------------
(* Peerstores *)

Shared(p) == stores \cup {p}

\* CreateCmd, as a command or within host start. Its errors: the type, path or name.
CreateStore(p, ok) ==
    /\ At(p, "create") \/ Starts(p, "create")
    /\ stores' = IF ok THEN Shared(p) ELSE stores
    /\ Goes(p, IF ok THEN "retain" ELSE "failed")
    /\ to' = [to EXCEPT ![p] = p]
    /\ UNCHANGED <<job, key, ref, current, keys, blind>> /\ StoreOnly

\* SwitchCmd finds a store.
FindStore(p, s) ==
    /\ Starts(p, "switch")
    /\ s \in Maybe(stores)
    /\ Goes(p, IF s = None THEN "failed" ELSE "retain")
    /\ to' = [to EXCEPT ![p] = s]
    /\ UNCHANGED <<job, key, ref>> /\ LocalOnly

\* Host() is read before Switch is called.
Retain(p) ==
    /\ At(p, "retain")
    /\ Load(p, p2pHost)
    /\ Goes(p, IF Is(p, "create") /\ ~job[p].switch THEN "done" ELSE "switch")
    /\ UNCHANGED <<job, key, to>> /\ LocalOnly

\* Mutant: the key of the local peer is not copied.
Retained_Not(p) == {}

\* The key of the peer to retain, if the old store has it.
Retained(p) ==
    IF current = None \/ ref[p] = None THEN {} ELSE keys[current] \cap {hkey[ref[p]]}

\* dynStore.Switch
Switch(p) ==
    /\ At(p, "switch")
    /\ keys' = [keys EXCEPT ![to[p]] = @ \cup Retained(p)]
    /\ current' = to[p]
    /\ blind' = (blind \/ (/\ ref[p] = None
                           /\ p2pHost # None \/ \E q \in Procs : pc[q] \in {"host", "sethost"}))
    /\ Goes(p, IF Is(p, "start") THEN "node" ELSE "done")
    /\ KeepsLocals /\ UNCHANGED stores /\ StoreOnly
-----------------------------------------------------------------------------
(* The host *)

\* NewNetwork, in NewNode, adds the key to the current store.
AddPrivKey(p) ==
    /\ At(p, "node")
    /\ keys' = [keys EXCEPT ![current] = @ \cup {key[p]}]
    /\ Goes(p, "host")
    /\ KeepsLocals /\ UNCHANGED <<stores, current, blind>> /\ StoreOnly

\* The rest of NewNode. A signed record needs the key from the current store.
NewNode(p, ok) ==
    /\ At(p, "host")
    /\ ok => key[p] \in keys[current]
    /\ IF ok THEN open' = open \cup {p} /\ hkey' = [hkey EXCEPT ![p] = key[p]]
       ELSE UNCHANGED <<open, hkey>>
    /\ Goes(p, IF ok THEN "sethost" ELSE "failed")
    /\ KeepsLocals /\ UNCHANGED <<p2pHost, hLock>> /\ HostOnly

\* When another start was faster, this host stays open and nothing refers to it.
SetHost(p) ==
    /\ At(p, "sethost") /\ hLock = None
    /\ p2pHost' = IF p2pHost = None THEN p ELSE p2pHost
    /\ Goes(p, IF p2pHost = None THEN "done" ELSE "failed")
    /\ KeepsLocals /\ UNCHANGED <<hLock, open, hkey>> /\ HostOnly

\* CloseHost keeps the lock while the host closes.
CloseHost(p) ==
    /\ Starts(p, "stop") /\ hLock = None
    /\ hLock' = IF p2pHost = None THEN None ELSE p
    /\ open' = open \ {p2pHost}
    /\ Goes(p, IF p2pHost = None THEN "failed" ELSE "closing")
    /\ KeepsLocals /\ UNCHANGED <<p2pHost, hkey>> /\ HostOnly

HostClosed(p) ==
    /\ At(p, "closing")
    /\ p2pHost' = None /\ hLock' = None
    /\ Goes(p, "done")
    /\ KeepsLocals /\ UNCHANGED <<open, hkey>> /\ HostOnly
-----------------------------------------------------------------------------
(* The local ENR *)

\* The given key, the one of the ENR, the one of the actor, or a new one.
EnrMake(p) ==
    LET known == IF job[p].key # None THEN job[p].key
                 ELSE IF enr # None THEN enrKey[enr] ELSE priv
    IN  /\ Starts(p, "enr")
        /\ Keep(p, IF known = None THEN p ELSE known)
        /\ Goes(p, IF known = None /\ ~job[p].gen THEN "failed" ELSE "setpriv")
        /\ UNCHANGED <<job, ref, to>> /\ LocalOnly

EnrSetPriv(p) ==
    /\ At(p, "setpriv") /\ Is(p, "enr")
    /\ Goes(p, IF Conflict(key[p]) THEN "failed" ELSE "lazy")
    /\ priv' = IF Conflict(key[p]) THEN priv ELSE key[p]
    /\ KeepsLocals /\ UNCHANGED enrVars /\ EnrOnly

EnrLazy(p) ==
    /\ At(p, "lazy")
    /\ Goes(p, IF enr = None THEN "state" ELSE "fields")
    /\ KeepsLocals /\ LocalOnly

\* NewEnrState; the state of another make that came in between is replaced.
NewEnrState(p) ==
    /\ At(p, "state")
    /\ enr' = p /\ enrKey' = [enrKey EXCEPT ![p] = key[p]]
    /\ Goes(p, "fields")
    /\ KeepsLocals /\ UNCHANGED <<priv, enrVals>> /\ EnrOnly

\* The entries that are set: those that were asked for, the address and port of
\* the host, and a default port if there is none.
EnrFields(p, fromHost) ==
    LET changed == job[p].changed \cup IF fromHost THEN {"ip", "port"} ELSE {}
    IN  /\ At(p, "fields")
        /\ fromHost => p2pHost # None
        /\ enrVals' = [enrVals EXCEPT ![enr] =
               [f \in Fields |-> IF f = "ip" /\ job[p].rmip THEN None
                                 ELSE IF f \in changed \/ (f = "port" /\ @[f] = None) THEN p
                                 ELSE @[f]]]
        /\ Goes(p, "done")
        /\ KeepsLocals /\ UNCHANGED <<priv, enr, enrKey>> /\ EnrOnly
-----------------------------------------------------------------------------
(* Gossip, with one topic *)

\* gossip start: there must be a host, and no gossip node.
GossipStart(p) ==
    /\ Starts(p, "gossip")
    /\ Goes(p, IF p2pHost = None \/ gs # None THEN "failed" ELSE "new")
    /\ KeepsLocals /\ LocalOnly

\* The result is assigned, nil if there was an error.
NewGossipSub(p, ok) ==
    /\ At(p, "new")
    /\ gs' = IF ok THEN p ELSE None
    /\ Goes(p, IF ok THEN "done" ELSE "failed")
    /\ KeepsLocals /\ UNCHANGED <<topic, joined, subs, handlers, lost, crashed>> /\ GossipOnly

GossipJoin(p) ==
    /\ Starts(p, "join")
    /\ Goes(p, IF gs = None \/ topic # None THEN "failed" ELSE "join")
    /\ KeepsLocals /\ LocalOnly

\* Join of pubsub refuses a topic that is joined.
TopicJoin(p) ==
    /\ At(p, "join")
    /\ IF gs = None THEN crashed' = TRUE /\ UNCHANGED <<joined, pc>>
       ELSE /\ joined' = IF joined[gs] = None THEN [joined EXCEPT ![gs] = p] ELSE joined
            /\ Goes(p, IF joined[gs] = None THEN "put" ELSE "failed")
            /\ UNCHANGED crashed
    /\ KeepsLocals /\ UNCHANGED <<gs, topic, subs, handlers, lost>> /\ GossipOnly

StoreTopic(p) ==
    /\ At(p, "put")
    /\ topic' = p
    /\ lost' = (lost \/ topic # None)
    /\ Goes(p, "done")
    /\ KeepsLocals /\ UNCHANGED <<gs, joined, subs, handlers, crashed>> /\ GossipOnly

\* leave, log, events, publish and list-peers load the handle.
LoadTopic(p) ==
    /\ At(p, "idle") /\ job[p].op \in {"leave", "log", "events", "publish"}
    /\ Load(p, topic)
    /\ Goes(p, IF gs = None \/ topic = None THEN "failed"
               ELSE IF Is(p, "leave") THEN "close" ELSE "subscribe")
    /\ UNCHANGED <<job, key, to>> /\ LocalOnly

Joined(h) == \E g \in Procs : joined[g] = h

\* Topic.Close refuses while there are subscriptions or event handlers. A handle
\* that is closed is closed without an error.
Refuses(h) == Joined(h) /\ \E q \in Procs : <<q, h>> \in subs \cup handlers

\* Mutant: the error of Close is dropped.
TopicClose_Forgives(p) ==
    /\ At(p, "close")
    /\ joined' = [g \in Procs |-> IF joined[g] = ref[p] /\ ~Refuses(ref[p]) THEN None
                                  ELSE joined[g]]
    /\ Goes(p, "delete")
    /\ KeepsLocals /\ UNCHANGED <<gs, topic, subs, handlers, lost, crashed>> /\ GossipOnly

TopicClose(p) ==
    /\ At(p, "close")
    /\ IF Refuses(ref[p]) THEN Goes(p, "failed") /\ UNCHANGED joined
       ELSE /\ joined' = [g \in Procs |-> IF joined[g] = ref[p] THEN None ELSE joined[g]]
            /\ Goes(p, "delete")
    /\ KeepsLocals /\ UNCHANGED <<gs, topic, subs, handlers, lost, crashed>> /\ GossipOnly

\* The entry is deleted by name: it may be the one of a later join.
DeleteTopic(p) ==
    /\ At(p, "delete")
    /\ topic' = None
    /\ lost' = (lost \/ topic \notin {None, ref[p]})
    /\ Goes(p, "done")
    /\ KeepsLocals /\ UNCHANGED <<gs, joined, subs, handlers, crashed>> /\ GossipOnly

\* log subscribes and events adds an event handler, if the handle is not closed;
\* publish and list-peers use it once.
Subscribe(p) ==
    LET ok == Joined(ref[p])
    IN  /\ At(p, "subscribe")
        /\ subs' = IF ok /\ Is(p, "log") THEN subs \cup {<<p, ref[p]>>} ELSE subs
        /\ handlers' = IF ok /\ Is(p, "events") THEN handlers \cup {<<p, ref[p]>>} ELSE handlers
        /\ Goes(p, IF ~ok THEN "failed" ELSE IF Is(p, "publish") THEN "done" ELSE "running")
        /\ KeepsLocals /\ UNCHANGED <<gs, topic, joined, lost, crashed>> /\ GossipOnly

\* A stop cancels the subscription. It does not cancel an event handler.
StopLog(p) ==
    /\ At(p, "running") /\ job[p].op \in {"log", "events"}
    /\ subs' = subs \ {<<p, ref[p]>>}
    /\ Goes(p, "done")
    /\ KeepsLocals /\ UNCHANGED <<gs, topic, joined, handlers, lost, crashed>> /\ GossipOnly
-----------------------------------------------------------------------------
(* Discv5 *)

\* Every dv5 command needs an ENR; dv5 run no node, and the others one.
Dv5Check(p) ==
    /\ At(p, "idle") /\ job[p].op \in {"dv5", "ping", "random"}
    /\ Goes(p, IF enr = None \/ (Is(p, "dv5") <=> dv5 # None) THEN "failed" ELSE "use")
    /\ KeepsLocals /\ LocalOnly

\* The result of NewDiscV5 is assigned, nil if there was an error.
Dv5Run(p, ok) ==
    /\ At(p, "use") /\ Is(p, "dv5")
    /\ dv5' = IF ok THEN p ELSE None
    /\ dv5Open' = IF ok THEN dv5Open \cup {p} ELSE dv5Open
    /\ Goes(p, IF ok THEN "running" ELSE "failed")
    /\ KeepsLocals /\ UNCHANGED crashed /\ Dv5Only

\* ping, resolve, request, lookup and self use the node once; random goes on.
Dv5Use(p) ==
    /\ At(p, "use") /\ job[p].op \in {"ping", "random"}
    /\ crashed' = (dv5 = None)
    /\ Goes(p, IF Is(p, "random") THEN "running" ELSE "done")
    /\ KeepsLocals /\ UNCHANGED dv5Vars /\ Dv5Only

\* A stop of dv5 run closes the node that is the current one.
StopDv5(p) ==
    /\ At(p, "running") /\ job[p].op \in {"dv5", "random"}
    /\ crashed' = (Is(p, "dv5") /\ dv5 = None)
    /\ dv5Open' = IF Is(p, "dv5") THEN dv5Open \ {dv5} ELSE dv5Open
    /\ Goes(p, IF Is(p, "dv5") THEN "clear" ELSE "done")
    /\ KeepsLocals /\ UNCHANGED dv5 /\ Dv5Only

ClearDv5(p) ==
    /\ At(p, "clear")
    /\ dv5' = None
    /\ Goes(p, "done")
    /\ KeepsLocals /\ UNCHANGED <<dv5Open, crashed>> /\ Dv5Only
-----------------------------------------------------------------------------
HostStep(p) ==
    \/ StartCheck(p) \/ StartKey(p) \/ StartSetPriv(p) \/ StartStore(p)
    \/ AddPrivKey(p) \/ SetHost(p) \/ CloseHost(p) \/ HostClosed(p)
    \/ \E ok \in BOOLEAN : StartOptions(p, ok) \/ NewNode(p, ok)
StoreStep(p) ==
    \/ \E ok \in BOOLEAN : CreateStore(p, ok)
    \/ \E s \in Maybe(Procs) : FindStore(p, s)
    \/ Retain(p) \/ Switch(p)
EnrStep(p) ==
    \/ EnrMake(p) \/ EnrSetPriv(p) \/ EnrLazy(p) \/ NewEnrState(p)
    \/ \E fromHost \in BOOLEAN : EnrFields(p, fromHost)
GossipStep(p) ==
    \/ GossipStart(p) \/ GossipJoin(p) \/ TopicJoin(p) \/ StoreTopic(p)
    \/ LoadTopic(p) \/ TopicClose(p) \/ DeleteTopic(p) \/ Subscribe(p) \/ StopLog(p)
    \/ \E ok \in BOOLEAN : NewGossipSub(p, ok)
Dv5Step(p) ==
    \/ Dv5Check(p) \/ Dv5Use(p) \/ StopDv5(p) \/ ClearDv5(p)
    \/ \E ok \in BOOLEAN : Dv5Run(p, ok)

Next == ~crashed /\ \E p \in Procs :
    HostStep(p) \/ StoreStep(p) \/ EnrStep(p) \/ GossipStep(p) \/ Dv5Step(p)

Spec == Init /\ [][Next]_vars
-----------------------------------------------------------------------------
(* Properties *)

\* The actor has one identity. Whatever host starts and enr makes race to generate
\* or to give a key, every host that was ever made and every ENR state has the key
\* of the actor: SetPriv decides, and the losers take its key or fail.
OneKey ==
    /\ \A h \in Procs : hkey[h] \in {None, priv}
    /\ enr # None => enrKey[enr] = priv

\* A running host finds its private key in the current peerstore through every
\* sequence of switches, as GetHostPriv and libp2p's handshakes need it. The
\* exception is a switch that read the host before host start had set it.
KeyFollowsHost ==
    p2pHost \in open /\ ~blind => hkey[p2pHost] \in keys[current]

\* A topic that pubsub has joined can be found by leave, log and publish, whatever
\* leaves were refused: it is registered, or about to be. The exception is an entry
\* that was deleted by name after a later join had stored its own.
TopicsKept ==
    \A g \in Procs : joined[g] # None =>
        \/ topic = joined[g]
        \/ pc[joined[g]] = "put"
        \/ lost
=============================================================================
