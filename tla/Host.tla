-------------------------------- MODULE Host --------------------------------
(***************************************************************************)
(* The libp2p host of p2p/custom: how it is put together, the background   *)
(* loop that announces address changes, streams in both directions,        *)
(* Connect with its resolution of DNS addresses, and Close. The network    *)
(* (the swarm), the NAT, identify and peers are external.                  *)
(***************************************************************************)
EXTENDS Integers, Sequences, FiniteSets

CONSTANTS
    Listens,       \* addresses that may be listened on
    Procs,         \* goroutines that call the host, each once
    Inbound,       \* streams that a peer opens
    Machines,      \* states of the routes and interfaces of the machine
    MaxEvents,     \* bound: calls, handlers, incoming streams, changes of addresses
    MaxResolution, \* maxAddressResolution, 32 in the code
    Answers,       \* what a DNS query may give: sequences of "ip" and "dns"
    IDFirst,       \* wait for identify
    Timeout        \* negtimeout > 0

ASSUME HostAssumption ==
    /\ Machines \subseteq [routes : SUBSET {"eth"}, ifaces : SUBSET {"lo", "eth"}, err : BOOLEAN]
    /\ MaxEvents \in Nat
    /\ MaxResolution \in Nat \ {0}
    /\ Answers \subseteq Seq({"ip", "dns"})
    /\ {IDFirst, Timeout} \subseteq BOOLEAN

VARIABLES
    life,       \* what NewNode and Close have reached
    listen,     \* the listen addresses of the network
    nat,        \* what the NAT maps them to
    observed,   \* the addresses that peers saw
    machine,    \* default routes and interfaces, unless these cannot be listed
    events,     \* the number of calls, streams and changes so far
    signal,     \* the number of elements in addrChangeChan
    filtered, all, \* filteredInterfaceAddrs, allInterfaceAddrs
    bg,         \* what the background goroutine does
    curr, last, \* its addresses and lastAddrs
    announced,  \* the addresses of the last event that was emitted
    record,     \* the addresses of the signed record in the peerstore
    skipped,    \* the last change could not be signed or persisted (history)
    inc,        \* each incoming stream
    pc,         \* what each caller does
    stream,     \* its outgoing stream
    toResolve, steps, \* of its Connect
    handled,    \* the mux has a handler for the protocol
    known       \* the peerstore has the protocol of the peer

addrVars == <<listen, nat, observed, machine>>
ifaceVars == <<filtered, all>>
bgVars   == <<bg, ifaceVars, curr, last, announced, record, skipped>>
callVars == <<pc, stream, toResolve, steps, known>>
vars == <<life, addrVars, events, signal, bgVars, inc, callVars, handled>>

\* A loopback and another interface.
Ifaces == {"lo", "eth"}

\* A listen address is unspecified: it is reached by an interface, by what the NAT
\* maps it to, or by what a peer saw.
Addresses == Listens \X (Ifaces \cup {"nat", "seen"})

TypeOK ==
    /\ life \in {"new", "network", "host", "up", "cancelled", "emitters", "network closed",
                 "closed", "failed"}
    /\ listen \subseteq Listens /\ observed \subseteq Listens
    /\ nat \in [Listens -> {"none", "public", "private", "unspecified"}]
    /\ machine \in Machines
    /\ events \in 0..MaxEvents
    /\ signal \in 0..1
    /\ filtered \subseteq Ifaces /\ all \subseteq Ifaces
    /\ bg \in {"none", "update", "addrs", "emit", "wait", "ended"}
    /\ curr \subseteq Addresses /\ last \subseteq Addresses
    /\ announced \subseteq Addresses /\ record \subseteq Addresses
    /\ skipped \in BOOLEAN
    /\ inc \in [Inbound -> {"none", "negotiate", "handled", "reset"}]
    /\ pc \in [Procs -> {"idle", "identify", "prefer", "select", "resolve", "dial", "dialed",
                         "close", "ok", "failed"}]
    /\ stream \in [Procs -> {"none", "open", "reset", "left"}]
    /\ toResolve \in [Procs -> Seq({"ip", "dns"})]
    /\ steps \in [Procs -> Nat]
    /\ handled \in BOOLEAN /\ known \in BOOLEAN

Init ==
    /\ life = "new"
    /\ listen = {} /\ observed = {} /\ nat = [a \in Listens |-> "none"]
    /\ events = 0
    /\ machine \in Machines
    /\ signal = 0
    /\ filtered = {} /\ all = {}
    /\ bg = "none" /\ curr = {} /\ last = {} /\ announced = {} /\ record = {}
    /\ skipped = FALSE
    /\ inc = [s \in Inbound |-> "none"]
    /\ pc = [p \in Procs |-> "idle"]
    /\ stream = [p \in Procs |-> "none"]
    /\ toResolve = [p \in Procs |-> <<>>]
    /\ steps = [p \in Procs |-> 0]
    /\ handled = FALSE /\ known = FALSE
-----------------------------------------------------------------------------
(* NewNode *)

\* NewNetwork: needs a peerstore and a key, and stores the key.
NewNetwork(ok) ==
    /\ life = "new"
    /\ life' = IF ok THEN "network" ELSE "failed"
    /\ UNCHANGED <<addrVars, events, signal, bgVars, inc, callVars, handled>>

\* updateLocalIpAddr: the addresses of default routes, with the loopback; all
\* interfaces if there is none; and the loopback if they cannot be listed.
UpdateLocalIpAddr ==
    /\ all' = IF machine.err THEN machine.routes \cup {"lo"} ELSE machine.ifaces
    /\ filtered' = IF machine.err THEN machine.routes \cup {"lo"}
                   ELSE IF machine.routes = {} THEN machine.ifaces
                   ELSE machine.routes \cup (machine.ifaces \cap {"lo"})

\* NewHost persists a signed record, and registers for streams and for changes of
\* listen addresses. On an error the network is closed.
NewHost(ok) ==
    /\ life = "network"
    /\ life' = IF ok THEN "host" ELSE "failed"
    /\ UpdateLocalIpAddr
    /\ UNCHANGED <<addrVars, events, signal, bg, curr, last, announced, record, skipped, inc, callVars,
                   handled>>

\* AddTransports, and Start. Its errors are of transports, muxers or security
\* protocols that are named twice or cannot be made; they close the host.
AddTransports(ok) ==
    /\ life = "host"
    /\ life' = IF ok THEN "up" ELSE "failed"
    /\ bg' = IF ok THEN "update" ELSE bg
    /\ UNCHANGED <<addrVars, events, signal, ifaceVars, curr, last, announced, record, skipped, inc,
                   callVars, handled>>
-----------------------------------------------------------------------------
(* Addresses *)

\* Mutant: a signal is sent whether or not one is waiting.
SignalAddressChange_Always == signal' = signal + 1

\* A channel of capacity 1: a signal is kept until it is read.
SignalAddressChange == signal' = IF signal < 1 THEN signal + 1 ELSE signal

MayHappen == events < MaxEvents /\ events' = events + 1
MayChange == life = "up" /\ MayHappen

\* The network listens or stops listening, and notifies the host.
ChangeListen(a) ==
    /\ MayChange
    /\ listen' = IF a \in listen THEN listen \ {a} ELSE listen \cup {a}
    /\ SignalAddressChange
    /\ UNCHANGED <<life, nat, observed, machine, bgVars, inc, callVars, handled>>

\* A NAT mapping, an observed address, an interface: nobody is notified.
ChangeOutside(a) ==
    /\ MayChange
    /\ \/ \E m \in {"none", "public", "private", "unspecified"} :
             nat' = [nat EXCEPT ![a] = m] /\ UNCHANGED <<observed, machine>>
       \/ observed' = observed \cup {a} /\ UNCHANGED <<nat, machine>>
       \/ \E m \in Machines : machine' = m /\ UNCHANGED <<nat, observed>>
    /\ UNCHANGED <<life, listen, signal, bgVars, inc, callVars, handled>>

\* What the NAT maps listen addresses to, but for an unspecified address. Where it
\* is not public, what peers saw of the address on any interface is added.
NatMapped ==
    LET mapped == {a \in listen : nat[a] # "none"}
    IN  ({a \in mapped : nat[a] # "unspecified"} \X {"nat"})
        \cup IF all = {} THEN {}
             ELSE {a \in mapped \cap observed : nat[a] # "public"} \X {"seen"}

\* AllAddrs: the listen addresses on the filtered interfaces; with mappings what
\* they give, and without them what peers saw.
AllAddrs ==
    (listen \X filtered)
    \cup IF \A a \in Listens : nat[a] = "none" THEN observed \X {"seen"} ELSE NatMapped

\* The loop of background.
Update ==
    /\ bg = "update" /\ bg' = "addrs"
    /\ UpdateLocalIpAddr
    /\ UNCHANGED <<life, addrVars, events, signal, curr, last, announced, record, skipped, inc,
                   callVars, handled>>

Addrs ==
    /\ bg = "addrs" /\ bg' = "emit"
    /\ curr' = AllAddrs
    /\ UNCHANGED <<life, addrVars, events, signal, ifaceVars, last, announced, record, skipped, inc,
                   callVars, handled>>

\* Mutant: addresses that are gone make no event.
Changed_Added == curr \ last # {}

\* makeUpdatedAddrEvent gives an event.
Changed == curr # last

\* emitAddrChange: the record is signed and persisted, then the event is emitted,
\* unless the emitter is closed. lastAddrs is set even if one of these failed.
EmitAddrChange(ok) ==
    /\ bg = "emit"
    /\ IF Changed /\ ok
       THEN /\ record' = curr
            /\ announced' = IF life \in {"up", "cancelled"} THEN curr ELSE announced
            /\ skipped' = FALSE
       ELSE /\ skipped' = (skipped \/ Changed)
            /\ UNCHANGED <<record, announced>>
    /\ last' = curr
    /\ bg' = "wait"
    /\ UNCHANGED <<life, addrVars, events, signal, ifaceVars, curr, inc, callVars, handled>>

Alive == life \in {"new", "network", "host", "up"}

\* The ticker, a signal, or the context: the select of background.
Wait ==
    /\ bg = "wait"
    /\ \/ bg' = "update" /\ UNCHANGED signal                 \* 5 seconds
       \/ signal = 1 /\ signal' = 0 /\ bg' = "update"
       \/ ~Alive /\ bg' = "ended" /\ UNCHANGED signal
    /\ UNCHANGED <<life, addrVars, events, ifaceVars, curr, last, announced, record, skipped, inc,
                   callVars, handled>>
-----------------------------------------------------------------------------
(* Streams that a peer opens. *)

NetworkOpen == life \in {"network", "host", "up", "cancelled", "emitters"}

SetStreamHandler ==
    /\ MayHappen /\ life = "up" /\ handled' = TRUE
    /\ UNCHANGED <<life, addrVars, signal, bgVars, inc, callVars>>

RemoveStreamHandler ==
    /\ handled /\ handled' = FALSE
    /\ UNCHANGED <<life, addrVars, events, signal, bgVars, inc, callVars>>

\* newStreamHandler sets a deadline and negotiates.
StreamOpened(s) ==
    /\ MayHappen /\ inc[s] = "none" /\ life = "up"
    /\ inc' = [inc EXCEPT ![s] = "negotiate"]
    /\ UNCHANGED <<life, addrVars, signal, bgVars, callVars, handled>>

\* The peer selects a protocol with a handler, or negotiation fails.
Negotiate(s, ok) ==
    /\ inc[s] = "negotiate"
    /\ ok => handled /\ NetworkOpen
    /\ inc' = [inc EXCEPT ![s] = IF ok THEN "handled" ELSE "reset"]
    /\ UNCHANGED <<life, addrVars, events, signal, bgVars, callVars, handled>>

\* Mutant: streams get no deadline.
HasDeadline_Never == FALSE

HasDeadline == Timeout

\* The deadline has passed, or the network was closed.
NegotiationEnds(s) ==
    /\ inc[s] = "negotiate"
    /\ HasDeadline \/ ~NetworkOpen
    /\ inc' = [inc EXCEPT ![s] = "reset"]
    /\ UNCHANGED <<life, addrVars, events, signal, bgVars, callVars, handled>>
-----------------------------------------------------------------------------
(* NewStream and Connect. *)

Goes(p, where) == pc' = [pc EXCEPT ![p] = where]
SetStream(p, st) == stream' = [stream EXCEPT ![p] = st]
CallsOnly == UNCHANGED <<life, addrVars, signal, bgVars, inc, handled>>

NewStream(p, ok) ==
    /\ MayHappen /\ pc[p] = "idle" /\ life \notin {"new", "failed"}
    /\ ok => NetworkOpen
    /\ SetStream(p, IF ok THEN "open" ELSE "none")
    /\ Goes(p, IF ~ok THEN "failed" ELSE IF IDFirst THEN "identify" ELSE "prefer")
    /\ UNCHANGED <<toResolve, steps, known>> /\ CallsOnly

\* Identify is done, or the context of the caller: then the stream is left as it is.
StreamIdentified(p, ok) ==
    /\ pc[p] = "identify"
    /\ Goes(p, IF ok THEN "prefer" ELSE "failed")
    /\ SetStream(p, IF ok THEN "open" ELSE "left")
    /\ UNCHANGED <<toResolve, steps, known>> /\ UNCHANGED events /\ CallsOnly

\* preferredProtocol: a known protocol is used without an answer of the peer.
PreferredProtocol(p, ok) ==
    /\ pc[p] = "prefer"
    /\ Goes(p, IF ~ok THEN "failed" ELSE IF known THEN "ok" ELSE "select")
    /\ SetStream(p, IF ok THEN "open" ELSE "reset")
    /\ UNCHANGED <<toResolve, steps, known>> /\ UNCHANGED events /\ CallsOnly

\* SelectOneOf asks the peer; the protocol it selects becomes known.
SelectOneOf(p, ok) ==
    /\ pc[p] = "select"
    /\ Goes(p, IF ok THEN "ok" ELSE "failed")
    /\ SetStream(p, IF ok THEN "open" ELSE "reset")
    /\ known' = (known \/ ok)
    /\ UNCHANGED <<toResolve, steps>> /\ UNCHANGED events /\ CallsOnly

\* Connect to a peer that is connected, or with these addresses.
Connect(p, addrs) ==
    /\ MayHappen /\ pc[p] = "idle" /\ life \notin {"new", "failed"}
    /\ \/ Goes(p, "ok") /\ UNCHANGED toResolve
       \/ Goes(p, "resolve") /\ toResolve' = [toResolve EXCEPT ![p] = addrs]
    /\ UNCHANGED <<stream, steps, known>> /\ CallsOnly

\* We've resolved too many addresses.
TooMany(p) == steps[p] + 1 >= MaxResolution

\* resolveAddrs takes the last address. A DNS address becomes what the query
\* gives, until there were too many queries; then it is dropped.
ResolveAddrs(p, answer) ==
    /\ pc[p] = "resolve"
    /\ IF toResolve[p] = <<>>
       THEN Goes(p, "dial") /\ UNCHANGED <<toResolve, steps>>
       ELSE LET n == Len(toResolve[p])
                rest == SubSeq(toResolve[p], 1, n - 1)
                dns == toResolve[p][n] = "dns"
            IN  /\ steps' = [steps EXCEPT ![p] =
                                IF dns THEN @ + 1 ELSE @]
                /\ toResolve' = [toResolve EXCEPT ![p] =
                                    IF dns /\ ~TooMany(p) THEN rest \o answer ELSE rest]
                /\ UNCHANGED pc
    /\ UNCHANGED <<stream, known>> /\ UNCHANGED events /\ CallsOnly

\* dialPeer, and the wait for identify, which the context may end.
DialPeer(p, ok) ==
    /\ pc[p] \in {"dial", "dialed"}
    /\ pc[p] = "dial" /\ ok => NetworkOpen
    /\ Goes(p, IF ~ok THEN "failed"
               ELSE IF pc[p] = "dial" /\ IDFirst THEN "dialed" ELSE "ok")
    /\ UNCHANGED <<stream, toResolve, steps, known>> /\ UNCHANGED events /\ CallsOnly
-----------------------------------------------------------------------------
(* Close, once; others that call it wait for the first. *)

Close(p) ==
    /\ MayHappen /\ pc[p] = "idle" /\ life \notin {"new", "network", "host", "failed"}
    /\ Goes(p, "close")
    /\ life' = IF life = "up" THEN "cancelled" ELSE life
    /\ UNCHANGED <<addrVars, signal, bgVars, inc, stream, toResolve, steps, known, handled>>

CloseEmitters ==
    /\ life = "cancelled" /\ life' = "emitters"
    /\ UNCHANGED <<addrVars, events, signal, bgVars, inc, callVars, handled>>

\* The network closes its listeners, which is notified.
CloseNetwork ==
    /\ life = "emitters" /\ life' = "network closed"
    /\ listen' = {}
    /\ IF listen = {} THEN UNCHANGED signal ELSE SignalAddressChange
    /\ UNCHANGED <<nat, observed, machine, events, bgVars, inc, callVars, handled>>

\* Mutant: Close does not wait for the background goroutine.
RefCountZero_NoWait == TRUE

\* refCount.Wait()
RefCountZero == bg \in {"none", "ended"}

Closed ==
    /\ life = "network closed" /\ RefCountZero /\ life' = "closed"
    /\ UNCHANGED <<addrVars, events, signal, bgVars, inc, callVars, handled>>

CloseReturns(p) ==
    /\ pc[p] = "close" /\ life = "closed"
    /\ Goes(p, "ok")
    /\ UNCHANGED <<stream, toResolve, steps, known>> /\ UNCHANGED events /\ CallsOnly
-----------------------------------------------------------------------------
Build == \E ok \in BOOLEAN : NewNetwork(ok) \/ NewHost(ok) \/ AddTransports(ok)
Background == Update \/ Addrs \/ Wait \/ \E ok \in BOOLEAN : EmitAddrChange(ok)
Call(p) ==
    \/ \E ok \in BOOLEAN : NewStream(p, ok)
    \/ \E a \in Answers : Connect(p, a)
    \/ Close(p)
Return(p) ==
    \/ \E ok \in BOOLEAN : \/ StreamIdentified(p, ok) \/ PreferredProtocol(p, ok)
                           \/ SelectOneOf(p, ok) \/ DialPeer(p, ok)
    \/ \E a \in Answers : ResolveAddrs(p, a)
    \/ CloseReturns(p)
Closing == CloseEmitters \/ CloseNetwork \/ Closed
Environment ==
    \/ \E a \in Listens : ChangeListen(a) \/ ChangeOutside(a)
    \/ SetStreamHandler \/ RemoveStreamHandler
    \/ \E s \in Inbound : StreamOpened(s) \/ \E ok \in BOOLEAN : Negotiate(s, ok)

Next ==
    \/ Build \/ Background \/ Closing \/ Environment
    \/ \E p \in Procs : Call(p) \/ Return(p)
    \/ \E s \in Inbound : NegotiationEnds(s)

Spec == Init /\ [][Next]_vars

\* The goroutines of the host run, timers fire, and the calls that the host makes
\* come back. A select between a tick and a done context does not always take the tick.
Fairness ==
    /\ WF_vars(Background) /\ SF_vars(bg = "wait" /\ bg' = "ended" /\ Wait)
    /\ WF_vars(Closing)
    /\ \A p \in Procs : WF_vars(Return(p))
    /\ \A s \in Inbound : WF_vars(NegotiationEnds(s))

FairSpec == Spec /\ Fairness
-----------------------------------------------------------------------------
(* Properties *)

\* Once its addresses no longer change, a host that stays up has announced the
\* ones it has, whatever moment of the loop the changes came at. The exception is
\* a record that could not be signed or persisted: lastAddrs moved on without an
\* event, and nothing is sent before the next change.
AddrsAnnounced == <>[](life = "up" => announced = AllAddrs \/ skipped)

\* When Close has returned, the background goroutine has ended and the network is
\* closed: no later step of the host announces or persists anything.
ClosedIsQuiet ==
    life = "closed" => bg \in {"none", "ended"} /\ listen = {}

\* Whatever a peer or a DNS server answers, calls of NewStream, Connect and Close
\* return, and an incoming stream is handled or reset: a peer that does not speak,
\* and names that resolve to themselves, do not keep a goroutine.
CallsReturn ==
    /\ \A p \in Procs : (pc[p] # "idle") ~> (pc[p] \in {"ok", "failed"})
    /\ \A s \in Inbound : (inc[s] = "negotiate") ~> (inc[s] # "negotiate")
=============================================================================
