-------------------------------- MODULE Rpc --------------------------------
(***************************************************************************)
(* Answering RPC requests by hand: `rpc <method> listen` queues incoming   *)
(* requests under a key, `next` steps into them, `resp` and `close` answer *)
(* and close them by their key. Models control/actor/rpc (listen.go,       *)
(* state.go, method.go, resp.go, close.go), and of p2p/rpc/reqresp the     *)
(* stream handler of handle_request.go with its size limits.               *)
(*                                                                         *)
(* Processes: listeners, each a call with a stop function; one handler per *)
(* incoming stream; sessions that run resp and close.                      *)
(***************************************************************************)
EXTENDS Integers

CONSTANTS
    Listeners,    \* the calls of `listen`, all for one protocol
    MaxStreams,   \* bound: number of streams that peers open
    Sessions,     \* sessions that answer
    Sizes,        \* the request lengths that peers announce
    MinSize,      \* RequestCodec.MinByteLen
    MaxSize,      \* RequestCodec.MaxByteLen, more than 0
    Snappy        \* is there compression?

ASSUME RpcAssumption ==
    /\ 0 \notin Listeners
    /\ MaxStreams \in Nat \ {0}
    /\ Sizes \subseteq Nat
    /\ MinSize \in Nat
    /\ MaxSize \in Nat \ {0}
    /\ MinSize <= MaxSize
    /\ Snappy \in BOOLEAN

Streams == 1..MaxStreams
Keys    == 0..(MaxStreams - 1)

\* A stream on which no length could be read.
NoLength == -1

\* 0 stands for no listener and for no stream.
VARIABLES
    lstate,     \* what each listener does
    drop,       \* was --drop given?
    bgDone,     \* its bgCtx, which the stop function cancels
    callDone,   \* the context of its call
    limit,      \* maxRequestContentSize, shared by its streams
    handler,    \* the listener whose handler the host has for the protocol
    spc,        \* what the handler of each stream does
    owner,      \* the listener it belongs to
    size,       \* the length announced on it
    flagged,    \* invalidInputErr # nil
    key,        \* its request key
    cancelled,  \* RequestEntry.Cancel was called
    counter,    \* Responder.keyCounter
    requests,   \* Responder.Requests
    cpc,        \* what each session does
    ckey,       \* the key that was given to it
    centry      \* the request it found under the key

listenVars  == <<lstate, drop, bgDone, callDone, handler>>
streamVars  == <<spc, owner, size, flagged>>
requestVars == <<key, cancelled, counter, requests>>
sessVars    == <<cpc, ckey, centry>>
vars == <<listenVars, limit, streamVars, requestVars, sessVars>>

TypeOK ==
    /\ lstate \in [Listeners -> {"none", "starting", "open", "stopping", "stopped"}]
    /\ drop \in [Listeners -> BOOLEAN]
    /\ bgDone \in [Listeners -> BOOLEAN]
    /\ callDone \in [Listeners -> BOOLEAN]
    /\ limit \in [Listeners -> Nat]
    /\ handler \in Listeners \cup {0}
    /\ spc \in [Streams -> {"none", "length", "adjust", "listen", "store", "step", "wait", "done"}]
    /\ owner \in [Streams -> Listeners \cup {0}]
    /\ size \in [Streams -> Sizes \cup {NoLength}]
    /\ flagged \in [Streams -> BOOLEAN]
    /\ key \in [Streams -> Keys]
    /\ cancelled \in [Streams -> BOOLEAN]
    /\ counter \in 0..MaxStreams
    /\ requests \in [Keys -> Streams \cup {0}]
    /\ cpc \in [Sessions -> {"idle", "resp", "close", "delete"}]
    /\ ckey \in [Sessions -> Keys]
    /\ centry \in [Sessions -> Streams \cup {0}]

Init ==
    /\ lstate = [l \in Listeners |-> "none"]
    /\ drop = [l \in Listeners |-> FALSE]
    /\ bgDone = [l \in Listeners |-> FALSE]
    /\ callDone = [l \in Listeners |-> FALSE]
    /\ limit = [l \in Listeners |-> MaxSize]
    /\ handler = 0
    /\ spc = [s \in Streams |-> "none"]
    /\ owner = [s \in Streams |-> 0]
    /\ size = [s \in Streams |-> NoLength]
    /\ flagged = [s \in Streams |-> FALSE]
    /\ key = [s \in Streams |-> 0]
    /\ cancelled = [s \in Streams |-> FALSE]
    /\ counter = 0
    /\ requests = [k \in Keys |-> 0]
    /\ cpc = [c \in Sessions |-> "idle"]
    /\ ckey = [c \in Sessions |-> 0]
    /\ centry = [c \in Sessions |-> 0]
-----------------------------------------------------------------------------
(* listen *)

\* SetStreamHandler, in place of the handler of an earlier listener.
Listen(l, d) ==
    /\ lstate[l] = "none"
    /\ drop' = [drop EXCEPT ![l] = d]
    /\ lstate' = [lstate EXCEPT ![l] = "starting"]
    /\ handler' = l
    /\ UNCHANGED <<bgDone, callDone, limit, streamVars, requestVars, sessVars>>

\* RegisterStop, and Run returns.
ListenReturn(l) ==
    /\ lstate[l] = "starting"
    /\ lstate' = [lstate EXCEPT ![l] = "open"]
    /\ UNCHANGED <<drop, bgDone, callDone, handler, limit, streamVars, requestVars, sessVars>>

\* The stop function: bgCancel, then RemoveStreamHandler, whoever's it is by now.
StopCancel(l) ==
    /\ lstate[l] = "open"
    /\ lstate' = [lstate EXCEPT ![l] = "stopping"]
    /\ bgDone' = [bgDone EXCEPT ![l] = TRUE]
    /\ UNCHANGED <<drop, callDone, handler, limit, streamVars, requestVars, sessVars>>

\* It returns, and the call's context is cancelled.
StopReturn(l) ==
    /\ lstate[l] = "stopping"
    /\ lstate' = [lstate EXCEPT ![l] = "stopped"]
    /\ handler' = 0
    /\ callDone' = [callDone EXCEPT ![l] = TRUE]
    /\ UNCHANGED <<drop, bgDone, limit, streamVars, requestVars, sessVars>>

\* The call ends without its stop function: the actor is killed, or the call is
\* cancelled before the function was registered.
CallOver(l) ==
    /\ lstate[l] \in {"starting", "open"}
    /\ ~callDone[l]
    /\ callDone' = [callDone EXCEPT ![l] = TRUE]
    /\ UNCHANGED <<lstate, drop, bgDone, handler, limit, streamVars, requestVars, sessVars>>
-----------------------------------------------------------------------------
(* The handler of a stream, which shares maxRequestContentSize with others. *)

Goto(s, l) == spc' = [spc EXCEPT ![s] = l]

\* A peer opens a stream. That its context closes the stream shows in RespFails
\* only: the handler does not look at it. With a limit of 0 no length is read.
Open(s, sz) ==
    /\ spc[s] = "none"
    /\ \A r \in Streams : r < s => spc[r] # "none"
    /\ handler # 0
    /\ owner' = [owner EXCEPT ![s] = handler]
    /\ size' = [size EXCEPT ![s] = sz]
    /\ Goto(s, IF limit[handler] = 0 THEN "listen" ELSE "length")
    /\ UNCHANGED <<listenVars, limit, flagged, requestVars, sessVars>>

\* The length was read, or could not be, and is compared with the limits.
Judge(s) ==
    /\ spc[s] = "length"
    /\ flagged' = [flagged EXCEPT ![s] =
          \/ size[s] = NoLength
          \/ size[s] < MinSize
          \/ size[s] > limit[owner[s]]]
    /\ Goto(s, "adjust")
    /\ UNCHANGED <<listenVars, limit, owner, size, requestVars, sessVars>>

\* What snappy needs at most for n bytes. All lengths are below its own limit.
MaxEncodedLen(n) == 32 + n + (n \div 6)

\* The limit for reading the payload is stored in the shared variable.
Adjust(s) ==
    /\ spc[s] = "adjust"
    /\ limit' = [limit EXCEPT ![owner[s]] =
          IF flagged[s] THEN 0 ELSE IF Snappy THEN MaxEncodedLen(@) ELSE @]
    /\ Goto(s, "listen")
    /\ UNCHANGED <<listenVars, owner, size, flagged, requestVars, sessVars>>
-----------------------------------------------------------------------------
(* listenReq *)

\* --drop
Drop(s) ==
    /\ spc[s] = "listen"
    /\ drop[owner[s]]
    /\ Goto(s, "done")
    /\ UNCHANGED <<listenVars, limit, owner, size, flagged, requestVars, sessVars>>

\* Mutants: keys that are free again; a counter read outside of its lock.
NextKey_Lowest(k) == requests[k] = 0 /\ \A j \in Keys : j < k => requests[j] # 0
NextKey_Unlocked(k) == k \in {counter, counter - 1}

\* The key that AddRequest takes.
NextKey(k) == k = counter

\* AddRequest: take a key, under keyCounterMutex.
AddKey(s) ==
    /\ spc[s] = "listen"
    /\ ~drop[owner[s]]
    /\ \E k \in Keys : NextKey(k) /\ key' = [key EXCEPT ![s] = k]
    /\ counter' = counter + 1
    /\ Goto(s, "store")
    /\ UNCHANGED <<listenVars, limit, owner, size, flagged, cancelled,
                   requests, sessVars>>

\* Store the entry, and go on to block in Step.
AddStore(s) ==
    /\ spc[s] = "store"
    /\ requests' = [requests EXCEPT ![key[s]] = s]
    /\ Goto(s, "step")
    /\ UNCHANGED <<listenVars, limit, owner, size, flagged, key, cancelled,
                   counter, sessVars>>

\* `next` takes the step, which reports the key.
StepTaken(s) ==
    /\ spc[s] = "step"
    /\ Goto(s, "wait")
    /\ UNCHANGED <<listenVars, limit, owner, size, flagged, requestVars, sessVars>>

\* The call is over: no more steps. The entry stays.
StepRefused(s) ==
    /\ spc[s] = "step"
    /\ callDone[owner[s]]
    /\ Goto(s, "done")
    /\ UNCHANGED <<listenVars, limit, owner, size, flagged, requestVars, sessVars>>

\* Mutant: a context that is not derived from the listener's.
RespDone_Own(s) == cancelled[s]

\* respCtx is done.
RespDone(s) == cancelled[s] \/ bgDone[owner[s]]

Responded(s) ==
    /\ spc[s] = "wait"
    /\ RespDone(s)
    /\ Goto(s, "done")
    /\ UNCHANGED <<listenVars, limit, owner, size, flagged, requestVars, sessVars>>
-----------------------------------------------------------------------------
(* resp and close: checkAndGetReq, an answer, and CloseRequest. *)

Finish(c) ==
    /\ cpc' = [cpc EXCEPT ![c] = "idle"]
    /\ ckey' = [ckey EXCEPT ![c] = 0]
    /\ centry' = [centry EXCEPT ![c] = 0]

\* The request is found under its key.
GetRequest(c, k, cmd) ==
    /\ cpc[c] = "idle"
    /\ requests[k] # 0
    /\ cpc' = [cpc EXCEPT ![c] = cmd]
    /\ ckey' = [ckey EXCEPT ![c] = k]
    /\ centry' = [centry EXCEPT ![c] = requests[k]]
    /\ UNCHANGED <<listenVars, limit, streamVars, requestVars>>

\* A chunk is written, with --done or not.
RespWrite(c, done) ==
    /\ cpc[c] = "resp"
    /\ IF done THEN cpc' = [cpc EXCEPT ![c] = "close"] /\ UNCHANGED <<ckey, centry>>
               ELSE Finish(c)
    /\ UNCHANGED <<listenVars, limit, streamVars, requestVars>>

\* The chunk cannot be written, as the peer went away or the context of the stream
\* is done (time is up, or the listener stopped): the request stays open.
RespFails(c) ==
    /\ cpc[c] = "resp"
    /\ Finish(c)
    /\ UNCHANGED <<listenVars, limit, streamVars, requestVars>>

\* CloseRequest looks the key up again and cancels what it finds, if anything.
CloseRequest(c) ==
    /\ cpc[c] = "close"
    /\ LET e == requests[ckey[c]] IN
          IF e = 0
          THEN Finish(c) /\ UNCHANGED cancelled
          ELSE /\ cancelled' = [cancelled EXCEPT ![e] = TRUE]
               /\ cpc' = [cpc EXCEPT ![c] = "delete"]
               /\ UNCHANGED <<ckey, centry>>
    /\ UNCHANGED <<listenVars, limit, streamVars, key, counter, requests>>

\* Its last step. Other sessions may have found the cancelled request meanwhile.
DeleteRequest(c) ==
    /\ cpc[c] = "delete"
    /\ requests' = [requests EXCEPT ![ckey[c]] = 0]
    /\ Finish(c)
    /\ UNCHANGED <<listenVars, limit, streamVars, key, cancelled, counter>>
-----------------------------------------------------------------------------
Listener(l) ==
    \/ \E d \in BOOLEAN : Listen(l, d)
    \/ ListenReturn(l)
    \/ StopCancel(l)
    \/ StopReturn(l)
    \/ CallOver(l)

Handler(s) ==
    \/ Judge(s)
    \/ Adjust(s)
    \/ Drop(s)
    \/ AddKey(s)
    \/ AddStore(s)
    \/ StepRefused(s)
    \/ Responded(s)

Command(c) ==
    \/ \E k \in Keys, cmd \in {"resp", "close"} : GetRequest(c, k, cmd)
    \/ \E done \in BOOLEAN : RespWrite(c, done)
    \/ RespFails(c)
    \/ CloseRequest(c)
    \/ DeleteRequest(c)

Next ==
    \/ \E l \in Listeners : Listener(l)
    \/ \E s \in Streams, sz \in Sizes \cup {NoLength} : Open(s, sz)
    \/ \E s \in Streams : Handler(s) \/ StepTaken(s)
    \/ \E c \in Sessions : Command(c)

Spec == Init /\ [][Next]_vars

\* Handlers run; the peer sends its length or goes away. A stop function that was
\* started comes to its end. Nobody has to run next, resp, close or cancel.
Fairness ==
    /\ \A s \in Streams : WF_vars(Handler(s))
    /\ \A l \in Listeners : WF_vars(StopReturn(l))

FairSpec == Spec /\ Fairness
-----------------------------------------------------------------------------
(* Properties. *)

\* A request whose handler waits for an answer can be answered and closed by the
\* key that was reported for it: no other request, opened by any listener at
\* any time, takes its place in Requests (state.go:51-58).
Answerable ==
    \A s \in Streams :
        spc[s] \in {"step", "wait"} /\ ~cancelled[s] => requests[key[s]] = s

\* CloseRequest looks up the key once more after the answer was written
\* (resp.go:98-101, state.go:42-49): it finds the request that was answered, or
\* nothing when another session closed it meanwhile, never another request.
ClosesItsOwn ==
    \A c \in Sessions :
        cpc[c] # "idle" => requests[ckey[c]] \in {0, centry[c]}

\* The entry that answers to a key: one that is cancelled and not yet deleted
\* no longer counts.
EntryOf(k) ==
    IF requests[k] # 0 /\ cancelled[requests[k]] THEN 0 ELSE requests[k]

\* The keys that were given to requests. A key that AddRequest took and did not
\* store yet is known to nobody.
GivenKeys == {k \in Keys : k < counter} \ {key[s] : s \in {r \in Streams : spc[r] = "store"}}

Table == INSTANCE RequestTable WITH
            Requests <- Streams,
            table <- [k \in Keys |-> EntryOf(k)],
            given <- GivenKeys,
            closed <- {s \in Streams : cancelled[s]}

\* state.go:25-58: the Responder, with a counter and a map that are updated one after
\* the other and closed in two steps by any number of sessions, does what a table
\* does whose operations are atomic: a key is given once, and a request is entered
\* once and closed once.
ImplementsTable == Table!TableSpec

\* listen.go:77: "responses are also shut down when the listener is shut down".
\* Once a listener stopped, all its handlers return, the ones that wait for a
\* step, for an answer, or that were still reading when it stopped.
StopEndsHandlers ==
    \A l \in Listeners :
        (lstate[l] = "stopped") ~>
            (\A s \in Streams : owner[s] = l => spc[s] = "done")

\* handle_request.go:16 says: "If the input is already known to be invalid, e.g. the
\* request size is invalid, then `invalidInputErr != nil`": a request that
\* reached the listener is flagged exactly when its length is not one of the method.
RequestJudged ==
    \A s \in Streams :
        spc[s] \in {"listen", "store", "step", "wait", "done"} =>
            (flagged[s] <=> size[s] \notin MinSize..MaxSize)
=============================================================================
