------------------------------- MODULE Track -------------------------------
(***************************************************************************)
(* The extended peerstore of one peer: the ENR book and the status book of *)
(* p2p/track/dstrack, the local status of the peer status commands, and    *)
(* the tees of p2p/track/dstee, which every write to the datastore passes  *)
(* through. `peer track tee` adds them; its wsjson tee hands events to a   *)
(* goroutine over a bounded channel.                                       *)
(*                                                                         *)
(* Goroutines take jobs: commands and handlers that call the books, or     *)
(* writes of the peerstore of libp2p, which is external. The datastore is  *)
(* external; a Put may fail.                                               *)
(***************************************************************************)
EXTENDS Integers, Sequences, FiniteSets

CONSTANTS
    Procs,       \* goroutines
    Plans,       \* jobs that they are asked to do, each once, and commands to run
    Stored,      \* the status that an earlier run left in the datastore
    Cap,         \* capacity of evCh, 20 in the code
    Dest,        \* --dest of the tee that is not wsjson
    Match,       \* the keys that --match selects, of each tee
    NoJob, NoOne

\* The keys below /peers, of a peer.
Keys == {"enr", "status", "claim", "addrs", "priv", "misc"}
Tees == {"out", "ws"}
Fields == {"head", "finalized"}

\* The commands that run in the background.
Cmds == Tees \cup {"poll", "serve"}

ENRJobs     == [op : {"enr"}, by : {"add", "connect", "dv5"}, val : Nat \ {0}]
StatusJobs  == [op : {"register"}, by : {"req", "poll", "serve"}, val : Nat \ {0}]
               \cup [op : {"status", "close"}]
LocalJobs   == [op : {"set"}, merge : BOOLEAN, val : [Fields -> Nat]]
\* The peerstore of libp2p writes below other keys than the two books here.
LibraryJobs == LET Others == Keys \ {"enr", "status"}
               IN  [op : {"write"}, puts : Seq(Others), dels : Seq(Others)]

Jobs == UNION {plan.jobs : plan \in Plans}

ASSUME TrackAssumption ==
    /\ Cap \in Nat \ {0} /\ Stored \in Nat
    /\ \A plan \in Plans : plan.cmds \subseteq Cmds
    /\ Dest \in {"log", "evlog", "csv", "evcsv", "json"}
    /\ Match \in [Tees -> SUBSET Keys]
    /\ \A j \in Jobs : \/ j \in ENRJobs \/ j \in StatusJobs
                       \/ j \in LocalJobs \/ j \in LibraryJobs
    /\ NoJob \notin Jobs
    /\ NoOne \notin Procs \cup {"stop"}

VARIABLES
    enr, status, \* the datastore: the sequence number of the ENR, and the status; 0 for none
    cache,       \* dsStatusBook.data
    local,       \* PeerStatusState.Local
    left,        \* jobs that nobody took
    job, pc,     \* of each goroutine
    read,        \* what it read from the datastore or the cache
    before,      \* the local status that it read
    failed,      \* its Put failed
    overlapped,  \* another goroutine wrote what it works on (history)
    evs,         \* what it writes, as the tees are told
    todo,        \* the tees it still has to tell
    queue,       \* the events it still has to send to the wsjson tee
    tees,        \* multiTee
    cmd,         \* each command: off, on, removed, cancelled, stopped
    poll,        \* what the goroutine of peer status poll does
    wl,          \* the owner of the mutex wl
    open,        \* the variable open
    evCh, closed,\* the channel, and that it is closed
    ws,          \* what the websocket goroutine does
    out,         \* what the other tee wrote
    crashed      \* the runtime ended the process

bookVars == <<enr, status, cache, local>>
procVars == <<left, job, pc, read, before, failed, overlapped, evs, todo, queue>>
cmdVars  == <<tees, cmd, poll>>
wsVars   == <<wl, open, evCh, closed, ws>>
vars == <<bookVars, procVars, wsVars, cmdVars, out, crashed>>

TypeOK ==
    /\ enr \in Nat /\ status \in Nat /\ cache \in Nat
    /\ local \in [Fields -> Nat]
    /\ left \subseteq Jobs
    /\ job \in [Procs -> Jobs \cup {NoJob}]
    /\ pc \in [Procs -> {"idle", "load", "decide", "put", "get", "fill", "write", "addr",
                         "range", "tell", "send", "done"}]
    /\ read \in [Procs -> Nat] /\ before \in [Procs -> [Fields -> Nat]]
    /\ failed \in [Procs -> BOOLEAN] /\ overlapped \in [Procs -> BOOLEAN]
    /\ \A p \in Procs : {evs[p], queue[p]} \subseteq Seq({"put", "del"} \X Keys)
    /\ todo \in [Procs -> SUBSET Tees]
    /\ tees \subseteq Tees
    /\ cmd \in [Cmds -> {"off", "on", "removed", "cancelled", "stopped"}]
    /\ poll \in {"none", "top", "round", "sleep", "ended"}
    /\ wl \in Procs \cup {NoOne}
    /\ open \in BOOLEAN /\ closed \in BOOLEAN
    /\ evCh \in Seq({"put", "del"} \X Keys) /\ Len(evCh) <= Cap
    /\ ws \in {"none", "dial", "wait", "recv", "sleep", "ended", "gaveup"}
    /\ out \subseteq {"put", "del"} \X Keys
    /\ crashed \in BOOLEAN

Init ==
    /\ enr = 0 /\ cache = 0
    /\ status = Stored
    /\ local = [f \in Fields |-> 0]
    /\ \E plan \in Plans :
        /\ left = plan.jobs
        /\ cmd = [c \in Cmds |-> IF c \in plan.cmds THEN "off" ELSE "stopped"]
    /\ job = [p \in Procs |-> NoJob]
    /\ pc = [p \in Procs |-> "idle"]
    /\ read = [p \in Procs |-> 0]
    /\ before = [p \in Procs |-> local]
    /\ failed = [p \in Procs |-> FALSE]
    /\ overlapped = [p \in Procs |-> FALSE]
    /\ evs = [p \in Procs |-> <<>>]
    /\ todo = [p \in Procs |-> {}]
    /\ queue = [p \in Procs |-> <<>>]
    /\ tees = {}
    /\ wl = NoOne /\ open = TRUE
    /\ evCh = <<>> /\ closed = FALSE
    /\ ws = "none" /\ poll = "none"
    /\ out = {}
    /\ crashed = FALSE
-----------------------------------------------------------------------------
(* The datastore and the books. *)

\* What a job works on.
Area(j) == CASE j.op = "enr" -> "enr"
             [] j.op \in {"register", "status", "close"} -> "status"
             [] j.op = "set" -> "local"
             [] OTHER -> "other"

\* Goroutine p writes; the others that work on the same were overlapped.
Overlaps(p) ==
    overlapped' = [q \in Procs |->
        \/ overlapped[q]
        \/ q # p /\ job[q] # NoJob /\ Area(job[q]) = Area(job[p])]

Goes(p, where) == pc' = [pc EXCEPT ![p] = where]
Reads(p, v) == read' = [read EXCEPT ![p] = v]

\* p is about to make these writes.
WillPut(p, writes) == evs' = [evs EXCEPT ![p] = writes]
One(key) == <<<<"put", key>>>>

\* Goroutine p begins job j.
Begin(p, j) ==
    /\ pc[p] = "idle" /\ j \in left
    /\ left' = left \ {j}
    /\ job' = [job EXCEPT ![p] = j]
    /\ UNCHANGED <<bookVars, failed, overlapped, todo, queue, wsVars, cmdVars, out, crashed>>

\* peer add stores the address before it updates the record.
PeerAdd(p, j) ==
    /\ j.op = "enr" /\ j.by = "add" /\ Begin(p, j)
    /\ WillPut(p, One("addrs")) /\ Goes(p, "put") /\ UNCHANGED <<read, before>>

\* peer connect updates the record, and connects whatever came of it.
PeerConnect(p, j) ==
    /\ j.op = "enr" /\ j.by = "connect" /\ Begin(p, j)
    /\ Goes(p, "load") /\ UNCHANGED <<evs, read, before>>

\* A node that discv5 found, with --add, when it passes the filter.
HandleENR(p, j) ==
    /\ j.op = "enr" /\ j.by = "dv5" /\ Begin(p, j)
    /\ Goes(p, "load") /\ UNCHANGED <<evs, read, before>>

\* fetch: a status request of peer status req or poll was answered.
Fetched(p, j) ==
    /\ j.op = "register" /\ j.by \in {"req", "poll"}
    /\ j.by = "poll" => poll = "round"
    /\ Begin(p, j)
    /\ Goes(p, "write") /\ UNCHANGED <<evs, read, before>>

\* peer status serve has read a request.
Served(p, j) ==
    /\ j.op = "register" /\ j.by = "serve" /\ cmd["serve"] = "on" /\ Begin(p, j)
    /\ Goes(p, "write") /\ UNCHANGED <<evs, read, before>>

\* Status looks into the cache.
Status(p, j) ==
    /\ j.op = "status" /\ Begin(p, j)
    /\ Reads(p, cache) /\ Goes(p, IF cache = 0 THEN "get" ELSE "done")
    /\ UNCHANGED <<evs, before>>

\* Close flushes the cache to the datastore.
Flush(p, j) ==
    /\ j.op = "close" /\ Begin(p, j)
    /\ Reads(p, cache) /\ Goes(p, IF cache = 0 THEN "done" ELSE "put")
    /\ WillPut(p, One("status")) /\ UNCHANGED before

\* peer status set makes a copy of the local status.
PeerStatusSet(p, j) ==
    /\ j.op = "set" /\ Begin(p, j)
    /\ before' = [before EXCEPT ![p] = local]
    /\ Goes(p, "write") /\ UNCHANGED <<evs, read>>

\* A Put, a Delete or a Commit of the peerstore of libp2p.
Library(p, j) ==
    /\ j.op = "write" /\ Begin(p, j)
    /\ WillPut(p, [i \in DOMAIN j.puts |-> <<"put", j.puts[i]>>]
                  \o [i \in DOMAIN j.dels |-> <<"del", j.dels[i]>>])
    /\ Goes(p, "put") /\ UNCHANGED <<read, before>>

Take(p, j) ==
    \/ PeerAdd(p, j) \/ PeerConnect(p, j) \/ HandleENR(p, j) \/ Fetched(p, j) \/ Served(p, j)
    \/ Status(p, j) \/ Flush(p, j) \/ PeerStatusSet(p, j) \/ Library(p, j)

LoadEnr(p) ==
    /\ pc[p] = "load"
    /\ Reads(p, enr) /\ Goes(p, "decide")
    /\ UNCHANGED <<bookVars, left, job, before, failed, overlapped, evs, todo, queue, wsVars,
                   cmdVars, out, crashed>>

\* Mutant: the sequence numbers are compared the wrong way around.
Newer_Reversed(p) == read[p] = 0 \/ read[p] > job[p].val

\* There is no record, or it is older.
Newer(p) == read[p] = 0 \/ read[p] < job[p].val

\* UpdateENRMaybe, after it loaded the record.
UpdateENRMaybe(p) ==
    /\ pc[p] = "decide"
    /\ Goes(p, IF Newer(p) THEN "put" ELSE "done")
    /\ WillPut(p, One("enr"))
    /\ UNCHANGED <<bookVars, left, job, read, before, failed, overlapped, todo, queue, wsVars, cmdVars, out, crashed>>

\* Status found nothing in the cache: it reads the datastore.
GetStatus(p) ==
    /\ pc[p] = "get"
    /\ Reads(p, status)
    /\ Goes(p, IF status = 0 THEN "done" ELSE "fill")
    /\ UNCHANGED <<bookVars, left, job, before, failed, overlapped, evs, todo, queue, wsVars, cmdVars,
                   out, crashed>>

\* loadStatus caches what it read.
FillStatus(p) ==
    /\ pc[p] = "fill"
    /\ cache' = read[p]
    /\ Overlaps(p)
    /\ Goes(p, "done")
    /\ UNCHANGED <<enr, status, local, left, job, read, before, failed, evs, todo, queue, wsVars, cmdVars, out, crashed>>

\* RegisterStatus updates the cache first.
RegisterStatus(p) ==
    /\ pc[p] = "write" /\ job[p].op = "register"
    /\ cache' = job[p].val
    /\ Overlaps(p)
    /\ Goes(p, "put")
    /\ WillPut(p, One("status"))
    /\ UNCHANGED <<enr, status, local, left, job, read, before, failed, todo, queue, wsVars, cmdVars,
                   out, crashed>>

\* The local status with the options of j: with --merge only those that are not zero.
Merged(l, j) == [f \in Fields |-> IF j.merge /\ j.val[f] = 0 THEN l[f] ELSE j.val[f]]

\* peer status set writes the whole status, made from the one it read.
SetLocal(p) ==
    /\ pc[p] = "write" /\ job[p].op = "set"
    /\ local' = Merged(before[p], job[p])
    /\ Overlaps(p)
    /\ Goes(p, "done")
    /\ UNCHANGED <<enr, status, cache, left, job, read, before, failed, evs, todo, queue, wsVars, cmdVars, out, crashed>>

\* peer add goes on with the record; the address of a record that discv5 updated is next.
AfterPut(p, ok) ==
    CASE job[p].op = "enr" /\ job[p].by = "add" /\ evs[p] = One("addrs") -> "load"
      [] job[p].op = "enr" /\ job[p].by = "dv5" /\ evs[p] = One("enr") /\ ok -> "addr"
      [] OTHER -> "done"

\* Put, Delete or Commit of the datastore. On success the tees are told.
Put(p, ok) ==
    /\ pc[p] = "put"
    /\ failed' = [failed EXCEPT ![p] = IF evs[p] = One("addrs") THEN @ ELSE ~ok]
    /\ Goes(p, IF ok THEN "range" ELSE AfterPut(p, FALSE))
    /\ enr' = IF ok /\ job[p].op = "enr" /\ evs[p] = One("enr") THEN job[p].val ELSE enr
    /\ status' = CASE ok /\ job[p].op = "register" -> job[p].val
                   [] ok /\ job[p].op = "close" -> read[p]
                   [] OTHER -> status
    /\ IF ok /\ evs[p] # One("addrs") THEN Overlaps(p) ELSE UNCHANGED overlapped
    /\ todo' = [todo EXCEPT ![p] = IF ok THEN tees ELSE {}]
    /\ UNCHANGED <<cache, local, left, job, read, before, evs, queue, wsVars, cmdVars, out, crashed>>

\* SetAddr of HandleENR.
SetAddr(p) ==
    /\ pc[p] = "addr"
    /\ WillPut(p, One("addrs")) /\ Goes(p, "put")
    /\ UNCHANGED <<bookVars, left, job, read, before, failed, overlapped, todo, queue, wsVars,
                   cmdVars, out, crashed>>

Return(p) ==
    /\ pc[p] = "done"
    /\ job' = [job EXCEPT ![p] = NoJob]
    /\ evs' = [evs EXCEPT ![p] = <<>>]
    /\ failed' = [failed EXCEPT ![p] = FALSE]
    /\ overlapped' = [overlapped EXCEPT ![p] = FALSE]
    /\ Reads(p, 0)
    /\ Goes(p, "idle")
    /\ before' = [before EXCEPT ![p] = [f \in Fields |-> 0]]
    /\ UNCHANGED <<bookVars, left, todo, queue, wsVars, cmdVars, out, crashed>>
-----------------------------------------------------------------------------
(* Telling the tees. *)

\* KeyToPath knows the key.
KnownKey(key) == key # "misc"

\* ItemToEntry, of a value that its owner wrote. A private key gives an entry
\* without content, an unknown key an error.
IsEvent(e) == KnownKey(e[2])

\* ToCSV makes at least one row. The claimed sequence number is compared with
\* itself, and never written.
HasRow(e) == e[2] \notin {"claim", "priv"}

\* What the kinds of tees pass on of the writes w: LogTee and CSVTee everything in
\* its order, puts before deletes, EventTee what it can translate.
LogTee(w) == w
CSVTee(w) == w
EventTee(w) == SelectSeq(w, IsEvent)

\* What the tee that is not wsjson writes. evlog builds a log entry, and does not
\* log it; evcsv writes no line for an entry without rows.
Writes(w) ==
    CASE Dest = "log" -> LogTee(w)
      [] Dest = "csv" -> CSVTee(w)
      [] Dest = "evlog" -> <<>>
      [] Dest = "evcsv" -> SelectSeq(EventTee(w), LAMBDA e : e[1] = "del" \/ HasRow(e))
      [] Dest = "json" -> EventTee(w)

\* FilterTee: the writes with a key that matches.
Selected(t, w) == SelectSeq(w, LAMBDA e : e[2] \in Match[t])

\* MultiTee tells the next tee that is still in the map, or ends.
Range(p) ==
    /\ pc[p] = "range"
    /\ \/ /\ todo[p] \cap tees = {}
          /\ Goes(p, AfterPut(p, TRUE))
          /\ UNCHANGED <<todo, queue, out>>
       \/ /\ "out" \in todo[p] \cap tees
          /\ todo' = [todo EXCEPT ![p] = @ \ {"out"}]
          /\ LET written == Writes(Selected("out", evs[p]))
             IN  out' = out \cup {written[i] : i \in DOMAIN written}
          /\ UNCHANGED <<pc, queue>>
       \/ /\ "ws" \in todo[p] \cap tees
          /\ todo' = [todo EXCEPT ![p] = @ \ {"ws"}]
          /\ queue' = [queue EXCEPT ![p] = EventTee(Selected("ws", evs[p]))]
          /\ Goes(p, "tell")
          /\ UNCHANGED out
    /\ UNCHANGED <<bookVars, left, job, read, before, failed, overlapped, evs, wsVars, cmdVars,
                   crashed>>

\* Mutant: the producer does not look at open.
IsOpen_Unchecked == TRUE

\* The condition of the producer.
IsOpen == open

\* The wsjson tee takes wl for each event. It sends the event if the channel is open.
Tell(p) ==
    /\ pc[p] = "tell"
    /\ \/ queue[p] = <<>> /\ Goes(p, "range") /\ UNCHANGED <<queue, wl>>
       \/ queue[p] # <<>> /\ wl = NoOne /\ IsOpen
          /\ wl' = p /\ Goes(p, "send") /\ UNCHANGED queue
       \/ queue[p] # <<>> /\ wl = NoOne /\ ~IsOpen
          /\ queue' = [queue EXCEPT ![p] = Tail(@)] /\ UNCHANGED <<pc, wl>>
    /\ UNCHANGED <<bookVars, left, job, read, before, failed, overlapped, evs, todo, open, evCh,
                   closed, ws, cmdVars, out, crashed>>

\* Mutant: one event too many.
HasRoom_Inclusive == Len(evCh) <= Cap

\* make(chan *dstee.Event, 20)
HasRoom == Len(evCh) < Cap

\* The event enters the channel, which is waited for when it is full, and wl is released.
Send(p) ==
    /\ pc[p] = "send" /\ ~closed
    /\ HasRoom
    /\ evCh' = Append(evCh, Head(queue[p]))
    /\ queue' = [queue EXCEPT ![p] = Tail(@)]
    /\ wl' = NoOne
    /\ Goes(p, "tell")
    /\ UNCHANGED <<bookVars, left, job, read, before, failed, overlapped, evs, todo, open, closed, ws,
                   cmdVars, out, crashed>>
-----------------------------------------------------------------------------
(* peer track tee, and its stop function. *)

\* A map that is written while it is iterated over: the runtime may notice it,
\* and end the process.
MayCrash == crashed' \in {FALSE, \E p \in Procs : pc[p] \in {"range", "tell", "send"}}

\* AddTee. An iteration that is under way may visit the new tee or not.
AddTee(t) ==
    /\ cmd[t] = "off"
    /\ cmd' = [cmd EXCEPT ![t] = "on"]
    /\ tees' = tees \cup {t}
    /\ \E S \in SUBSET {p \in Procs : pc[p] \in {"range", "tell", "send"}} :
          todo' = [p \in Procs |-> IF p \in S THEN todo[p] \cup {t} ELSE todo[p]]
    /\ ws' = IF t = "ws" THEN "dial" ELSE ws
    /\ MayCrash
    /\ UNCHANGED <<bookVars, left, job, pc, read, before, failed, overlapped, evs, queue, wl, open,
                   evCh, closed, poll, out>>

\* The stop function starts: RmTee.
RmTee(t) ==
    /\ cmd[t] = "on"
    /\ cmd' = [cmd EXCEPT ![t] = "removed"]
    /\ tees' = tees \ {t}
    /\ MayCrash
    /\ UNCHANGED <<bookVars, procVars, wsVars, poll, out>>

\* clean: files are closed; the wsjson tee first cancels reconnects.
Clean(t) ==
    /\ cmd[t] = "removed"
    /\ cmd' = [cmd EXCEPT ![t] = IF t = "ws" THEN "cancelled" ELSE "stopped"]
    /\ UNCHANGED <<bookVars, procVars, wsVars, tees, poll, out, crashed>>

\* clean of the wsjson tee closes the channel under wl.
CloseCh ==
    /\ cmd["ws"] = "cancelled" /\ wl = NoOne
    /\ open' = FALSE /\ closed' = TRUE
    /\ cmd' = [cmd EXCEPT !["ws"] = "stopped"]
    /\ UNCHANGED <<bookVars, procVars, wl, evCh, ws, tees, poll, out, crashed>>
-----------------------------------------------------------------------------
(* The websocket goroutine. The server is external: it may be away, and a write may fail. *)

Cancelled == cmd["ws"] \in {"cancelled", "stopped"}

WsGoes(from, to) ==
    /\ ws = from /\ ws' = to
    /\ UNCHANGED <<bookVars, procVars, wl, open, closed, cmdVars, out, crashed>>

Dial(ok) == WsGoes("dial", IF ok THEN "recv" ELSE "wait") /\ UNCHANGED evCh

\* 5 seconds have passed or reconnCtx is done: it dials again, or gives up.
Redial == WsGoes("wait", IF Cancelled THEN "gaveup" ELSE "dial") /\ UNCHANGED evCh

\* Mutant: the goroutine ends when its connection is lost.
AfterWrite_End(ok) == IF ok THEN "recv" ELSE "ended"

\* After an event: a lost connection is dialed again; other errors are logged only.
AfterWrite(ok) == IF ok THEN "recv" ELSE "sleep"

\* The event is written, or lost.
Forward(ok) == evCh # <<>> /\ WsGoes("recv", AfterWrite(ok)) /\ evCh' = Tail(evCh)

\* The channel is closed and empty.
WsEnd == closed /\ evCh = <<>> /\ WsGoes("recv", "ended") /\ UNCHANGED evCh

\* 10 seconds after the connection was lost.
WsSleep == WsGoes("sleep", "dial") /\ UNCHANGED evCh
-----------------------------------------------------------------------------
(* peer status poll and serve. *)

StartCmd(c) ==
    /\ cmd[c] = "off"
    /\ cmd' = [cmd EXCEPT ![c] = "on"]
    /\ poll' = IF c = "poll" THEN "top" ELSE poll
    /\ UNCHANGED <<bookVars, procVars, wsVars, tees, out, crashed>>

\* stopping is set and requests are cancelled; or the stream handler is removed.
StopCmd(c) ==
    /\ cmd[c] = "on"
    /\ cmd' = [cmd EXCEPT ![c] = "stopped"]
    /\ UNCHANGED <<bookVars, procVars, wsVars, tees, poll, out, crashed>>

\* The loop: a round asks every peer and waits for all of them, then it sleeps.
PollLoop ==
    /\ \/ poll = "top" /\ poll' = IF cmd["poll"] = "stopped" THEN "ended" ELSE "round"
       \/ poll = "round" /\ poll' = "sleep"
          /\ ~\E p \in Procs : job[p] # NoJob /\ job[p].op = "register" /\ job[p].by = "poll"
       \/ poll = "sleep" /\ poll' = "top"
    /\ UNCHANGED <<bookVars, procVars, wsVars, tees, cmd, out, crashed>>
-----------------------------------------------------------------------------
Step(p) ==
    \/ LoadEnr(p) \/ SetAddr(p)
    \/ UpdateENRMaybe(p) \/ GetStatus(p) \/ FillStatus(p) \/ RegisterStatus(p) \/ SetLocal(p)
    \/ \E ok \in BOOLEAN : Put(p, ok)
    \/ Range(p) \/ Tell(p) \/ Send(p) \/ Return(p)
Ws == (\E ok \in BOOLEAN : Dial(ok) \/ Forward(ok)) \/ Redial \/ WsEnd \/ WsSleep
Stop(t) == Clean(t) \/ (t = "ws" /\ CloseCh)

Next ==
    /\ ~crashed
    /\ \/ \E p \in Procs : Step(p) \/ \E j \in left : Take(p, j)
       \/ Ws \/ PollLoop
       \/ \E c \in {"poll", "serve"} : StartCmd(c) \/ StopCmd(c)
       \/ \E t \in Tees : AddTee(t) \/ RmTee(t) \/ Stop(t)

Spec == Init /\ [][Next]_vars

\* Goroutines that can run do, and wl goes to each that waits for it in the end.
Fairness ==
    /\ \A p \in Procs : WF_vars(~crashed /\ Step(p))
    /\ \A t \in Tees : SF_vars(~crashed /\ Stop(t))
    /\ WF_vars(~crashed /\ Ws)
    /\ WF_vars(~crashed /\ PollLoop)

FairSpec == Spec /\ Fairness
-----------------------------------------------------------------------------
(* Properties *)

\* An update of a book or of the local status that returned without an error
\* holds, unless another goroutine wrote the same in between: the stored record
\* is at least as new as the one given to UpdateENRMaybe, Status gives the
\* status that was registered or found, and the datastore has it too, and the
\* options of `peer status set` are those of the local status.
UndisturbedUpdateHolds ==
    \A p \in Procs : pc[p] = "done" /\ ~failed[p] /\ ~overlapped[p] =>
        CASE job[p].op = "enr" -> enr >= job[p].val
          [] job[p].op = "register" -> cache = job[p].val /\ status = job[p].val
          [] job[p].op = "status" -> cache = read[p]
          [] job[p].op = "close" -> read[p] # 0 => status = read[p]
          [] job[p].op = "set" -> \A f \in Fields : job[p].val[f] # 0 => local[f] = job[p].val[f]
          [] OTHER -> TRUE

\* A goroutine that has decided to send finds the channel open: no send panics
\* on the channel that the stop function closes.
NoSendOnClosed == \A p \in Procs : pc[p] = "send" => ~closed

\* The stop function of a wsjson tee returns, although producers may hold wl and
\* wait for room in the channel. The exception is a websocket goroutine that
\* gave up: a dial failed after reconnects were cancelled.
TeeStopReturns ==
    (cmd["ws"] = "removed") ~> (cmd["ws"] = "stopped" \/ ws = "gaveup" \/ crashed)
=============================================================================
