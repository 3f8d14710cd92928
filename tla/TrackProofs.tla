---------------------------- MODULE TrackProofs ----------------------------
(***************************************************************************)
(* What holds of Track for every number of goroutines and jobs: updates    *)
(* that nobody disturbs hold, and nobody sends on a closed channel.        *)
(***************************************************************************)
EXTENDS Track, TLAPS

-----------------------------------------------------------------------------
(* The inductive invariant. *)

\* The types that matter here. Those of the events are left to TLC.
Types ==
    /\ enr \in Nat /\ status \in Nat /\ cache \in Nat
    /\ local \in [Fields -> Nat]
    /\ left \subseteq Jobs
    /\ job \in [Procs -> Jobs \cup {NoJob}]
    /\ pc \in [Procs -> {"idle", "load", "decide", "put", "get", "fill", "write", "addr",
                         "range", "tell", "send", "done"}]
    /\ read \in [Procs -> Nat] /\ before \in [Procs -> [Fields -> Nat]]
    /\ failed \in [Procs -> BOOLEAN] /\ overlapped \in [Procs -> BOOLEAN]
    /\ evs = [p \in Procs |-> evs[p]]
    /\ wl \in Procs \cup {NoOne} /\ open \in BOOLEAN /\ closed \in BOOLEAN

Telling == {"range", "tell", "send"}

\* Which jobs come to which steps, and what they write there.
JobInv(p) ==
    /\ pc[p] = "idle" <=> job[p] = NoJob
    /\ failed[p] => pc[p] = "done"
    /\ pc[p] \in {"load", "decide", "addr"} => job[p].op = "enr"
    /\ pc[p] = "addr" => job[p].by = "dv5" /\ evs[p] = One("enr")
    /\ pc[p] \in {"get", "fill"} => job[p].op = "status"
    /\ pc[p] = "write" => job[p].op \in {"register", "set"}
    /\ pc[p] \in {"put"} \cup Telling =>
          \/ job[p].op = "enr" /\ evs[p] \in {One("addrs"), One("enr")}
          \/ job[p].op \in {"register", "close"} /\ evs[p] = One("status")
          \/ job[p].op = "write"
    /\ pc[p] = "done" /\ job[p].op = "enr" =>
          \/ evs[p] = One("enr")
          \/ evs[p] = One("addrs") /\ job[p].by # "add"

\* How far a job has come that nobody disturbed.
EnrInv(p) ==
    /\ pc[p] = "decide" => enr = read[p]
    /\ pc[p] \in Telling \cup {"addr", "done"} /\ evs[p] = One("enr") => enr >= job[p].val
    /\ pc[p] \in Telling \cup {"put", "done"} /\ evs[p] = One("addrs") /\ job[p].by # "add"
          => enr >= job[p].val

RegisterInv(p) ==
    /\ pc[p] \in Telling \cup {"put", "done"} => cache = job[p].val
    /\ pc[p] \in Telling \cup {"done"} => status = job[p].val

StatusInv(p) ==
    /\ pc[p] = "get" => cache = 0
    /\ pc[p] = "done" => cache = read[p]

CloseInv(p) == pc[p] \in Telling \cup {"done"} /\ read[p] # 0 => status = read[p]

SetInv(p) ==
    pc[p] = "done" => \A f \in Fields : job[p].val[f] # 0 => local[f] = job[p].val[f]

UpdateInv(p) ==
    pc[p] # "idle" /\ ~failed[p] /\ ~overlapped[p] =>
        /\ job[p].op = "enr" => EnrInv(p)
        /\ job[p].op = "register" => RegisterInv(p)
        /\ job[p].op = "status" => StatusInv(p)
        /\ job[p].op = "close" => CloseInv(p)
        /\ job[p].op = "set" => SetInv(p)

\* wl protects the variable open and the channel.
ChannelInv ==
    /\ open <=> ~closed
    /\ \A p \in Procs : pc[p] = "send" => wl = p /\ open

Inv == Types /\ (\A p \in Procs : JobInv(p) /\ UpdateInv(p)) /\ ChannelInv
-----------------------------------------------------------------------------
(* Jobs and writes. *)

LEMMA OnesDiffer ==
    One("enr") # One("addrs") /\ One("enr") # One("status") /\ One("addrs") # One("status")
BY DEF One

\* What the options of a job are.
LEMMA JobTypes ==
    ASSUME NEW j \in Jobs
    PROVE  /\ j # NoJob
           /\ j.op \in {"enr", "register", "status", "close", "set", "write"}
           /\ j.op \in {"enr", "register"} => j.val \in Nat \ {0}
           /\ j.op = "set" => j.val \in [Fields -> Nat]
<1>1. j \in ENRJobs \/ j \in StatusJobs \/ j \in LocalJobs \/ j \in LibraryJobs
  BY TrackAssumption
<1>2. CASE j \in ENRJobs
  BY <1>2, TrackAssumption DEF ENRJobs
<1>3. CASE j \in StatusJobs
  BY <1>3, TrackAssumption DEF StatusJobs
<1>4. CASE j \in LocalJobs
  BY <1>4, TrackAssumption DEF LocalJobs
<1>5. CASE j \in LibraryJobs
  BY <1>5, TrackAssumption DEF LibraryJobs
<1> QED
  BY <1>1, <1>2, <1>3, <1>4, <1>5

\* Jobs on the same book have the same area.
LEMMA Areas ==
    ASSUME NEW j
    PROVE  /\ j.op = "enr" => Area(j) = "enr"
           /\ j.op \in {"register", "status", "close"} => Area(j) = "status"
           /\ j.op = "set" => Area(j) = "local"
BY DEF Area
-----------------------------------------------------------------------------
(* What a step leaves alone. *)

\* Goroutine q is where it was.
SameProc(q) ==
    /\ job'[q] = job[q] /\ pc'[q] = pc[q] /\ read'[q] = read[q] /\ evs'[q] = evs[q]
    /\ failed'[q] = failed[q] /\ (overlapped[q] => overlapped'[q])

\* What q works on is unchanged, or q is marked.
Undisturbed(q) ==
    job[q] = NoJob \/ overlapped'[q] \/
        /\ job[q].op = "enr" => enr' = enr
        /\ job[q].op \in {"register", "status", "close"} => cache' = cache /\ status' = status
        /\ job[q].op = "set" => local' = local

LEMMA OtherKept ==
    ASSUME Types, Types', NEW q \in Procs, JobInv(q), UpdateInv(q), SameProc(q), Undisturbed(q)
    PROVE  JobInv(q)' /\ UpdateInv(q)'
<1>1. JobInv(q)'
  BY DEF JobInv, SameProc
<1>2. UpdateInv(q)'
  <2> SUFFICES ASSUME pc'[q] # "idle", ~failed'[q], ~overlapped'[q]
               PROVE  UpdateInv(q)'
    BY DEF UpdateInv
  <2>1. pc[q] # "idle" /\ ~failed[q] /\ ~overlapped[q] /\ job[q] # NoJob
    BY DEF SameProc, JobInv
  <2>2. (job[q].op = "enr" => EnrInv(q))'
    BY <2>1 DEF UpdateInv, EnrInv, SameProc, Undisturbed
  <2>3. (job[q].op = "register" => RegisterInv(q))'
    BY <2>1 DEF UpdateInv, RegisterInv, SameProc, Undisturbed
  <2>4. (job[q].op = "status" => StatusInv(q))'
    BY <2>1 DEF UpdateInv, StatusInv, SameProc, Undisturbed
  <2>5. (job[q].op = "close" => CloseInv(q))'
    BY <2>1 DEF UpdateInv, CloseInv, SameProc, Undisturbed
  <2>6. (job[q].op = "set" => SetInv(q))'
    BY <2>1 DEF UpdateInv, SetInv, SameProc, Undisturbed
  <2> QED
    BY <2>2, <2>3, <2>4, <2>5, <2>6 DEF UpdateInv
<1> QED
  BY <1>1, <1>2

\* What a step of p keeps.
Kept(p) ==
    /\ Types' /\ JobInv(p)' /\ UpdateInv(p)'
    /\ \A q \in Procs \ {p} : SameProc(q) /\ Undisturbed(q)

\* A write to a book marks the others that work on it.
LEMMA MarksOthers ==
    ASSUME Types, NEW p \in Procs, Overlaps(p), NEW q \in Procs, q # p
    PROVE  /\ overlapped' \in [Procs -> BOOLEAN]
           /\ overlapped[q] => overlapped'[q]
           /\ job[q] # NoJob /\ Area(job[q]) = Area(job[p]) => overlapped'[q]
           /\ overlapped'[p] = overlapped[p]
BY DEF Types, Overlaps
-----------------------------------------------------------------------------
(* Jobs begin. *)

LEMMA TakeKept ==
    ASSUME Types, NEW p \in Procs, JobInv(p), UpdateInv(p), NEW j \in left, Take(p, j)
    PROVE  Kept(p)
<1>1. j \in Jobs /\ j # NoJob
  BY JobTypes DEF Types
<1>2. /\ pc[p] = "idle" /\ job' = [job EXCEPT ![p] = j] /\ left' = left \ {j}
      /\ UNCHANGED <<enr, status, cache, local, failed, overlapped, wl, open, closed>>
  BY DEF Take, PeerAdd, PeerConnect, HandleENR, Fetched, Served, Status, Flush, PeerStatusSet,
         Library, Begin, bookVars, wsVars
<1> DEFINE Starts(where) == pc' = [pc EXCEPT ![p] = where]
<1>3. ASSUME NEW where \in {"load", "put", "get", "write", "done"}, Starts(where),
             \/ UNCHANGED read
             \/ read' = [read EXCEPT ![p] = cache],
             \/ UNCHANGED before
             \/ before' = [before EXCEPT ![p] = local],
             \/ UNCHANGED evs
             \/ \E w : evs' = [evs EXCEPT ![p] = w]
      PROVE  /\ Types' /\ pc'[p] = where /\ job'[p] = j
             /\ \A q \in Procs \ {p} : SameProc(q) /\ Undisturbed(q)
  <2>1. job' \in [Procs -> Jobs \cup {NoJob}] /\ left' \subseteq Jobs
    BY <1>1, <1>2 DEF Types
  <2>2. read' \in [Procs -> Nat]
    BY <1>3 DEF Types
  <2>3. before' \in [Procs -> [Fields -> Nat]]
    BY <1>3 DEF Types
  <2>4. evs' = [q \in Procs |-> evs'[q]]
    BY <1>3 DEF Types
  <2>5. Types'
    BY <1>2, <1>3, <2>1, <2>2, <2>3, <2>4 DEF Types
  <2>6. pc'[p] = where /\ job'[p] = j
    BY <1>2, <1>3 DEF Types
  <2>7. ASSUME NEW q \in Procs \ {p} PROVE SameProc(q) /\ Undisturbed(q)
    BY <1>2, <1>3, <2>7 DEF Types, SameProc, Undisturbed
  <2> QED
    BY <2>5, <2>6, <2>7
<1> USE DEF WillPut, Goes, Reads
<1>4. CASE PeerAdd(p, j)
  <2>1. /\ j.op = "enr" /\ j.by = "add" /\ Starts("put") /\ evs' = [evs EXCEPT ![p] = One("addrs")]
        /\ UNCHANGED <<read, before>>
    BY <1>4 DEF PeerAdd
  <2>2. /\ Types' /\ pc'[p] = "put" /\ job'[p] = j
        /\ \A q \in Procs \ {p} : SameProc(q) /\ Undisturbed(q)
    BY <1>3, <2>1
  <2>3. evs'[p] = One("addrs")
    BY <2>1 DEF Types
  <2>4. JobInv(p)' /\ UpdateInv(p)'
    BY <1>1, <1>2, <2>1, <2>2, <2>3, OnesDiffer DEF JobInv, UpdateInv, EnrInv, Telling
  <2> QED
    BY <2>2, <2>4 DEF Kept
<1>5. CASE PeerConnect(p, j) \/ HandleENR(p, j)
  <2>1. j.op = "enr" /\ Starts("load") /\ UNCHANGED <<evs, read, before>>
    BY <1>5 DEF PeerConnect, HandleENR
  <2>2. /\ Types' /\ pc'[p] = "load" /\ job'[p] = j
        /\ \A q \in Procs \ {p} : SameProc(q) /\ Undisturbed(q)
    BY <1>3, <2>1
  <2>3. JobInv(p)' /\ UpdateInv(p)'
    BY <1>1, <1>2, <2>1, <2>2 DEF JobInv, UpdateInv, EnrInv, Telling
  <2> QED
    BY <2>2, <2>3 DEF Kept
<1>6. CASE Fetched(p, j) \/ Served(p, j)
  <2>1. j.op = "register" /\ Starts("write") /\ UNCHANGED <<evs, read, before>>
    BY <1>6 DEF Fetched, Served
  <2>2. /\ Types' /\ pc'[p] = "write" /\ job'[p] = j
        /\ \A q \in Procs \ {p} : SameProc(q) /\ Undisturbed(q)
    BY <1>3, <2>1
  <2>3. JobInv(p)' /\ UpdateInv(p)'
    BY <1>1, <1>2, <2>1, <2>2 DEF JobInv, UpdateInv, RegisterInv, Telling
  <2> QED
    BY <2>2, <2>3 DEF Kept
<1>7. CASE Status(p, j)
  <2>1. /\ j.op = "status" /\ read' = [read EXCEPT ![p] = cache] /\ UNCHANGED <<evs, before>>
        /\ \/ cache = 0 /\ Starts("get")
           \/ cache # 0 /\ Starts("done")
    BY <1>7 DEF Status
  <2>2. PICK where \in {"get", "done"} : Starts(where) /\ (where = "get" => cache = 0)
    BY <2>1
  <2>3. /\ Types' /\ pc'[p] = where /\ job'[p] = j
        /\ \A q \in Procs \ {p} : SameProc(q) /\ Undisturbed(q)
    BY <1>3, <2>1, <2>2
  <2>4. read'[p] = cache
    BY <2>1 DEF Types
  <2>5. JobInv(p)' /\ UpdateInv(p)'
    BY <1>1, <1>2, <2>1, <2>2, <2>3, <2>4 DEF JobInv, UpdateInv, StatusInv, Telling
  <2> QED
    BY <2>3, <2>5 DEF Kept
<1>8. CASE Flush(p, j)
  <2>1. /\ j.op = "close" /\ read' = [read EXCEPT ![p] = cache] /\ UNCHANGED before
        /\ evs' = [evs EXCEPT ![p] = One("status")]
        /\ \/ cache = 0 /\ Starts("done")
           \/ cache # 0 /\ Starts("put")
    BY <1>8 DEF Flush
  <2>2. PICK where \in {"put", "done"} : Starts(where) /\ (where = "done" => cache = 0)
    BY <2>1
  <2>3. /\ Types' /\ pc'[p] = where /\ job'[p] = j
        /\ \A q \in Procs \ {p} : SameProc(q) /\ Undisturbed(q)
    BY <1>3, <2>1, <2>2
  <2>4. read'[p] = cache /\ evs'[p] = One("status")
    BY <2>1 DEF Types
  <2>5. JobInv(p)' /\ UpdateInv(p)'
    BY <1>1, <1>2, <2>1, <2>2, <2>3, <2>4 DEF JobInv, UpdateInv, CloseInv, Telling
  <2> QED
    BY <2>3, <2>5 DEF Kept
<1>9. CASE PeerStatusSet(p, j)
  <2>1. /\ j.op = "set" /\ before' = [before EXCEPT ![p] = local] /\ Starts("write")
        /\ UNCHANGED <<evs, read>>
    BY <1>9 DEF PeerStatusSet
  <2>2. /\ Types' /\ pc'[p] = "write" /\ job'[p] = j
        /\ \A q \in Procs \ {p} : SameProc(q) /\ Undisturbed(q)
    BY <1>3, <2>1
  <2>3. JobInv(p)' /\ UpdateInv(p)'
    BY <1>1, <1>2, <2>1, <2>2 DEF JobInv, UpdateInv, SetInv, Telling
  <2> QED
    BY <2>2, <2>3 DEF Kept
<1>10. CASE Library(p, j)
  <2>1. /\ j.op = "write" /\ Starts("put") /\ UNCHANGED <<read, before>>
        /\ \E w : evs' = [evs EXCEPT ![p] = w]
    BY <1>10 DEF Library
  <2>2. /\ Types' /\ pc'[p] = "put" /\ job'[p] = j
        /\ \A q \in Procs \ {p} : SameProc(q) /\ Undisturbed(q)
    BY <1>3, <2>1
  <2>3. JobInv(p)' /\ UpdateInv(p)'
    BY <1>1, <1>2, <2>1, <2>2 DEF JobInv, UpdateInv, Telling
  <2> QED
    BY <2>2, <2>3 DEF Kept
<1> QED
  BY <1>4, <1>5, <1>6, <1>7, <1>8, <1>9, <1>10 DEF Take
-----------------------------------------------------------------------------
(* Steps that only move a goroutine, and its local values. *)

\* The step moves p, which may have read something, or have prepared a write.
Moving(p, where) ==
    /\ pc' = [pc EXCEPT ![p] = where]
    /\ UNCHANGED <<enr, status, cache, local, left, job, before, failed, overlapped>>
    /\ UNCHANGED <<wl, open, closed>> \/ (wl' \in {p, NoOne} /\ UNCHANGED <<open, closed>>)
    /\ UNCHANGED evs \/ \E w : evs' = [evs EXCEPT ![p] = w]
    /\ UNCHANGED read \/ \E v \in Nat : read' = [read EXCEPT ![p] = v]

LEMMA MovingFrame ==
    ASSUME Types, NEW p \in Procs,
           NEW where \in {"load", "decide", "put", "get", "fill", "write", "addr", "range", "tell",
                          "send", "done"}, Moving(p, where)
    PROVE  /\ Types' /\ pc'[p] = where /\ job'[p] = job[p]
           /\ failed'[p] = failed[p] /\ overlapped'[p] = overlapped[p]
           /\ \A q \in Procs \ {p} : SameProc(q) /\ Undisturbed(q)
<1>1. read' \in [Procs -> Nat]
  BY DEF Types, Moving
<1>2. evs' = [q \in Procs |-> evs'[q]]
  BY DEF Types, Moving
<1>3. wl' \in Procs \cup {NoOne} /\ open' \in BOOLEAN /\ closed' \in BOOLEAN
  BY DEF Types, Moving
<1>4. pc' \in [Procs -> {"idle", "load", "decide", "put", "get", "fill", "write", "addr",
                         "range", "tell", "send", "done"}]
  BY DEF Types, Moving
<1>5. Types'
  BY <1>1, <1>2, <1>3, <1>4 DEF Types, Moving
<1>6. pc'[p] = where
  BY DEF Types, Moving
<1>7. ASSUME NEW q \in Procs \ {p} PROVE SameProc(q) /\ Undisturbed(q)
  BY <1>7 DEF Types, Moving, SameProc, Undisturbed
<1> QED
  BY <1>5, <1>6, <1>7 DEF Moving

\* After a Put: the job goes on, or is done.
LEMMA AfterPutPlace ==
    ASSUME NEW p \in Procs, NEW ok \in BOOLEAN
    PROVE  \/ AfterPut(p, ok) = "load" /\ job[p].op = "enr" /\ job[p].by = "add" /\ evs[p] = One("addrs")
           \/ AfterPut(p, ok) = "addr" /\ job[p].op = "enr" /\ job[p].by = "dv5" /\ evs[p] = One("enr")
           \/ /\ AfterPut(p, ok) = "done"
              /\ ~(job[p].op = "enr" /\ job[p].by = "add" /\ evs[p] = One("addrs"))
BY DEF AfterPut

\* Telling the tees does not change how far a job has come.
LEMMA TellingKept ==
    ASSUME Types, NEW p \in Procs, JobInv(p), UpdateInv(p), pc[p] \in Telling,
           NEW where, Moving(p, where), UNCHANGED <<evs, read>>,
           where \in Telling \/ where = AfterPut(p, TRUE)
    PROVE  Kept(p)
<1>1. /\ where \in Telling \cup {"load", "addr", "done"}
      /\ where = "load" => job[p].op = "enr"
      /\ where = "addr" => job[p].op = "enr" /\ job[p].by = "dv5" /\ evs[p] = One("enr")
      /\ where = "done" => ~(job[p].op = "enr" /\ job[p].by = "add" /\ evs[p] = One("addrs"))
  BY AfterPutPlace DEF Telling
<1>2. /\ Types' /\ pc'[p] = where /\ job'[p] = job[p]
      /\ failed'[p] = failed[p] /\ overlapped'[p] = overlapped[p]
      /\ \A q \in Procs \ {p} : SameProc(q) /\ Undisturbed(q)
  BY <1>1, MovingFrame DEF Telling
<1>3. JobInv(p)'
  BY <1>1, <1>2 DEF JobInv, Telling
<1>4. UNCHANGED <<enr, status, cache, local, evs, read>>
  BY DEF Moving
<1>5. job[p].op \notin {"status", "set"} /\ pc[p] # "idle"
  BY DEF JobInv, Telling
<1>6. UpdateInv(p)'
  <2> SUFFICES ASSUME ~failed[p], ~overlapped[p] PROVE UpdateInv(p)'
    BY <1>2 DEF UpdateInv
  <2>1. (job[p].op = "enr" => EnrInv(p))'
    BY <1>1, <1>2, <1>4, <1>5 DEF UpdateInv, EnrInv, Telling
  <2>2. (job[p].op = "register" => RegisterInv(p))'
    BY <1>1, <1>2, <1>4, <1>5 DEF UpdateInv, RegisterInv, Telling
  <2>3. (job[p].op = "close" => CloseInv(p))'
    BY <1>1, <1>2, <1>4, <1>5 DEF UpdateInv, CloseInv, Telling
  <2> QED
    BY <1>2, <1>5, <2>1, <2>2, <2>3 DEF UpdateInv
<1> QED
  BY <1>2, <1>3, <1>6 DEF Kept

LEMMA MoveKept ==
    ASSUME Types, NEW p \in Procs, JobInv(p), UpdateInv(p),
           \/ LoadEnr(p) \/ SetAddr(p) \/ UpdateENRMaybe(p) \/ GetStatus(p)
           \/ Range(p) \/ Tell(p) \/ Send(p)
    PROVE  Kept(p)
<1> USE DEF Goes, Reads, WillPut, bookVars, wsVars
<1>0. pc = [q \in Procs |-> pc[q]] /\ evs = [q \in Procs |-> evs[q]] /\ read \in [Procs -> Nat]
  BY DEF Types
<1>1. CASE LoadEnr(p)
  <2>1. pc[p] = "load" /\ read' = [read EXCEPT ![p] = enr] /\ UNCHANGED <<enr, evs>> /\ enr \in Nat
    BY <1>1 DEF LoadEnr, Types
  <2>2. Moving(p, "decide")
    BY <1>1, <2>1 DEF LoadEnr, Moving
  <2>3. /\ Types' /\ pc'[p] = "decide" /\ job'[p] = job[p] /\ failed'[p] = failed[p]
        /\ \A q \in Procs \ {p} : SameProc(q) /\ Undisturbed(q)
    BY <2>2, MovingFrame
  <2>4. read'[p] = enr /\ job[p].op = "enr"
    BY <1>0, <2>1 DEF JobInv
  <2>5. JobInv(p)'
    BY <2>1, <2>3, <2>4 DEF JobInv, Telling
  <2>6. UpdateInv(p)'
    BY <2>1, <2>3, <2>4 DEF UpdateInv, EnrInv, Telling
  <2> QED
    BY <2>3, <2>5, <2>6 DEF Kept
<1>2. CASE SetAddr(p)
  <2>1. pc[p] = "addr" /\ evs' = [evs EXCEPT ![p] = One("addrs")] /\ UNCHANGED <<enr, read>>
    BY <1>2 DEF SetAddr
  <2>2. Moving(p, "put")
    BY <1>2, <2>1 DEF SetAddr, Moving
  <2>3. /\ Types' /\ pc'[p] = "put" /\ job'[p] = job[p]
        /\ failed'[p] = failed[p] /\ overlapped'[p] = overlapped[p]
        /\ \A q \in Procs \ {p} : SameProc(q) /\ Undisturbed(q)
    BY <2>2, MovingFrame
  <2>4. evs'[p] = One("addrs") /\ job[p].op = "enr" /\ evs[p] = One("enr")
    BY <1>0, <2>1 DEF JobInv
  <2>5. JobInv(p)'
    BY <2>1, <2>3, <2>4 DEF JobInv, Telling
  <2>6. UpdateInv(p)'
    BY <2>1, <2>3, <2>4 DEF UpdateInv, EnrInv, Telling
  <2> QED
    BY <2>3, <2>5, <2>6 DEF Kept
<1>3. CASE UpdateENRMaybe(p)
  <2>1. /\ pc[p] = "decide" /\ evs' = [evs EXCEPT ![p] = One("enr")] /\ UNCHANGED <<enr, read>>
        /\ job[p].op = "enr" /\ job[p].val \in Nat
    <3>1. pc[p] = "decide" /\ evs' = [evs EXCEPT ![p] = One("enr")] /\ UNCHANGED <<enr, read>>
      BY <1>3 DEF UpdateENRMaybe
    <3>2. job[p].op = "enr" /\ job[p] \in Jobs
      BY <3>1 DEF JobInv, Types
    <3> QED
      BY <3>1, <3>2, JobTypes
  <2>2. PICK where \in {"put", "done"} : /\ Moving(p, where)
                                         /\ where = "done" => read[p] >= job[p].val
    <3>1. CASE Newer(p)
      BY <1>3, <3>1 DEF UpdateENRMaybe, Moving
    <3>2. CASE ~Newer(p)
      <4>1. read[p] >= job[p].val
        BY <1>0, <2>1, <3>2 DEF Newer
      <4>2. Moving(p, "done")
        BY <1>3, <3>2 DEF UpdateENRMaybe, Moving
      <4> QED
        BY <4>1, <4>2
    <3> QED
      BY <3>1, <3>2
  <2>3. /\ Types' /\ pc'[p] = where /\ job'[p] = job[p]
        /\ failed'[p] = failed[p] /\ overlapped'[p] = overlapped[p]
        /\ \A q \in Procs \ {p} : SameProc(q) /\ Undisturbed(q)
    BY <2>2, MovingFrame
  <2>4. evs'[p] = One("enr")
    BY <1>0, <2>1
  <2>5. JobInv(p)'
    BY <2>1, <2>3, <2>4 DEF JobInv, Telling
  <2>6. UpdateInv(p)'
    BY <2>1, <2>2, <2>3, <2>4, OnesDiffer DEF UpdateInv, EnrInv, Telling
  <2> QED
    BY <2>3, <2>5, <2>6 DEF Kept
<1>4. CASE GetStatus(p)
  <2>1. pc[p] = "get" /\ read' = [read EXCEPT ![p] = status] /\ UNCHANGED <<cache, evs>> /\ status \in Nat
    BY <1>4 DEF GetStatus, Types
  <2>2. PICK where \in {"done", "fill"} : Moving(p, where) /\ (where = "done" => status = 0)
    BY <1>4, <2>1 DEF GetStatus, Moving
  <2>3. /\ Types' /\ pc'[p] = where /\ job'[p] = job[p]
        /\ failed'[p] = failed[p] /\ overlapped'[p] = overlapped[p]
        /\ \A q \in Procs \ {p} : SameProc(q) /\ Undisturbed(q)
    BY <2>2, MovingFrame
  <2>4. read'[p] = status /\ job[p].op = "status"
    BY <1>0, <2>1 DEF JobInv
  <2>5. JobInv(p)'
    BY <2>1, <2>3, <2>4 DEF JobInv, Telling
  <2>6. UpdateInv(p)'
    BY <2>1, <2>2, <2>3, <2>4 DEF UpdateInv, StatusInv
  <2> QED
    BY <2>3, <2>5, <2>6 DEF Kept
<1>5. CASE Range(p)
  <2>1. pc[p] \in Telling /\ UNCHANGED <<evs, read>>
    BY <1>5 DEF Range, Telling
  <2>2. \E where : Moving(p, where) /\ (where \in Telling \/ where = AfterPut(p, TRUE))
    <3>1. UNCHANGED pc => pc' = [pc EXCEPT ![p] = "range"]
      BY <1>0, <1>5 DEF Range
    <3> QED
      BY <1>5, <3>1 DEF Range, Moving, Telling
  <2> QED
    BY <2>1, <2>2, TellingKept
<1>6. CASE Tell(p)
  <2>1. pc[p] \in Telling /\ UNCHANGED <<evs, read>>
    BY <1>6 DEF Tell, Telling
  <2>2. \E where : Moving(p, where) /\ where \in Telling
    <3>1. UNCHANGED pc => pc' = [pc EXCEPT ![p] = "tell"]
      BY <1>0, <1>6 DEF Tell
    <3> QED
      BY <1>6, <3>1 DEF Tell, Moving, Telling
  <2> QED
    BY <2>1, <2>2, TellingKept
<1>7. CASE Send(p)
  <2>1. pc[p] \in Telling /\ UNCHANGED <<evs, read>> /\ Moving(p, "tell")
    BY <1>7 DEF Send, Telling, Moving
  <2> QED
    BY <2>1, TellingKept DEF Telling
<1> QED
  BY <1>1, <1>2, <1>3, <1>4, <1>5, <1>6, <1>7
-----------------------------------------------------------------------------
(* Steps that write. *)

\* loadStatus and RegisterStatus write to the cache.
LEMMA CacheKept ==
    ASSUME Types, NEW p \in Procs, JobInv(p), UpdateInv(p), FillStatus(p) \/ RegisterStatus(p)
    PROVE  Kept(p)
<1> USE DEF Goes, WillPut, bookVars, wsVars
<1>1. /\ Overlaps(p) /\ job[p].op \in {"status", "register"} /\ job[p] # NoJob /\ job[p] \in Jobs
      /\ UNCHANGED <<enr, status, local, left, job, read, before, failed, wl, open, closed>>
  BY DEF FillStatus, RegisterStatus, JobInv, Types
<1>2. job[p].op = "register" => job[p].val \in Nat
  BY <1>1, JobTypes
<1>3. /\ cache' \in Nat /\ \E where \in {"done", "put"} : pc' = [pc EXCEPT ![p] = where]
      /\ UNCHANGED evs \/ \E w : evs' = [evs EXCEPT ![p] = w]
  BY <1>2 DEF FillStatus, RegisterStatus, Types
<1>4. overlapped' \in [Procs -> BOOLEAN] /\ overlapped'[p] = overlapped[p]
  BY <1>1 DEF Overlaps, Types
<1>5. Types'
  <2>1. evs' = [q \in Procs |-> evs'[q]]
    BY <1>3 DEF Types
  <2> QED
    BY <1>1, <1>3, <1>4, <2>1 DEF Types
<1>6. ASSUME NEW q \in Procs \ {p} PROVE SameProc(q) /\ Undisturbed(q)
  <2>1. /\ overlapped[q] => overlapped'[q]
        /\ job[q] # NoJob /\ Area(job[q]) = Area(job[p]) => overlapped'[q]
    BY <1>1, <1>6, MarksOthers
  <2>2. SameProc(q)
    BY <1>1, <1>3, <1>6, <2>1 DEF SameProc, Types
  <2>3. job[q] = NoJob \/ overlapped'[q] \/ job[q].op \notin {"register", "status", "close"}
    BY <1>1, <2>1, Areas
  <2> QED
    BY <1>1, <2>2, <2>3 DEF Undisturbed
<1>7. pc = [q \in Procs |-> pc[q]] /\ evs = [q \in Procs |-> evs[q]]
  BY DEF Types
<1>8. JobInv(p)' /\ UpdateInv(p)'
  <2>1. CASE FillStatus(p)
    <3>1. pc'[p] = "done" /\ cache' = read[p] /\ job[p].op = "status"
      BY <1>7, <2>1 DEF FillStatus, JobInv
    <3> QED
      BY <1>1, <3>1 DEF JobInv, UpdateInv, StatusInv, Telling
  <2>2. CASE RegisterStatus(p)
    <3>1. /\ pc'[p] = "put" /\ cache' = job[p].val /\ job[p].op = "register" /\ evs'[p] = One("status")
          /\ ~failed[p]
      BY <1>7, <2>2 DEF RegisterStatus, JobInv
    <3> QED
      BY <1>1, <3>1 DEF JobInv, UpdateInv, RegisterInv, Telling
  <2> QED
    BY <2>1, <2>2
<1> QED
  BY <1>5, <1>6, <1>8 DEF Kept

\* peer status set writes the local status.
LEMMA LocalKept ==
    ASSUME Types, NEW p \in Procs, JobInv(p), UpdateInv(p), SetLocal(p)
    PROVE  Kept(p)
<1> USE DEF Goes, bookVars, wsVars
<1>1. /\ Overlaps(p) /\ job[p].op = "set" /\ pc[p] = "write" /\ pc' = [pc EXCEPT ![p] = "done"]
      /\ local' = Merged(before[p], job[p])
      /\ UNCHANGED <<enr, status, cache, left, job, read, before, failed, evs, wl, open, closed>>
  BY DEF SetLocal
<1>2. job[p] # NoJob /\ job[p] \in Jobs /\ before[p] \in [Fields -> Nat]
  BY <1>1 DEF JobInv, Types
<1>3. job[p].val \in [Fields -> Nat]
  BY <1>1, <1>2, JobTypes
<1>4. /\ local' \in [Fields -> Nat]
      /\ \A f \in Fields : job[p].val[f] # 0 => local'[f] = job[p].val[f]
  BY <1>1, <1>2, <1>3 DEF Merged
<1>5. overlapped' \in [Procs -> BOOLEAN] /\ overlapped'[p] = overlapped[p]
  BY <1>1 DEF Overlaps, Types
<1>6. Types' /\ pc'[p] = "done"
  BY <1>1, <1>4, <1>5 DEF Types
<1>7. ASSUME NEW q \in Procs \ {p} PROVE SameProc(q) /\ Undisturbed(q)
  <2>1. /\ overlapped[q] => overlapped'[q]
        /\ job[q] # NoJob /\ Area(job[q]) = Area(job[p]) => overlapped'[q]
    BY <1>1, <1>7, MarksOthers
  <2>2. SameProc(q)
    BY <1>1, <1>7, <2>1 DEF SameProc, Types
  <2>3. job[q] = NoJob \/ overlapped'[q] \/ job[q].op # "set"
    BY <1>1, <2>1, Areas
  <2> QED
    BY <1>1, <2>2, <2>3 DEF Undisturbed
<1>8. JobInv(p)'
  BY <1>1, <1>2, <1>6 DEF JobInv, Telling
<1>9. UpdateInv(p)'
  BY <1>1, <1>4, <1>6 DEF UpdateInv, SetInv
<1> QED
  BY <1>6, <1>7, <1>8, <1>9 DEF Kept

\* A Put that succeeds writes the record or the status, and marks the others.
LEMMA PutDone ==
    ASSUME Types, NEW p \in Procs, JobInv(p), UpdateInv(p), Put(p, TRUE)
    PROVE  Kept(p)
<1>1. /\ pc[p] = "put" /\ pc' = [pc EXCEPT ![p] = "range"]
      /\ failed' = [failed EXCEPT ![p] = IF evs[p] = One("addrs") THEN @ ELSE FALSE]
      /\ enr' = IF job[p].op = "enr" /\ evs[p] = One("enr") THEN job[p].val ELSE enr
      /\ status' = CASE job[p].op = "register" -> job[p].val
                     [] job[p].op = "close" -> read[p]
                     [] OTHER -> status
      /\ IF evs[p] # One("addrs") THEN Overlaps(p) ELSE UNCHANGED overlapped
      /\ UNCHANGED <<cache, local, left, job, read, before, evs, wl, open, closed>>
  BY DEF Put, Goes, wsVars
<1>2. /\ job[p] # NoJob /\ job[p] \in Jobs /\ read[p] \in Nat
      /\ \/ job[p].op = "enr" /\ evs[p] \in {One("addrs"), One("enr")}
         \/ job[p].op \in {"register", "close"} /\ evs[p] = One("status")
         \/ job[p].op = "write"
  BY <1>1 DEF JobInv, Types
<1>3. job[p].op \in {"enr", "register"} => job[p].val \in Nat
  BY <1>2, JobTypes
<1>4. overlapped' \in [Procs -> BOOLEAN] /\ overlapped'[p] = overlapped[p]
  BY <1>1 DEF Overlaps, Types
<1>5. /\ job[p].op = "register" => status' = job[p].val
      /\ job[p].op = "close" => status' = read[p]
      /\ job[p].op \notin {"register", "close"} => status' = status
  BY <1>1
<1>6. enr' \in Nat /\ status' \in Nat
  <2>1. enr \in Nat /\ status \in Nat
    BY DEF Types
  <2>2. enr' \in Nat
    BY <1>1, <1>3, <2>1
  <2>3. status' \in Nat
    BY <1>2, <1>3, <1>5, <2>1
  <2> QED
    BY <2>2, <2>3
<1>7. Types' /\ pc'[p] = "range"
  BY <1>1, <1>4, <1>6 DEF Types
<1>8. ASSUME NEW q \in Procs \ {p} PROVE SameProc(q) /\ Undisturbed(q)
  <2>1. /\ overlapped[q] => overlapped'[q]
        /\ evs[p] # One("addrs") /\ job[q] # NoJob /\ Area(job[q]) = Area(job[p]) => overlapped'[q]
    BY <1>1, <1>8, MarksOthers
  <2>2. SameProc(q)
    BY <1>1, <1>8, <2>1 DEF SameProc, Types
  <2>3. job[q] = NoJob \/ overlapped'[q] \/ (job[q].op = "enr" => enr' = enr)
    BY <1>1, <2>1, Areas, OnesDiffer
  <2>4. \/ job[q] = NoJob \/ overlapped'[q]
        \/ (job[q].op \in {"register", "status", "close"} => status' = status)
    <3>1. CASE job[p].op \in {"register", "close"}
      <4>1. evs[p] # One("addrs") /\ Area(job[p]) = "status"
        BY <1>2, <3>1, Areas, OnesDiffer
      <4>2. job[q].op \in {"register", "status", "close"} => Area(job[q]) = "status"
        BY Areas
      <4> QED
        BY <2>1, <4>1, <4>2
    <3>2. CASE job[p].op \notin {"register", "close"}
      BY <1>5, <3>2
    <3> QED
      BY <3>1, <3>2
  <2>5. UNCHANGED <<cache, local>>
    BY <1>1
  <2> QED
    BY <2>2, <2>3, <2>4, <2>5 DEF Undisturbed
<1>9. JobInv(p)'
  BY <1>1, <1>2, <1>7 DEF JobInv, Telling
<1>10. UpdateInv(p)'
  <2> SUFFICES ASSUME ~failed'[p], ~overlapped[p] PROVE UpdateInv(p)'
    BY <1>4 DEF UpdateInv
  <2>1. failed = [q \in Procs |-> failed[q]]
    BY DEF Types
  <2>2. ASSUME job[p].op = "enr" PROVE EnrInv(p)'
    <3>1. CASE evs[p] = One("enr")
      BY <1>1, <1>3, <1>7, <2>2, <3>1, OnesDiffer DEF EnrInv, Telling
    <3>2. CASE evs[p] = One("addrs")
      <4>1. ~failed[p] /\ enr' = enr
        BY <1>1, <2>1, <3>2, OnesDiffer
      <4>2. EnrInv(p)
        BY <1>1, <2>2, <4>1 DEF UpdateInv
      <4> QED
        BY <1>1, <1>7, <3>2, <4>1, <4>2, OnesDiffer DEF EnrInv, Telling
    <3> QED
      BY <1>2, <2>2, <3>1, <3>2
  <2>3. ASSUME job[p].op = "register" PROVE RegisterInv(p)'
    <3>1. status' = job[p].val /\ cache' = cache /\ job' = job
      BY <1>1, <1>5, <2>3
    <3>2. cache = job[p].val
      <4>1. UpdateInv(p) /\ pc[p] = "put" /\ ~overlapped[p]
        BY <1>1
      <4>2. ~failed[p]
        BY <1>1 DEF JobInv
      <4> QED
        BY <2>3, <4>1, <4>2 DEF UpdateInv, RegisterInv, Telling
    <3> QED
      BY <3>1, <3>2 DEF RegisterInv
  <2>4. ASSUME job[p].op = "close" PROVE CloseInv(p)'
    BY <1>1, <1>5, <2>4 DEF CloseInv
  <2>5. job'[p] = job[p] /\ job[p].op \notin {"status", "set"}
    BY <1>1, <1>2
  <2> QED
    BY <2>2, <2>3, <2>4, <2>5 DEF UpdateInv
<1> QED
  BY <1>7, <1>8, <1>9, <1>10 DEF Kept

\* A Put that fails changes nothing; that of an address is not the result of a job.
LEMMA PutFailed ==
    ASSUME Types, NEW p \in Procs, JobInv(p), UpdateInv(p), Put(p, FALSE)
    PROVE  Kept(p)
<1>1. /\ pc[p] = "put" /\ pc' = [pc EXCEPT ![p] = AfterPut(p, FALSE)]
      /\ failed' = [failed EXCEPT ![p] = IF evs[p] = One("addrs") THEN @ ELSE TRUE]
      /\ UNCHANGED <<enr, cache, local, left, job, read, before, evs, overlapped, wl, open, closed>>
  BY DEF Put, Goes, wsVars
<1>2. status' = status
  BY DEF Put
<1>3. PICK where : where = AfterPut(p, FALSE)
  OBVIOUS
<1>4. /\ where \in {"load", "done"}
      /\ where = "load" => job[p].op = "enr" /\ evs[p] = One("addrs")
      /\ where = "done" => ~(job[p].op = "enr" /\ job[p].by = "add" /\ evs[p] = One("addrs"))
  BY <1>3 DEF AfterPut
<1>5. failed' \in [Procs -> BOOLEAN]
  BY <1>1 DEF Types
<1>6. pc'[p] = where /\ pc' \in [Procs -> {"idle", "load", "decide", "put", "get", "fill", "write",
                                           "addr", "range", "tell", "send", "done"}]
  BY <1>1, <1>3, <1>4 DEF Types
<1>7. Types'
  BY <1>1, <1>2, <1>5, <1>6 DEF Types
<1>8. ASSUME NEW q \in Procs \ {p} PROVE SameProc(q) /\ Undisturbed(q)
  BY <1>1, <1>2, <1>8 DEF SameProc, Undisturbed, Types
<1>9. /\ evs[p] = One("addrs") => failed'[p] = failed[p]
      /\ evs[p] # One("addrs") => failed'[p]
  BY <1>1 DEF Types
<1>10. ~failed[p] /\ job[p] # NoJob
  BY <1>1 DEF JobInv
<1>11. JobInv(p)'
  BY <1>1, <1>4, <1>6, <1>9, <1>10 DEF JobInv, Telling
<1>12. UpdateInv(p)'
  <2> SUFFICES ASSUME ~failed'[p], ~overlapped[p] PROVE UpdateInv(p)'
    BY <1>1 DEF UpdateInv
  <2>1. evs[p] = One("addrs") /\ job'[p] = job[p]
    BY <1>1, <1>9
  <2>2. job[p].op \in {"enr", "write"}
    BY <1>1, <2>1, OnesDiffer DEF JobInv
  <2>3. ASSUME job[p].op = "enr" PROVE EnrInv(p)'
    <3>1. EnrInv(p)
      BY <1>1, <1>10, <2>3 DEF UpdateInv
    <3> QED
      BY <1>1, <1>4, <1>6, <2>1, <3>1, OnesDiffer DEF EnrInv, Telling
  <2> QED
    BY <2>1, <2>2, <2>3 DEF UpdateInv
<1> QED
  BY <1>7, <1>8, <1>11, <1>12 DEF Kept

LEMMA ReturnKept ==
    ASSUME Types, NEW p \in Procs, JobInv(p), UpdateInv(p), Return(p)
    PROVE  Kept(p)
<1> USE DEF Return, Goes, Reads, bookVars, wsVars
<1>1. Types' /\ pc'[p] = "idle" /\ job'[p] = NoJob /\ ~failed'[p]
  <2>1. before' \in [Procs -> [Fields -> Nat]]
    BY DEF Types
  <2> QED
    BY <2>1 DEF Types
<1>2. ASSUME NEW q \in Procs \ {p} PROVE SameProc(q) /\ Undisturbed(q)
  BY <1>2 DEF SameProc, Undisturbed, Types
<1>3. JobInv(p)' /\ UpdateInv(p)'
  BY <1>1 DEF JobInv, UpdateInv, Telling
<1> QED
  BY <1>1, <1>2, <1>3 DEF Kept

\* Every step of a goroutine.
LEMMA StepKept ==
    ASSUME Types, NEW p \in Procs, JobInv(p), UpdateInv(p), Step(p)
    PROVE  Kept(p)
<1>1. ASSUME NEW ok \in BOOLEAN, Put(p, ok) PROVE Kept(p)
  <2>1. CASE ok = TRUE
    BY <1>1, <2>1, PutDone
  <2>2. CASE ok = FALSE
    BY <1>1, <2>2, PutFailed
  <2> QED
    BY <2>1, <2>2
<1> QED
  BY <1>1, MoveKept, CacheKept, LocalKept, ReturnKept DEF Step

\* The steps of tees and commands move no goroutine that works on a job.
LEMMA CommandStep ==
    ASSUME Types, \/ Ws \/ PollLoop
                  \/ \E c \in {"poll", "serve"} : StartCmd(c) \/ StopCmd(c)
                  \/ \E t \in Tees : AddTee(t) \/ RmTee(t) \/ Stop(t)
    PROVE  /\ UNCHANGED <<enr, status, cache, local, left, job, pc, read, before, failed,
                          overlapped, evs, wl>>
           /\ UNCHANGED <<open, closed>> \/ CloseCh
<1> USE DEF bookVars, procVars, wsVars
<1>1. CASE Ws
  BY <1>1 DEF Ws, Dial, Forward, Redial, WsEnd, WsSleep, WsGoes
<1>2. CASE PollLoop
  BY <1>2 DEF PollLoop
<1>3. CASE \E c \in {"poll", "serve"} : StartCmd(c) \/ StopCmd(c)
  BY <1>3 DEF StartCmd, StopCmd
<1>4. CASE \E t \in Tees : AddTee(t) \/ RmTee(t) \/ Stop(t)
  BY <1>4 DEF AddTee, RmTee, Stop, Clean, CloseCh
<1> QED
  BY <1>1, <1>2, <1>3, <1>4
-----------------------------------------------------------------------------
(* The channel. *)

\* Goroutines take and release wl, and only the stop function closes the channel.
LEMMA StepChannel ==
    ASSUME Types, ChannelInv, NEW p \in Procs, Step(p) \/ \E j \in left : Take(p, j)
    PROVE  ChannelInv'
<1> USE DEF Goes, WillPut, Reads, bookVars, wsVars
<1>1. pc = [q \in Procs |-> pc[q]]
  BY DEF Types
<1>2. ASSUME UNCHANGED <<wl, open, closed>>, NEW where, where # "send", pc[p] # "send",
             pc' = [pc EXCEPT ![p] = where]
      PROVE  ChannelInv'
  BY <1>1, <1>2 DEF ChannelInv
<1>3. ASSUME UNCHANGED <<wl, open, closed, pc>> PROVE ChannelInv'
  BY <1>3 DEF ChannelInv
<1>4. ASSUME Tell(p) PROVE ChannelInv'
  <2>1. CASE wl = NoOne /\ IsOpen /\ wl' = p /\ pc' = [pc EXCEPT ![p] = "send"]
    <3>1. \A q \in Procs : pc[q] # "send"
      BY <2>1, TrackAssumption DEF ChannelInv
    <3> QED
      BY <1>1, <1>4, <2>1, <3>1 DEF Tell, IsOpen, ChannelInv
  <2>2. CASE UNCHANGED wl /\ (UNCHANGED pc \/ pc' = [pc EXCEPT ![p] = "range"])
    BY <1>2, <1>3, <1>4, <2>2 DEF Tell
  <2> QED
    BY <1>4, <2>1, <2>2 DEF Tell
<1>5. ASSUME Send(p) PROVE ChannelInv'
  BY <1>1, <1>5 DEF Send, ChannelInv
<1>6. ASSUME Range(p) PROVE ChannelInv'
  <2>1. AfterPut(p, TRUE) # "send"
    BY AfterPutPlace
  <2> QED
    BY <1>2, <1>3, <1>6, <2>1 DEF Range
<1>7. ASSUME NEW ok \in BOOLEAN, Put(p, ok) PROVE ChannelInv'
  <2>1. AfterPut(p, FALSE) # "send"
    BY AfterPutPlace
  <2> QED
    BY <1>2, <1>7, <2>1 DEF Put
<1>8. ASSUME \/ LoadEnr(p) \/ SetAddr(p) \/ UpdateENRMaybe(p) \/ GetStatus(p) \/ FillStatus(p)
             \/ RegisterStatus(p) \/ SetLocal(p) \/ Return(p)
      PROVE  ChannelInv'
  BY <1>2, <1>8 DEF LoadEnr, SetAddr, UpdateENRMaybe, GetStatus, FillStatus, RegisterStatus, SetLocal,
                    Return
<1>9. ASSUME NEW j \in left, Take(p, j) PROVE ChannelInv'
  BY <1>2, <1>9 DEF Take, PeerAdd, PeerConnect, HandleENR, Fetched, Served, Status, Flush,
                    PeerStatusSet, Library, Begin
<1> QED
  BY <1>4, <1>5, <1>6, <1>7, <1>8, <1>9 DEF Step
-----------------------------------------------------------------------------
(* The theorems. *)

LEMMA InitInv == Init => Inv
<1> SUFFICES ASSUME Init PROVE Inv
  OBVIOUS
<1>1. left \subseteq Jobs
  BY DEF Init, Jobs
<1>2. local \in [Fields -> Nat] /\ before \in [Procs -> [Fields -> Nat]]
  BY DEF Init
<1>3. Types
  BY <1>1, <1>2, TrackAssumption DEF Init, Types
<1>4. \A p \in Procs : JobInv(p) /\ UpdateInv(p)
  BY DEF Init, JobInv, UpdateInv, Telling
<1>5. ChannelInv
  BY DEF Init, ChannelInv
<1> QED
  BY <1>3, <1>4, <1>5 DEF Inv

LEMMA NextInv == Inv /\ [Next]_vars => Inv'
<1> SUFFICES ASSUME Inv, [Next]_vars PROVE Inv'
  OBVIOUS
<1>1. ASSUME NEW p \in Procs, Kept(p) PROVE Types' /\ \A q \in Procs : JobInv(q)' /\ UpdateInv(q)'
  BY <1>1, OtherKept DEF Kept, Inv
<1>2. ASSUME NEW p \in Procs, Step(p) \/ \E j \in left : Take(p, j) PROVE Inv'
  <2>1. Kept(p)
    BY <1>2, StepKept, TakeKept DEF Inv
  <2>2. ChannelInv'
    BY <1>2, StepChannel DEF Inv
  <2> QED
    BY <1>1, <2>1, <2>2 DEF Inv
<1>3. ASSUME UNCHANGED <<enr, status, cache, local, left, job, pc, read, before, failed, overlapped,
                         evs, wl>>,
             UNCHANGED <<open, closed>> \/ CloseCh
      PROVE  Inv'
  <2>1. open' \in BOOLEAN /\ closed' \in BOOLEAN
    BY <1>3 DEF Inv, Types, CloseCh
  <2>2. Types'
    BY <1>3, <2>1 DEF Inv, Types
  <2>3. ASSUME NEW q \in Procs PROVE JobInv(q)' /\ UpdateInv(q)'
    <3>1. SameProc(q) /\ Undisturbed(q)
      BY <1>3 DEF SameProc, Undisturbed
    <3> QED
      BY <2>2, <3>1, OtherKept DEF Inv
  <2>4. ChannelInv'
    <3>1. CASE UNCHANGED <<open, closed>>
      BY <1>3, <3>1 DEF Inv, ChannelInv
    <3>2. CASE CloseCh
      <4>1. \A q \in Procs : pc[q] # "send"
        BY <3>2, TrackAssumption DEF CloseCh, Inv, ChannelInv
      <4> QED
        BY <1>3, <3>2, <4>1 DEF CloseCh, ChannelInv
    <3> QED
      BY <1>3, <3>1, <3>2
  <2> QED
    BY <2>2, <2>3, <2>4 DEF Inv
<1>4. CASE UNCHANGED vars
  BY <1>3, <1>4 DEF vars, bookVars, procVars, wsVars
<1>5. ASSUME \/ Ws \/ PollLoop
             \/ \E c \in {"poll", "serve"} : StartCmd(c) \/ StopCmd(c)
             \/ \E t \in Tees : AddTee(t) \/ RmTee(t) \/ Stop(t)
      PROVE  Inv'
  BY <1>3, <1>5, CommandStep DEF Inv
<1> QED
  BY <1>2, <1>4, <1>5 DEF Next

\* The inductive invariant holds of every behaviour of the books and the tees.
THEOREM Invariance == Spec => []Inv
<1>1. Init => Inv
  BY InitInv
<1>2. Inv /\ [Next]_vars => Inv'
  BY NextInv
<1> QED
  BY <1>1, <1>2, PTL DEF Spec

\* UpdateENRMaybe, RegisterStatus, Status, Close and peer status set read and write
\* without a lock around both: what they return holds if nobody wrote in between.
THEOREM UpdatesHold == Spec => []UndisturbedUpdateHolds
<1>1. Inv => UndisturbedUpdateHolds
  <2> SUFFICES ASSUME Inv, NEW p \in Procs, pc[p] = "done", ~failed[p], ~overlapped[p]
               PROVE  CASE job[p].op = "enr" -> enr >= job[p].val
                        [] job[p].op = "register" -> cache = job[p].val /\ status = job[p].val
                        [] job[p].op = "status" -> cache = read[p]
                        [] job[p].op = "close" -> read[p] # 0 => status = read[p]
                        [] job[p].op = "set" ->
                              \A f \in Fields : job[p].val[f] # 0 => local[f] = job[p].val[f]
                        [] OTHER -> TRUE
    BY DEF UndisturbedUpdateHolds
  <2>1. JobInv(p) /\ UpdateInv(p)
    BY DEF Inv
  <2>2. job[p].op = "enr" => enr >= job[p].val
    BY <2>1 DEF JobInv, UpdateInv, EnrInv
  <2>3. job[p].op = "register" => cache = job[p].val /\ status = job[p].val
    BY <2>1 DEF UpdateInv, RegisterInv
  <2>4. job[p].op = "status" => cache = read[p]
    BY <2>1 DEF UpdateInv, StatusInv
  <2>5. job[p].op = "close" => (read[p] # 0 => status = read[p])
    BY <2>1 DEF UpdateInv, CloseInv
  <2>6. job[p].op = "set" => \A f \in Fields : job[p].val[f] # 0 => local[f] = job[p].val[f]
    BY <2>1 DEF UpdateInv, SetInv
  <2> QED
    BY <2>2, <2>3, <2>4, <2>5, <2>6
<1> QED
  BY <1>1, Invariance, PTL

\* A producer checks open and sends under wl, and clean closes the channel under wl:
\* no send meets a closed channel.
THEOREM NeverSendsOnClosed == Spec => []NoSendOnClosed
<1>1. Inv => NoSendOnClosed
  BY DEF Inv, ChannelInv, NoSendOnClosed
<1> QED
  BY <1>1, Invariance, PTL
============================================================================
