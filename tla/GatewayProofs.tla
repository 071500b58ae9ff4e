---------------------------- MODULE GatewayProofs ----------------------------
(***************************************************************************)
(* Theorems about Gateway, for every value of its constants.                 *)
(***************************************************************************)
EXTENDS GatewayInvariant, FiniteSetTheorems, TLAPS

(* EffectiveLease: whatever lease is asked for, the one granted is positive    *)
(* and at most MaxLease, so a SOAP mapping always expires.                    *)
THEOREM LeaseClamp ==
    ASSUME NEW l \in Int
    PROVE  EffectiveLease(l) \in 1..MaxLease
  BY LeaseAssumption DEF EffectiveLease

LEMMA IdleType == IdleState \in Locals
  BY DEF IdleState, Locals, NoJob, Job, Kinds

LEMMA WriteType ==
    ASSUME TypeOK,
           NEW method \in {"POST", "PUT", "DELETE"}, NEW p \in Ports,
           NEW body \in Mapping \cup {None}, NEW basis \in Int, NEW by \in Kinds,
           NEW who \in Clients \cup {None}
    PROVE  Write(method, p, body, basis, by, who) \in Request
  BY DEF Write, Request, TypeOK

LEMMA AfterType ==
    ASSUME TypeOK, NEW r \in Request
    PROVE  After(store, r) \in Table
  BY DEF After, Applies, Request, TypeOK, Table

LEMMA FinishType ==
    ASSUME TypeInv, NEW t \in Threads, Finish(t)
    PROVE  (thread \in [Threads -> Locals] /\ JobShape)'
  <1>1. thread' = [thread EXCEPT ![t] = IdleState]
    BY DEF Finish
  <1>2. IdleState.pc = "idle" /\ IdleState.job.kind = "none"
    BY DEF IdleState, NoJob
  <1> QED
    BY <1>1, <1>2, IdleType DEF TypeInv, TypeOK, JobShape, Fits

(* A service list is a snapshot; so is the one of a failed read. *)
LEMMA FailedListType == FailedList \in Snapshot
  BY DEF FailedList, Snapshot, EmptyTable, Table

LEMMA SendType ==
    ASSUME TypeInv, NEW t \in Threads, NEW r \in Request, Send(t, r)
    PROVE  (thread \in [Threads -> Locals] /\ JobShape)'
  <1> DEFINE L == [thread[t] EXCEPT !.pc = "call", !.since = now, !.req = r, !.got = None]
  <1>1. thread' = [thread EXCEPT ![t] = L]
    BY DEF Send
  <1>2. L \in Locals
    BY DEF TypeInv, TypeOK, Locals
  <1>3. r # None
    BY NoneAssumption
  <1>4. L.pc = "call" /\ L.req # None /\ L.job = thread[t].job
    BY <1>3 DEF TypeInv, TypeOK, Locals
  <1> HIDE DEF L
  <1> QED
    BY <1>1, <1>2, <1>4 DEF TypeInv, TypeOK, JobShape, Fits

LEMMA DeliverType ==
    ASSUME TypeInv, NEW t \in Threads, NEW X \in Snapshot \cup {None}, Deliver(t, X)
    PROVE  (thread \in [Threads -> Locals] /\ JobShape)'
  <1> DEFINE j == thread[t].job
  <1>1. CASE X = None /\ NoList(t)
    <2> DEFINE D == [IdleState EXCEPT !.pc = "dead"]
    <2>1. D \in Locals /\ D.pc = "dead" /\ D.job.kind = "none"
      BY DEF IdleState, Locals, NoJob, Job, Kinds
    <2>2. CASE thread' = [thread EXCEPT ![t] = D]
      <3> HIDE DEF D
      <3> QED
        BY <2>1, <2>2 DEF TypeInv, TypeOK, JobShape, Fits
    <2> QED
      BY <1>1, <2>2, FinishType DEF NoList
  <1>2. CASE X # None /\ j.kind = "add" /\ AddPortMapping(t, X)
    <2> DEFINE seen == X.m[j.port]
               body == [owner |-> j.client, created |-> now, lease |-> EffectiveLease(j.lease)]
               method == IF seen = None THEN "POST" ELSE "PUT"
    <2>1. j.client \in Clients /\ j.port \in Ports /\ j.lease \in Int
      BY <1>2 DEF TypeInv, TypeOK, JobShape, Fits, Locals, Job
    <2>2. body \in Mapping
      BY <2>1, LeaseClamp, LeaseAssumption DEF Mapping, TypeInv, TypeOK
    <2>3. Write(method, j.port, body, X.at, "add", j.client) \in Request
      BY <1>2, <2>1, <2>2, WriteType DEF TypeInv, Snapshot, Kinds
    <2> QED
      BY <1>2, <2>3, FinishType, SendType DEF AddPortMapping
  <1>3. CASE X # None /\ j.kind = "delete" /\ DeletePortMapping(t, X)
    <2>1. j.remote \in Clients /\ j.port \in Ports
      BY <1>3 DEF TypeInv, JobShape, Fits
    <2>2. Write("DELETE", j.port, None, X.at, "delete", j.remote) \in Request
      BY <1>3, <2>1, WriteType DEF TypeInv, Snapshot, Kinds
    <2> QED
      BY <1>3, <2>2, FinishType, SendType DEF DeletePortMapping
  <1>4. CASE X # None /\ j.kind = "expire" /\ CollectExpired(t, X)
    <2> DEFINE found == {p \in Ports : X.m[p] # None /\ Expired(X.m[p], thread[t].since)}
               L == [thread[t] EXCEPT !.pc = "loop", !.todo = found, !.basis = X.at, !.got = None]
    <2>1. thread' = [thread EXCEPT ![t] = L]
      BY <1>4 DEF CollectExpired
    <2>2. found \in SUBSET Ports /\ X.at \in Int
      BY <1>4 DEF Snapshot
    <2> HIDE DEF found
    <2>3. L \in Locals /\ L.pc = "loop" /\ L.job.kind = "expire"
      BY <1>4, <2>2 DEF TypeInv, TypeOK, Locals
    <2> HIDE DEF L
    <2> QED
      BY <2>1, <2>3 DEF TypeInv, TypeOK, JobShape, Fits
  <1>5. CASE X # None /\ j.kind \in {"list", "reconcile"} /\ Finish(t)
    BY <1>5, FinishType
  <1>6. CASE X # None /\ j.kind = "batch" /\ DeleteSelected(t, X)
    <2>1. ASSUME NEW rows \in (SUBSET {p \in Ports : X.m[p] # None}) \ {{}},
                 thread' = [thread EXCEPT ![t] = [@ EXCEPT !.pc = "popup", !.todo = rows,
                                                           !.got = None]]
          PROVE  (thread \in [Threads -> Locals] /\ JobShape)'
      <3> DEFINE L == [thread[t] EXCEPT !.pc = "popup", !.todo = rows, !.got = None]
      <3>1. thread' = [thread EXCEPT ![t] = L]
        BY <2>1
      <3>2. L \in Locals /\ L.pc = "popup" /\ L.job.kind = "batch"
        BY <1>6 DEF TypeInv, TypeOK, Locals
      <3> HIDE DEF L
      <3> QED
        BY <3>1, <3>2 DEF TypeInv, TypeOK, JobShape, Fits
    <2> QED
      BY <1>6, <2>1, FinishType DEF DeleteSelected
  <1> QED
    BY <1>1, <1>2, <1>3, <1>4, <1>5, <1>6 DEF Deliver

(* A thread that changes some fields only: what its new state must satisfy. *)
LEMMA UpdateType ==
    ASSUME TypeInv, NEW t \in Threads, NEW L \in Locals,
           thread' = [thread EXCEPT ![t] = L], Fits(L)
    PROVE  (thread \in [Threads -> Locals] /\ JobShape)'
  BY DEF TypeInv, TypeOK, JobShape, Fits

LEMMA WriteDoneType ==
    ASSUME TypeInv, NEW t \in Threads, WriteDone(t)
    PROVE  (thread \in [Threads -> Locals] /\ JobShape)'
  <1> DEFINE L == [thread[t] EXCEPT !.pc = "loop", !.req = None, !.resp = "none", !.tries = 0]
  <1>1. CASE thread[t].job.kind \in {"expire", "batch"} /\ thread' = [thread EXCEPT ![t] = L]
    <2>1. L \in Locals /\ L.pc = "loop" /\ L.job = thread[t].job
      BY DEF TypeInv, TypeOK, Locals
    <2>2. Fits(L)
      BY <1>1, <2>1 DEF Fits
    <2> HIDE DEF L
    <2> QED
      BY <1>1, <2>1, <2>2, UpdateType
  <1> QED
    BY <1>1, FinishType DEF WriteDone

(* A job that begins, with the list still to be read. *)
LEMMA ReadingType ==
    ASSUME NEW job \in Job
    PROVE  /\ Reading(job) \in Locals
           /\ Reading(job).pc = "check" /\ Reading(job).job = job
  BY IdleType DEF Reading, Locals, IdleState

LEMMA WritingType ==
    ASSUME TypeInv, NEW r \in Request
    PROVE  Writing(r) \in Locals /\ Fits(Writing(r))
  <1> DEFINE job == [NoJob EXCEPT !.kind = "web"]
  <1>1. job \in Job /\ job.kind = "web"
    BY DEF Job, NoJob, Kinds
  <1>2. r # None
    BY NoneAssumption
  <1> HIDE DEF job
  <1>3. /\ Writing(r) \in Locals
        /\ Writing(r).pc = "call" /\ Writing(r).req = r /\ Writing(r).job = job
    BY <1>1, IdleType DEF Writing, Locals, IdleState, job, TypeInv, TypeOK
  <1> QED
    BY <1>1, <1>2, <1>3 DEF Fits

LEMMA StepType ==
    ASSUME TypeInv, NEW t \in Threads, NEW L \in Locals,
           thread' = [thread EXCEPT ![t] = L], Fits(L),
           UNCHANGED <<now, store, late, cache, cacheTs>>
    PROVE  TypeInv'
  BY UpdateType DEF TypeInv, TypeOK

LEMMA ArriveType ==
    ASSUME TypeInv, NEW t \in Threads, Arrive(t)
    PROVE  TypeInv'
  <1> DEFINE Unmoved == UNCHANGED <<now, store, late, cache, cacheTs>>
  <1>1. CASE ReceiveAdd(t)
    <2>1. PICK remote \in Clients, client \in Clients, p \in Ports, l \in LeaseRequests :
             Begin(t, Reading([kind |-> "add", remote |-> remote, client |-> client,
                               port |-> p, lease |-> l]))
      BY <1>1 DEF ReceiveAdd
    <2> DEFINE job == [kind |-> "add", remote |-> remote, client |-> client,
                       port |-> p, lease |-> l]
    <2>2. job \in Job
      BY LeaseAssumption DEF Job, Kinds
    <2>3. job.kind = "add" /\ job.client \in Clients /\ job.port \in Ports
      OBVIOUS
    <2> HIDE DEF job
    <2> QED
      BY StepType, <1>1, <2>1, <2>2, <2>3, ReadingType DEF Begin, Start, ReceiveAdd, job, Fits
  <1>2. CASE ReceiveDelete(t)
    <2>1. PICK remote \in Clients, p \in Ports :
             Begin(t, Reading([kind |-> "delete", remote |-> remote, client |-> None,
                               port |-> p, lease |-> 0]))
      BY <1>2 DEF ReceiveDelete
    <2> DEFINE job == [kind |-> "delete", remote |-> remote, client |-> None,
                       port |-> p, lease |-> 0]
    <2>2. job \in Job /\ job.kind = "delete" /\ job.remote \in Clients /\ job.port \in Ports
      BY DEF Job, Kinds
    <2> HIDE DEF job
    <2> QED
      BY StepType, <1>2, <2>1, <2>2, ReadingType DEF Begin, Start, ReceiveDelete, job, Fits
  <1>3. CASE BeginList(t)
    <2> DEFINE job == [NoJob EXCEPT !.kind = "list"]
    <2>1. job \in Job /\ job.kind = "list"
      BY DEF Job, Kinds, NoJob
    <2>2. Begin(t, Reading(job)) /\ Unmoved
      BY <1>3 DEF BeginList
    <2> HIDE DEF job
    <2> QED
      BY StepType, <2>1, <2>2, ReadingType DEF Begin, Start, Fits
  <1>4. CASE BeginClean(t)
    <2> DEFINE job == [NoJob EXCEPT !.kind = "expire"]
    <2>1. job \in Job /\ job.kind = "expire"
      BY DEF Job, Kinds, NoJob
    <2>2. Begin(t, Reading(job)) /\ Unmoved
      BY <1>4 DEF BeginClean
    <2> HIDE DEF job
    <2> QED
      BY StepType, <2>1, <2>2, ReadingType DEF Begin, Start, Fits
  <1>5. CASE WebAdd(t)
    <2>1. PICK client \in Clients, p \in Ports, l \in WebLeases :
             Begin(t, Writing(Write("POST", p, [owner |-> client, created |-> now, lease |-> l],
                                    -1, "web", None)))
      BY <1>5 DEF WebAdd
    <2> DEFINE r == Write("POST", p, [owner |-> client, created |-> now, lease |-> l],
                          -1, "web", None)
    <2>2. [owner |-> client, created |-> now, lease |-> l] \in Mapping
      BY LeaseAssumption DEF Mapping, TypeInv, TypeOK
    <2>3. r \in Request
      BY <2>2, WriteType DEF Kinds, TypeInv
    <2>4. thread' = [thread EXCEPT ![t] = Writing(r)] /\ Unmoved
      BY <1>5, <2>1 DEF Begin, Start, WebAdd
    <2> HIDE DEF r
    <2> QED
      BY StepType, <2>3, <2>4, WritingType
  <1>6. CASE WebDelete(t)
    <2>1. PICK p \in Ports : Begin(t, Writing(Write("DELETE", p, None, -1, "web", None)))
      BY <1>6 DEF WebDelete
    <2> DEFINE r == Write("DELETE", p, None, -1, "web", None)
    <2>2. r \in Request
      BY WriteType DEF Kinds, TypeInv
    <2>3. thread' = [thread EXCEPT ![t] = Writing(r)] /\ Unmoved
      BY <1>6, <2>1 DEF Begin, Start, WebDelete
    <2> HIDE DEF r
    <2> QED
      BY StepType, <2>2, <2>3, WritingType
  <1>7. CASE WebDeleteSelected(t)
    <2> DEFINE job == [NoJob EXCEPT !.kind = "batch"]
    <2>1. job \in Job /\ job.kind = "batch"
      BY DEF Job, Kinds, NoJob
    <2>2. Begin(t, Reading(job)) /\ Unmoved
      BY <1>7 DEF WebDeleteSelected
    <2> HIDE DEF job
    <2> QED
      BY StepType, <2>1, <2>2, ReadingType DEF Begin, Start, Fits
  <1>8. CASE Confirm(t)
    <2> DEFINE L == [thread[t] EXCEPT !.pc = "loop", !.since = now]
    <2>1. thread' = [thread EXCEPT ![t] = L] /\ Unmoved
      BY <1>8 DEF Confirm, Start
    <2>2. L \in Locals /\ L.pc = "loop" /\ L.job = thread[t].job
      BY DEF TypeInv, TypeOK, Locals
    <2>3. thread[t].job.kind = "batch"
      BY <1>8 DEF Confirm, TypeInv, JobShape, Fits
    <2> HIDE DEF L
    <2> QED
      BY StepType, <2>1, <2>2, <2>3 DEF Fits
  <1>9. CASE Cancel(t)
    BY <1>9, FinishType DEF Cancel, TypeInv, TypeOK
  <1> QED
    BY <1>1, <1>2, <1>3, <1>4, <1>5, <1>6, <1>7, <1>8, <1>9 DEF Arrive

(* A step of a thread keeps the types: get_services first, then the write. *)
LEMMA ReadType ==
    ASSUME TypeInv, NEW t \in Threads,
           Check(t) \/ Hit(t) \/ ServeGet(t) \/ FailGet(t) \/ Fill(t) \/ Stamp(t) \/ Reread(t)
    PROVE  TypeInv'
  <1>1. CASE Check(t)
    <2> DEFINE L == [thread[t] EXCEPT !.pc = IF Fresh THEN "hit" ELSE "get", !.since = now]
    <2>1. L \in Locals /\ L.job = thread[t].job /\ L.pc \in {"hit", "get"}
      BY DEF TypeInv, TypeOK, Locals
    <2>2. Fits(L) /\ thread' = [thread EXCEPT ![t] = L]
      BY <1>1, <2>1 DEF TypeInv, JobShape, Fits, Check
    <2> HIDE DEF L
    <2> QED
      BY <1>1, <2>1, <2>2, UpdateType DEF Check, TypeInv, TypeOK
  <1>2. CASE Hit(t)
    BY <1>2, DeliverType DEF Hit, TypeInv, TypeOK
  <1>3. CASE ServeGet(t)
    <2> DEFINE X == [at |-> now, m |-> store]
               L == [thread[t] EXCEPT !.pc = "fill", !.got = X]
    <2>1. X \in Snapshot /\ X # None
      BY NoneAssumption DEF TypeInv, TypeOK, Snapshot
    <2>2. thread' = [thread EXCEPT ![t] = L]
      BY <1>3 DEF ServeGet
    <2> HIDE DEF X
    <2>3. L \in Locals /\ L.job = thread[t].job /\ L.pc = "fill" /\ L.got = X
      BY <2>1 DEF TypeInv, TypeOK, Locals
    <2>4. Fits(L)
      BY <2>1, <2>3 DEF TypeInv, JobShape, Fits
    <2> HIDE DEF L
    <2> QED
      BY <1>3, <2>2, <2>3, <2>4, StepType DEF ServeGet
  <1>4. CASE FailGet(t)
    BY <1>4, DeliverType, FailedListType DEF FailGet, TypeInv, TypeOK
  <1>5. CASE Fill(t)
    <2> DEFINE L == [thread[t] EXCEPT !.pc = "stamp", !.got = None]
    <2>1. L \in Locals /\ L.job = thread[t].job /\ L.pc = "stamp"
      BY DEF TypeInv, TypeOK, Locals
    <2>2. Fits(L) /\ thread' = [thread EXCEPT ![t] = L]
      BY <1>5, <2>1 DEF TypeInv, JobShape, Fits, Fill
    <2>3. cache' \in Snapshot \cup {None}
      BY <1>5 DEF Fill, TypeInv, TypeOK, Locals
    <2> HIDE DEF L
    <2> QED
      BY <1>5, <2>1, <2>2, <2>3, UpdateType DEF Fill, TypeInv, TypeOK
  <1>6. CASE Stamp(t)
    <2> DEFINE L == [thread[t] EXCEPT !.pc = "reread"]
    <2>1. L \in Locals /\ L.job = thread[t].job /\ L.pc = "reread"
      BY DEF TypeInv, TypeOK, Locals
    <2>2. Fits(L) /\ thread' = [thread EXCEPT ![t] = L]
      BY <1>6, <2>1 DEF TypeInv, JobShape, Fits, Stamp
    <2>3. cacheTs' \in Int
      BY <1>6 DEF Stamp, TypeInv, TypeOK
    <2> HIDE DEF L
    <2>4. (thread \in [Threads -> Locals] /\ JobShape)'
      BY <2>1, <2>2, UpdateType
    <2> QED
      BY <1>6, <2>3, <2>4 DEF Stamp, TypeInv, TypeOK
  <1>7. CASE Reread(t)
    BY <1>7, DeliverType DEF Reread, TypeInv, TypeOK
  <1> QED
    BY <1>1, <1>2, <1>3, <1>4, <1>5, <1>6, <1>7

LEMMA WireType ==
    ASSUME TypeInv, NEW t \in Threads,
           Serve(t) \/ Fail(t) \/ Answered(t) \/ ClearTs(t) \/ DeleteNext(t) \/ EndLoop(t)
    PROVE  TypeInv'
  <1>1. CASE Serve(t)
    <2> DEFINE L == [thread[t] EXCEPT !.pc = "answered", !.resp = Answer(store, thread[t].req)]
    <2>1. thread[t].req \in Request
      BY <1>1 DEF Serve, TypeInv, TypeOK, Locals, JobShape, Fits
    <2>2. Answer(store, thread[t].req) \in {"ok", "missing", "refused"}
      BY DEF Answer
    <2>3. /\ L \in Locals /\ L.job = thread[t].job
          /\ L.pc = "answered" /\ L.req = thread[t].req
      BY <2>2 DEF TypeInv, TypeOK, Locals
    <2>4. Fits(L) /\ thread' = [thread EXCEPT ![t] = L]
      BY <1>1, <2>1, <2>3, NoneAssumption DEF TypeInv, JobShape, Fits, Serve
    <2> HIDE DEF L
    <2> QED
      BY <1>1, <2>1, <2>3, <2>4, UpdateType, AfterType DEF Serve, TypeInv, TypeOK
  <1>2. CASE Fail(t)
    <2>1. thread[t].req \in Request /\ thread[t].req # None
      BY <1>2 DEF Fail, TypeInv, TypeOK, Locals, JobShape, Fits
    <2>2. late' \subseteq Request
      BY <1>2, <2>1 DEF Fail, TypeInv, TypeOK
    <2> DEFINE Again == [thread[t] EXCEPT !.tries = thread[t].tries + 1]
               GiveUp == [thread[t] EXCEPT !.pc = "answered", !.resp = "conn"]
    <2>3. /\ Again \in Locals /\ Again.job = thread[t].job
          /\ Again.pc = "call" /\ Again.req = thread[t].req
      BY <1>2 DEF Fail, TypeInv, TypeOK, Locals
    <2>4. /\ GiveUp \in Locals /\ GiveUp.job = thread[t].job
          /\ GiveUp.pc = "answered" /\ GiveUp.req = thread[t].req
      BY DEF TypeInv, TypeOK, Locals
    <2>5. \/ thread' = [thread EXCEPT ![t] = Again]
          \/ thread' = [thread EXCEPT ![t] = GiveUp]
      BY <1>2 DEF Fail
    <2> HIDE DEF Again, GiveUp
    <2>6. Fits(Again) /\ Fits(GiveUp)
      BY <2>1, <2>3, <2>4 DEF TypeInv, JobShape, Fits
    <2>7. (thread \in [Threads -> Locals] /\ JobShape)'
      BY <2>3, <2>4, <2>5, <2>6, UpdateType
    <2> QED
      BY <1>2, <2>2, <2>7 DEF Fail, TypeInv, TypeOK
  <1>3. CASE Answered(t)
    <2> DEFINE L == [thread[t] EXCEPT !.pc = "clear"]
    <2>1. CASE cache' = None /\ thread' = [thread EXCEPT ![t] = L]
      <3>1. L \in Locals /\ L.job = thread[t].job /\ L.pc = "clear"
        BY DEF TypeInv, TypeOK, Locals
      <3>2. Fits(L)
        BY <3>1 DEF TypeInv, JobShape, Fits
      <3> HIDE DEF L
      <3> QED
        BY <1>3, <2>1, <3>1, <3>2, UpdateType DEF Answered, TypeInv, TypeOK
    <2>2. CASE cache' = cache /\ WriteDone(t)
      BY <1>3, <2>2, WriteDoneType DEF Answered, TypeInv, TypeOK
    <2> QED
      BY <1>3, <2>1, <2>2 DEF Answered
  <1>4. CASE ClearTs(t)
    BY <1>4, WriteDoneType, BoundAssumption DEF ClearTs, Never, TypeInv, TypeOK
  <1>5. CASE DeleteNext(t)
    <2>1. PICK p \in thread[t].todo :
             thread' = [thread EXCEPT ![t] =
                         [@ EXCEPT !.pc = "call", !.since = now, !.todo = thread[t].todo \ {p},
                                   !.req = Write("DELETE", p, None, thread[t].basis,
                                                 thread[t].job.kind, None)]]
      BY <1>5 DEF DeleteNext
    <2> DEFINE r == Write("DELETE", p, None, thread[t].basis, thread[t].job.kind, None)
               L == [thread[t] EXCEPT !.pc = "call", !.since = now, !.todo = thread[t].todo \ {p}, !.req = r]
    <2>2. p \in Ports /\ thread[t].basis \in Int /\ thread[t].job.kind \in Kinds
      BY DEF TypeInv, TypeOK, Locals, Job
    <2>3. r \in Request /\ r # None
      BY <2>2, WriteType, NoneAssumption DEF TypeInv
    <2> HIDE DEF r
    <2>4. L \in Locals /\ L.job = thread[t].job /\ L.pc = "call" /\ L.req = r
      BY <2>2, <2>3 DEF TypeInv, TypeOK, Locals
    <2>5. Fits(L) /\ thread' = [thread EXCEPT ![t] = L]
      BY <2>1, <2>3, <2>4 DEF TypeInv, JobShape, Fits, r
    <2> HIDE DEF L
    <2> QED
      BY <1>5, <2>4, <2>5, StepType DEF DeleteNext
  <1>6. CASE EndLoop(t)
    <2>1. CASE thread[t].job.kind = "batch"
      <3> DEFINE L == [thread[t] EXCEPT !.pc = "clear"]
      <3>1. L \in Locals /\ L.job = thread[t].job /\ L.pc = "clear"
        BY DEF TypeInv, TypeOK, Locals
      <3>2. Fits(L) /\ thread' = [thread EXCEPT ![t] = L]
        BY <1>6, <2>1, <3>1 DEF TypeInv, JobShape, Fits, EndLoop
      <3> HIDE DEF L
      <3> QED
        BY <1>6, <2>1, <3>1, <3>2, UpdateType DEF EndLoop, TypeInv, TypeOK
    <2>2. CASE thread[t].job.kind # "batch"
      <3> DEFINE job == [NoJob EXCEPT !.kind = "reconcile"]
      <3>1. job \in Job /\ job.kind = "reconcile"
        BY DEF Job, NoJob, Kinds
      <3>2. thread' = [thread EXCEPT ![t] = Reading(job)] /\ cache' = cache
        BY <1>6, <2>2 DEF EndLoop
      <3> HIDE DEF job
      <3>3. Reading(job) \in Locals /\ Fits(Reading(job))
        BY <3>1, ReadingType DEF Fits
      <3> QED
        BY <1>6, <3>2, <3>3, StepType DEF EndLoop
    <2> QED
      BY <2>1, <2>2
  <1> QED
    BY <1>1, <1>2, <1>3, <1>4, <1>5, <1>6

LEMMA InitType == Init => TypeInv
  <1> SUFFICES ASSUME Init PROVE TypeInv
    OBVIOUS
  <1>1. EmptyTable \in Table
    BY DEF EmptyTable, Table
  <1>2. Never \in Int
    BY BoundAssumption DEF Never
  <1>3. Fits(IdleState)
    BY DEF IdleState, NoJob, Fits
  <1> QED
    BY <1>1, <1>2, <1>3, IdleType DEF Init, TypeInv, TypeOK, JobShape

LEMMA NextType == TypeInv /\ [Next]_vars => TypeInv'
  <1> SUFFICES ASSUME TypeInv, [Next]_vars PROVE TypeInv'
    OBVIOUS
  <1>1. CASE \E t \in Threads : Arrive(t) \/ Step(t)
    BY <1>1, ArriveType, ReadType, WireType DEF Step
  <1>2. CASE ServeLate
    <2>1. PICK r \in late : late' = late \ {r} /\ store' = After(store, r)
      BY <1>2 DEF ServeLate
    <2>2. r \in Request
      BY DEF TypeInv, TypeOK
    <2> QED
      BY <1>2, <2>1, <2>2, AfterType DEF ServeLate, TypeInv, TypeOK, JobShape, Fits
  <1>3. CASE DropLate
    BY <1>3 DEF DropLate, TypeInv, TypeOK, JobShape, Fits
  <1>4. CASE GostRestart
    BY <1>4 DEF GostRestart, TypeInv, TypeOK, JobShape, Fits, EmptyTable, Table
  <1>5. CASE Tick
    BY <1>5 DEF Tick, TypeInv, TypeOK, JobShape, Fits
  <1>6. CASE UNCHANGED vars
    BY <1>6 DEF vars, TypeInv, TypeOK, JobShape, Fits
  <1> QED
    BY <1>1, <1>2, <1>3, <1>4, <1>5, <1>6 DEF Next

(* Type correctness of the repository, its callers and the registry. *)
THEOREM TypeCorrect == Spec => []TypeOK
  <1>1. TypeInv => TypeOK
    BY DEF TypeInv
  <1> QED
    BY <1>1, InitType, NextType, PTL DEF Spec

-----------------------------------------------------------------------------
(* Steps run out                                                            *)

(* The ports are finitely many: a loop ends. *)
LEMMA TodoCount ==
    ASSUME IsFiniteSet(Ports), NEW S \in SUBSET Ports
    PROVE  /\ Cardinality(Ports) \in Nat /\ Cardinality(S) \in Nat
           /\ Cardinality(S) <= Cardinality(Ports)
           /\ \A p \in S : /\ Cardinality(S \ {p}) = Cardinality(S) - 1
                           /\ Cardinality(S \ {p}) \in Nat
  <1>1. /\ Cardinality(Ports) \in Nat /\ IsFiniteSet(S) /\ Cardinality(S) \in Nat
        /\ Cardinality(S) <= Cardinality(Ports)
    BY FS_Subset, FS_CardinalityType
  <1>2. ASSUME NEW p \in S
        PROVE  /\ Cardinality(S \ {p}) = Cardinality(S) - 1
               /\ Cardinality(S \ {p}) \in Nat
    BY <1>1, FS_RemoveElement, FS_CardinalityType
  <1> QED
    BY <1>1, <1>2

(* A step moves one thread, or none. *)
LEMMA OneMoves ==
    ASSUME TypeInv, [Next]_vars, NEW u \in Threads, thread'[u] # thread[u]
    PROVE  Arrive(u) \/ Step(u)
  <1>1. ASSUME NEW t \in Threads, Arrive(t) PROVE \E L : thread' = [thread EXCEPT ![t] = L]
    BY <1>1 DEF Arrive, ReceiveAdd, ReceiveDelete, BeginList, BeginClean, WebAdd, WebDelete,
       WebDeleteSelected, Confirm, Cancel, Begin, Start, Finish
  <1>2. ASSUME NEW t \in Threads, NEW X, Deliver(t, X) PROVE \E L : thread' = [thread EXCEPT ![t] = L]
    BY <1>2 DEF Deliver, NoList, AddPortMapping, DeletePortMapping, CollectExpired, DeleteSelected,
       Send, Finish
  <1>3. ASSUME NEW t \in Threads, Step(t) PROVE \E L : thread' = [thread EXCEPT ![t] = L]
    <2>1. CASE Hit(t) \/ FailGet(t) \/ Reread(t)
      BY <1>2, <2>1 DEF Hit, FailGet, Reread
    <2>2. CASE Check(t) \/ ServeGet(t) \/ Fill(t) \/ Stamp(t) \/ Serve(t) \/ Fail(t)
      BY <2>2 DEF Check, ServeGet, Fill, Stamp, Serve, Fail
    <2>3. CASE Answered(t) \/ ClearTs(t) \/ DeleteNext(t) \/ EndLoop(t)
      BY <2>3 DEF Answered, ClearTs, DeleteNext, EndLoop, WriteDone, Finish
    <2> QED
      BY <1>3, <2>1, <2>2, <2>3 DEF Step
  <1>4. ServeLate \/ DropLate \/ GostRestart \/ Tick \/ UNCHANGED vars => thread' = thread
    BY DEF ServeLate, DropLate, GostRestart, Tick, vars
  <1>5. ASSUME NEW t \in Threads, Arrive(t) \/ Step(t), u # t PROVE FALSE
    <2>1. \E L : thread' = [thread EXCEPT ![t] = L]
      BY <1>1, <1>3, <1>5
    <2> QED
      BY <1>5, <2>1 DEF TypeInv, TypeOK
  <1> QED
    BY <1>4, <1>5 DEF Next

(* No attempt of the next write has been made, nor of any beyond the retries. *)
Unsent(L) ==
    /\ L.tries <= Retries
    /\ L.pc \in {"check", "hit", "get", "fill", "stamp", "reread", "popup", "loop"}
          => L.tries = 0 /\ L.req = None

(* What a step of its thread does to a job in state K that goes on in state L. *)
Shorter(K, L) == Unsent(L) /\ StepsLeft(L) \in 0..(StepsLeft(K) - 1)

LEMMA LoopLength ==
    ASSUME NEW m \in Nat, NEW kind
    PROVE  /\ WriteSteps \in Nat /\ WriteSteps >= 3
           /\ LoopSteps(m, kind) \in Nat
           /\ LoopSteps(m + 1, kind) = LoopSteps(m, kind) + WriteSteps + 1
           /\ LoopSteps(0, kind) = IF kind = "expire" THEN 6 ELSE 2
           /\ \A n \in Nat : m <= n => LoopSteps(m, kind) <= LoopSteps(n, kind)
  <1>1. PICK w : w = WriteSteps + 1
    OBVIOUS
  <1>2. w \in Nat /\ w = WriteSteps + 1 /\ WriteSteps \in Nat /\ WriteSteps >= 3
    BY <1>1, BoundAssumption DEF WriteSteps
  <1>3. PICK c : c = IF kind = "expire" THEN 6 ELSE 2
    OBVIOUS
  <1>4. c \in Nat
    BY <1>3
  <1>5. \A k \in Nat : LoopSteps(k, kind) = k * w + c
    BY <1>1, <1>3 DEF LoopSteps, Lines
  <1>6. (m + 1) * w = m * w + w /\ 0 * w = 0 /\ m * w \in Nat
    BY <1>2
  <1>7. ASSUME NEW n \in Nat, m <= n PROVE m * w <= n * w /\ n * w \in Nat
    <2>1. PICK d \in Nat : n = m + d
      <3>1. n - m \in Nat /\ n = m + (n - m)
        BY <1>7
      <3> QED
        BY <3>1
    <2>2. (m + d) * w = m * w + d * w /\ d * w \in Nat
      BY <1>2
    <2> QED
      BY <1>6, <2>1, <2>2
  <1>8. \A n \in Nat : m <= n => LoopSteps(m, kind) <= LoopSteps(n, kind)
    BY <1>4, <1>5, <1>6, <1>7
  <1>9. LoopSteps(m + 1, kind) = LoopSteps(m, kind) + WriteSteps + 1
    BY <1>2, <1>4, <1>5, <1>6
  <1>10. LoopSteps(m, kind) \in Nat /\ LoopSteps(0, kind) = c
    BY <1>4, <1>5, <1>6
  <1> QED
    BY <1>2, <1>3, <1>8, <1>9, <1>10

(* What is left at each place. *)
LEMMA LeftAt ==
    ASSUME NEW L
    PROVE  /\ L.pc = "check" => StepsLeft(L) = 5 + StepsBeyond(L.job.kind)
           /\ L.pc = "get" => StepsLeft(L) = 4 + StepsBeyond(L.job.kind)
           /\ L.pc = "fill" => StepsLeft(L) = 3 + StepsBeyond(L.job.kind)
           /\ L.pc = "stamp" => StepsLeft(L) = 2 + StepsBeyond(L.job.kind)
           /\ L.pc \in {"hit", "reread"} => StepsLeft(L) = 1 + StepsBeyond(L.job.kind)
           /\ L.pc = "call" => StepsLeft(L) = WriteSteps - L.tries + StepsAround(L)
           /\ L.pc = "answered" => StepsLeft(L) = 2 + StepsAround(L)
           /\ L.pc = "clear" => StepsLeft(L) = 1 + StepsAround(L)
           /\ L.pc = "loop" => StepsLeft(L) = LoopSteps(Cardinality(L.todo), L.job.kind)
           /\ L.pc \in {"idle", "dead", "popup"} => StepsLeft(L) = 0
  BY DEF StepsLeft, Lines

LEMMA LeftTypes ==
    ASSUME IsFiniteSet(Ports), NEW L \in Locals
    PROVE  /\ StepsBeyond(L.job.kind) \in Nat /\ StepsAround(L) \in Nat
           /\ LoopSteps(Cardinality(L.todo), L.job.kind) \in Nat
           /\ L.tries \in Nat /\ Retries \in Nat /\ WriteSteps = Retries + 3
  <1>1. L.todo \in SUBSET Ports /\ L.tries \in Nat
    BY DEF Locals
  <1>2. Cardinality(L.todo) \in Nat /\ Cardinality(Ports) \in Nat
    BY <1>1, TodoCount
  <1>3. LoopSteps(Cardinality(L.todo), L.job.kind) \in Nat /\ WriteSteps \in Nat
    BY <1>2, LoopLength
  <1>4. LoopSteps(Cardinality(Ports), L.job.kind) \in Nat
    BY <1>2, LoopLength
  <1> QED
    BY <1>1, <1>3, <1>4, BoundAssumption DEF StepsBeyond, StepsAround, WriteSteps

(* A thread at work has at least one step left. *)
LEMMA WorkLeft ==
    ASSUME IsFiniteSet(Ports), NEW K \in Locals, Unsent(K), K.pc \notin {"idle", "dead", "popup"}
    PROVE  StepsLeft(K) \in Nat /\ StepsLeft(K) >= 1
  <1>1. Cardinality(K.todo) \in Nat /\ 0 <= Cardinality(K.todo)
    BY TodoCount DEF Locals
  <1>2. LoopSteps(0, K.job.kind) >= 2 /\ LoopSteps(0, K.job.kind) \in Nat
    BY LoopLength
  <1>3. LoopSteps(0, K.job.kind) <= LoopSteps(Cardinality(K.todo), K.job.kind)
    BY <1>1, LoopLength
  <1> QED
    BY <1>2, <1>3, LeftAt, LeftTypes DEF Locals, Unsent

(* A job that ends, or waits for the user, has nothing left. *)
LEMMA EndShorter ==
    ASSUME IsFiniteSet(Ports), NEW K \in Locals, Unsent(K), K.pc \notin {"idle", "dead", "popup"},
           NEW L, L.pc \in {"idle", "dead", "popup"}, L.tries = 0, L.req = None
    PROVE  Shorter(K, L)
  <1>1. StepsLeft(L) = 0
    BY LeftAt
  <1> QED
    BY <1>1, WorkLeft, BoundAssumption DEF Shorter, Unsent

(* Handed a list, a job ends, waits for the user, sends its write or begins its loop. *)
LEMMA DeliverShorter ==
    ASSUME TypeInv, IsFiniteSet(Ports), NEW t \in Threads, NEW X \in Snapshot \cup {None},
           NEW K, K = thread[t], NEW L, L = thread'[t], Unsent(K),
           K.pc \in {"hit", "get", "reread"}, Deliver(t, X)
    PROVE  Shorter(K, L)
  <1> DEFINE j == thread[t].job
  <1>0. thread \in [Threads -> Locals] /\ K \in Locals /\ K.tries = 0 /\ K.req = None
    BY DEF TypeInv, TypeOK, Unsent
  <1>1. CASE Finish(t) \/ (X = None /\ NoList(t))
    <2>1. L.pc \in {"idle", "dead"} /\ L.tries = 0 /\ L.req = None
      BY <1>0, <1>1 DEF NoList, Finish, IdleState
    <2> QED
      BY <1>0, <2>1, EndShorter
  <1>2. ASSUME j.kind \in {"add", "delete"}, NEW r, Send(t, r) PROVE Shorter(K, L)
    <2>1. L = [K EXCEPT !.pc = "call", !.since = now, !.req = r, !.got = None]
      BY <1>0, <1>2 DEF Send
    <2>2. L.pc = "call" /\ L.tries = 0 /\ L.job = K.job
      BY <1>0, <2>1 DEF Locals
    <2>3. StepsLeft(L) = WriteSteps
      BY <1>0, <1>2, <2>2, LeftAt, LeftTypes DEF StepsAround
    <2>4. StepsLeft(K) >= 1 + WriteSteps
      BY <1>0, <1>2, LeftAt, LeftTypes DEF StepsBeyond
    <2> QED
      BY <1>0, <2>2, <2>3, <2>4, WorkLeft, LeftTypes DEF Shorter, Unsent
  <1>3. CASE X # None /\ j.kind = "expire" /\ CollectExpired(t, X)
    <2> DEFINE found == {p \in Ports : X.m[p] # None /\ Expired(X.m[p], thread[t].since)}
    <2>1. L = [K EXCEPT !.pc = "loop", !.todo = found, !.basis = X.at, !.got = None]
      BY <1>0, <1>3 DEF CollectExpired
    <2>2. Cardinality(found) \in Nat /\ Cardinality(Ports) \in Nat
          /\ Cardinality(found) <= Cardinality(Ports)
      BY TodoCount
    <2> HIDE DEF found
    <2>3. /\ L.pc = "loop" /\ L.todo = found /\ L.job = K.job /\ L.tries = 0 /\ L.req = None
      BY <1>0, <2>1 DEF Locals
    <2>4. StepsLeft(L) = LoopSteps(Cardinality(found), "expire")
      BY <1>3, <2>3, LeftAt
    <2>5. /\ LoopSteps(Cardinality(found), "expire") <= LoopSteps(Cardinality(Ports), "expire")
          /\ LoopSteps(Cardinality(found), "expire") \in Nat
          /\ LoopSteps(Cardinality(Ports), "expire") \in Nat
      BY <2>2, LoopLength
    <2>6. StepsLeft(K) >= 1 + LoopSteps(Cardinality(Ports), "expire")
      BY <1>0, <1>3, <2>5, LeftAt DEF StepsBeyond
    <2> QED
      BY <1>0, <2>3, <2>4, <2>5, <2>6, WorkLeft, LeftTypes DEF Shorter, Unsent
  <1>4. CASE DeleteSelected(t, X)
    <2>1. ASSUME NEW rows, thread' = [thread EXCEPT ![t] = [@ EXCEPT !.pc = "popup", !.todo = rows,
                                                                     !.got = None]]
          PROVE  Shorter(K, L)
      <3>1. L.pc = "popup" /\ L.tries = 0 /\ L.req = None
        BY <1>0, <2>1 DEF Locals
      <3> QED
        BY <1>0, <3>1, EndShorter
    <2> QED
      BY <1>1, <1>4, <2>1 DEF DeleteSelected
  <1>5. AddPortMapping(t, X) => Finish(t) \/ \E r : Send(t, r)
    BY DEF AddPortMapping
  <1>6. DeletePortMapping(t, X) => Finish(t) \/ \E r : Send(t, r)
    BY DEF DeletePortMapping
  <1> QED
    BY <1>1, <1>2, <1>3, <1>4, <1>5, <1>6 DEF Deliver

LEMMA ReadShorter ==
    ASSUME TypeInv, IsFiniteSet(Ports), NEW t \in Threads,
           NEW K, K = thread[t], NEW L, L = thread'[t], Unsent(K),
           \/ Check(t) \/ Hit(t) \/ ServeGet(t) \/ FailGet(t) \/ Fill(t) \/ Stamp(t) \/ Reread(t)
    PROVE  Shorter(K, L)
  <1>0. thread \in [Threads -> Locals] /\ K \in Locals
    BY DEF TypeInv, TypeOK
  <1>1. CASE Check(t) \/ ServeGet(t) \/ Fill(t) \/ Stamp(t)
    <2>1. /\ L.job = K.job /\ L.tries = K.tries /\ L.req = K.req
          /\ \/ K.pc = "check" /\ L.pc \in {"hit", "get"}
             \/ K.pc = "get" /\ L.pc = "fill"
             \/ K.pc = "fill" /\ L.pc = "stamp"
             \/ K.pc = "stamp" /\ L.pc = "reread"
      <3>1. CASE Check(t)
        BY <1>0, <3>1 DEF Check, Locals
      <3>2. CASE ServeGet(t)
        BY <1>0, <3>2 DEF ServeGet, Locals
      <3>3. CASE Fill(t)
        BY <1>0, <3>3 DEF Fill, Locals
      <3>4. CASE Stamp(t)
        BY <1>0, <3>4 DEF Stamp, Locals
      <3> QED
        BY <1>1, <3>1, <3>2, <3>3, <3>4
    <2>2. StepsBeyond(K.job.kind) \in Nat
      BY <1>0, LeftTypes
    <2>3. StepsLeft(L) \in 0..(StepsLeft(K) - 1)
      BY <2>1, <2>2, LeftAt
    <2> QED
      BY <2>1, <2>3 DEF Shorter, Unsent
  <1>2. CASE Hit(t) \/ FailGet(t) \/ Reread(t)
    <2>1. PICK X \in Snapshot \cup {None} : Deliver(t, X)
      BY <1>2, FailedListType DEF Hit, FailGet, Reread, TypeInv, TypeOK
    <2>2. K.pc \in {"hit", "get", "reread"}
      BY <1>2 DEF Hit, FailGet, Reread
    <2> QED
      BY <2>1, <2>2, DeliverShorter
  <1> QED
    BY <1>1, <1>2

LEMMA SendShorter ==
    ASSUME TypeInv, IsFiniteSet(Ports), NEW t \in Threads,
           NEW K, K = thread[t], NEW L, L = thread'[t], Unsent(K), Serve(t) \/ Fail(t)
    PROVE  Shorter(K, L)
  <1>0. thread \in [Threads -> Locals] /\ K \in Locals /\ K.pc = "call"
    BY DEF TypeInv, TypeOK, Serve, Fail
  <1>1. \/ \E resp : L = [K EXCEPT !.pc = "answered", !.resp = resp]
        \/ L = [K EXCEPT !.tries = K.tries + 1] /\ K.tries < Retries
    <2>1. CASE Serve(t)
      BY <1>0, <2>1 DEF Serve
    <2>2. CASE Fail(t)
      BY <1>0, <2>2 DEF Fail
    <2> QED
      BY <2>1, <2>2
  <1>2. /\ L.job = K.job /\ L.req = K.req /\ L.todo = K.todo
        /\ \/ L.pc = "answered" /\ L.tries = K.tries
           \/ L.pc = "call" /\ L.tries = K.tries + 1 /\ K.tries < Retries
    BY <1>0, <1>1 DEF Locals
  <1>3. StepsAround(L) = StepsAround(K)
    BY <1>2 DEF StepsAround
  <1>4. /\ StepsAround(K) \in Nat /\ K.tries \in Nat /\ Retries \in Nat /\ WriteSteps = Retries + 3
        /\ K.tries <= Retries
    BY <1>0, LeftTypes DEF Unsent
  <1>5. StepsLeft(L) \in 0..(StepsLeft(K) - 1)
    BY <1>0, <1>2, <1>3, <1>4, LeftAt
  <1> QED
    BY <1>2, <1>4, <1>5 DEF Shorter, Unsent

(* An answered write clears the cache, ends the job, or goes back to its loop. *)
LEMMA AnswerShorter ==
    ASSUME TypeInv, IsFiniteSet(Ports), NEW t \in Threads,
           NEW K, K = thread[t], NEW L, L = thread'[t], Unsent(K), Answered(t) \/ ClearTs(t)
    PROVE  Shorter(K, L)
  <1>0. /\ thread \in [Threads -> Locals] /\ K \in Locals
        /\ K.pc = "answered" \/ (K.pc = "clear" /\ WriteDone(t))
        /\ WriteDone(t) \/ (K.pc = "answered" /\ thread' = [thread EXCEPT ![t] = [@ EXCEPT !.pc = "clear"]])
    BY DEF TypeInv, TypeOK, Answered, ClearTs
  <1>1. CASE K.pc = "answered" /\ L = [K EXCEPT !.pc = "clear"]
    <2>1. L.pc = "clear" /\ L.job = K.job /\ L.req = K.req /\ L.todo = K.todo /\ L.tries = K.tries
      BY <1>0, <1>1 DEF Locals
    <2>2. StepsAround(L) = StepsAround(K) /\ StepsAround(K) \in Nat
      BY <1>0, <2>1, LeftTypes DEF StepsAround
    <2>3. StepsLeft(L) = 1 + StepsAround(K) /\ StepsLeft(K) = 2 + StepsAround(K)
      <3>1. K.pc = "answered" /\ L.pc = "clear" /\ StepsAround(L) = StepsAround(K)
        BY <1>1, <2>1, <2>2
      <3> QED
        BY <3>1, LeftAt
    <2>4. StepsLeft(L) \in 0..(StepsLeft(K) - 1)
      BY <2>2, <2>3
    <2> QED
      BY <2>1, <2>4 DEF Shorter, Unsent
  <1>2. CASE Finish(t)
    <2>1. L.pc = "idle" /\ L.tries = 0 /\ L.req = None
      BY <1>0, <1>2 DEF Finish, IdleState
    <2> QED
      BY <1>0, <2>1, EndShorter
  <1>3. CASE /\ K.job.kind \in {"expire", "batch"} /\ K.req # None
             /\ L = [K EXCEPT !.pc = "loop", !.req = None, !.resp = "none", !.tries = 0]
    <2>1. L.pc = "loop" /\ L.job = K.job /\ L.req = None /\ L.todo = K.todo /\ L.tries = 0
      BY <1>0, <1>3 DEF Locals
    <2>2. StepsAround(K) = LoopSteps(Cardinality(K.todo), K.job.kind)
      BY <1>3 DEF StepsAround
    <2>3. StepsLeft(L) = StepsAround(K)
      BY <2>1, <2>2, LeftAt
    <2>4. StepsLeft(K) \in {1 + StepsAround(K), 2 + StepsAround(K)}
      BY <1>0, LeftAt
    <2>5. StepsAround(K) \in Nat
      BY <1>0, LeftTypes
    <2>6. StepsLeft(L) \in 0..(StepsLeft(K) - 1)
      BY <2>3, <2>4, <2>5
    <2> QED
      BY <2>1, <2>6, BoundAssumption DEF Shorter, Unsent
  <1>4. CASE WriteDone(t)
    BY <1>0, <1>2, <1>3, <1>4 DEF WriteDone
  <1>5. CASE K.pc = "answered" /\ thread' = [thread EXCEPT ![t] = [@ EXCEPT !.pc = "clear"]]
    BY <1>0, <1>1, <1>5
  <1> QED
    BY <1>0, <1>4, <1>5

(* The next deletion takes one of the loop's, and the end of the loop the rest. *)
LEMMA LoopShorter ==
    ASSUME TypeInv, IsFiniteSet(Ports), NEW t \in Threads,
           NEW K, K = thread[t], NEW L, L = thread'[t], Unsent(K), DeleteNext(t) \/ EndLoop(t)
    PROVE  Shorter(K, L)
  <1>0. /\ thread \in [Threads -> Locals] /\ K \in Locals /\ K.pc = "loop"
        /\ K.tries = 0 /\ K.req = None /\ K.job.kind \in {"expire", "batch"} /\ K.todo \in SUBSET Ports
    BY DEF TypeInv, TypeOK, JobShape, Fits, DeleteNext, EndLoop, Unsent, Locals
  <1>1. CASE DeleteNext(t)
    <2>1. PICK p \in K.todo :
             L = [K EXCEPT !.pc = "call", !.since = now, !.todo = K.todo \ {p},
                           !.req = Write("DELETE", p, None, K.basis, K.job.kind, None)]
      BY <1>0, <1>1 DEF DeleteNext
    <2>2. L.pc = "call" /\ L.job = K.job /\ L.tries = 0 /\ L.todo = K.todo \ {p}
      BY <1>0, <2>1 DEF Locals
    <2>3. PICK m \in Nat : m = Cardinality(L.todo) /\ Cardinality(K.todo) = m + 1
      <3>1. /\ Cardinality(L.todo) = Cardinality(K.todo) - 1
            /\ Cardinality(L.todo) \in Nat /\ Cardinality(K.todo) \in Nat
        BY <1>0, <2>1, <2>2, TodoCount
      <3> QED
        BY <3>1
    <2>4. /\ LoopSteps(m + 1, K.job.kind) = LoopSteps(m, K.job.kind) + WriteSteps + 1
          /\ LoopSteps(m, K.job.kind) \in Nat /\ WriteSteps \in Nat /\ WriteSteps >= 3
      BY LoopLength
    <2>5. StepsAround(L) \in 0..LoopSteps(m, K.job.kind)
      BY <2>2, <2>3, <2>4 DEF StepsAround
    <2>6. StepsLeft(L) = WriteSteps + StepsAround(L)
      BY <2>2, <2>4, <2>5, LeftAt
    <2>7. StepsLeft(K) = LoopSteps(m, K.job.kind) + WriteSteps + 1
      BY <1>0, <2>3, <2>4, LeftAt
    <2> QED
      BY <2>2, <2>4, <2>5, <2>6, <2>7, BoundAssumption DEF Shorter, Unsent
  <1>2. CASE EndLoop(t)
    <2>1. K.todo = {} /\ Cardinality({}) = 0
      BY <1>2, FS_EmptySet DEF EndLoop
    <2>2. StepsLeft(K) = IF K.job.kind = "expire" THEN 6 ELSE 2
      <3>1. StepsLeft(K) = LoopSteps(0, K.job.kind)
        BY <1>0, <2>1, LeftAt
      <3> QED
        BY <3>1, LoopLength
    <2>3. CASE K.job.kind = "batch"
      <3>1. L = [K EXCEPT !.pc = "clear"]
        BY <1>0, <1>2, <2>3 DEF EndLoop
      <3>2. L.pc = "clear" /\ L.req = None /\ L.tries = 0
        BY <1>0, <3>1 DEF Locals
      <3>3. StepsLeft(L) = 1
        BY <3>2, LeftAt DEF StepsAround
      <3> QED
        BY <2>2, <2>3, <3>2, <3>3, BoundAssumption DEF Shorter, Unsent
    <2>4. CASE K.job.kind = "expire"
      <3>1. L = Reading([NoJob EXCEPT !.kind = "reconcile"])
        BY <1>0, <1>2, <2>4 DEF EndLoop
      <3>2. L.pc = "check" /\ L.req = None /\ L.tries = 0 /\ L.job.kind = "reconcile"
        BY <3>1 DEF Reading, IdleState, NoJob
      <3>3. StepsLeft(L) = 5
        BY <3>2, LeftAt DEF StepsBeyond
      <3> QED
        BY <2>2, <2>4, <3>2, <3>3, BoundAssumption DEF Shorter, Unsent
    <2> QED
      BY <1>0, <2>3, <2>4
  <1> QED
    BY <1>1, <1>2

(* A job begins with nothing sent. *)
LEMMA ArriveUnsent ==
    ASSUME TypeInv, NEW t \in Threads, NEW K, K = thread[t], NEW L, L = thread'[t], Unsent(K),
           Arrive(t)
    PROVE  Resting(t) /\ Unsent(L)
  <1>0. thread \in [Threads -> Locals] /\ K \in Locals
    BY DEF TypeInv, TypeOK
  <1>1. CASE ReceiveAdd(t) \/ ReceiveDelete(t) \/ BeginList(t) \/ BeginClean(t)
             \/ WebDeleteSelected(t)
    <2>1. PICK job : Begin(t, Reading(job))
      BY <1>1 DEF ReceiveAdd, ReceiveDelete, BeginList, BeginClean, WebDeleteSelected
    <2>2. L.tries = 0 /\ L.req = None
      BY <1>0, <2>1 DEF Begin, Start, Reading, IdleState
    <2> QED
      BY <2>1, <2>2, BoundAssumption DEF Begin, Resting, Unsent
  <1>2. CASE WebAdd(t) \/ WebDelete(t)
    <2>1. PICK r : Begin(t, Writing(r))
      BY <1>2 DEF WebAdd, WebDelete
    <2>2. L = Writing(r)
      BY <1>0, <2>1 DEF Begin, Start
    <2>3. L.tries = 0 /\ L.pc = "call"
      BY <2>2 DEF Writing, IdleState
    <2> QED
      BY <2>1, <2>3, BoundAssumption DEF Begin, Resting, Unsent
  <1>3. CASE Confirm(t)
    <2>1. L.tries = K.tries /\ L.req = K.req /\ K.pc = "popup"
      BY <1>0, <1>3 DEF Confirm, Start, Locals
    <2> QED
      BY <2>1, BoundAssumption DEF Resting, Unsent
  <1>4. CASE Cancel(t)
    <2>1. L.tries = 0 /\ L.req = None /\ K.pc = "popup"
      BY <1>0, <1>4 DEF Cancel, Finish, IdleState
    <2> QED
      BY <2>1, BoundAssumption DEF Resting, Unsent
  <1> QED
    BY <1>1, <1>2, <1>3, <1>4 DEF Arrive

LEMMA StepShorter ==
    ASSUME TypeInv, IsFiniteSet(Ports), NEW t \in Threads,
           NEW K, K = thread[t], NEW L, L = thread'[t], Unsent(K), Step(t)
    PROVE  Shorter(K, L)
  BY ReadShorter, SendShorter, AnswerShorter, LoopShorter DEF Step

(* JobsEnd without its fairness: a job takes so many steps of its thread and no  *)
(* more, whatever the other threads and GOST do.                              *)
THEOREM JobsAreBounded ==
    ASSUME IsFiniteSet(Ports)
    PROVE  Spec => StepsRunOut
  <1> DEFINE UnsentInv == \A t \in Threads : Unsent(thread[t])
             RunsOut == \A t \in Threads :
                           ~Resting(t) => \/ thread'[t] = thread[t]
                                          \/ StepsLeft(thread'[t]) \in 0..(StepsLeft(thread[t]) - 1)
  <1>1. Init => UnsentInv
    BY BoundAssumption DEF Init, Unsent, IdleState
  <1>2. ASSUME TypeInv, UnsentInv, [Next]_vars, NEW t \in Threads, NEW L, L = thread'[t]
        PROVE  /\ Unsent(L)
               /\ ~Resting(t) => L = thread[t] \/ StepsLeft(L) \in 0..(StepsLeft(thread[t]) - 1)
    <2>1. PICK K : K = thread[t] /\ Unsent(K)
      BY <1>2
    <2>2. CASE L # K
      <3>1. Arrive(t) \/ Step(t)
        BY <1>2, <2>1, <2>2, OneMoves
      <3> QED
        BY <1>2, <2>1, <3>1, ArriveUnsent, StepShorter DEF Shorter
    <2> QED
      BY <2>1, <2>2
  <1>3. TypeInv /\ UnsentInv /\ [Next]_vars => UnsentInv'
    BY <1>2
  <1>4. TypeInv /\ UnsentInv /\ [Next]_vars => [RunsOut]_vars
    BY <1>2
  <1> QED
    BY <1>1, <1>3, <1>4, InitType, NextType, PTL DEF Spec, StepsRunOut

=============================================================================
