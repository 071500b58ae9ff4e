-------------------------- MODULE GatewayRefinement --------------------------
(***************************************************************************)
(* Gateway implements PortTable, for any sets of clients, ports and threads:  *)
(* with the window of GatewayTable when jobs interleave, calls fail and GOST   *)
(* restarts, and exactly when one job runs at a time and no write is lost.    *)
(***************************************************************************)
EXTENDS GatewaySafety

(* The requests the code makes: what a write says for each kind of job, and    *)
(* how old the list was it was decided on when it was built.                  *)
ByClient(r) ==
    /\ r.by = "add" => /\ r.method \in {"POST", "PUT"} /\ r.who \in Clients
                       /\ r.body # None /\ r.body.owner = r.who /\ r.body.lease \in 1..MaxLease
                       /\ r.method = "PUT" => r.basis >= 0
    /\ r.by = "delete" => r.method = "DELETE" /\ r.who \in Clients
                          /\ (~ReadsFail => r.basis >= 0)
    /\ r.by \in {"add", "delete"} /\ r.basis >= 0 => r.built - r.basis < TTL + 3 * MaxCall

ByOthers(r) ==
    /\ r.by \in {"web", "batch", "expire"} => r.who = None
    /\ r.by = "web" => \/ r.method = "POST" /\ r.body # None /\ r.body.lease \in WebLeases
                       \/ r.method = "DELETE"
    /\ r.by \in {"batch", "expire"} => r.method = "DELETE"
    /\ r.by = "expire" =>
          /\ r.basis >= 0
          /\ r.built - r.basis < TTL + 2 * MaxCall + Cardinality(Ports) * MaxCall

Formed(r) ==
    /\ r.by \in {"add", "delete", "web", "batch", "expire"}
    /\ r.method = "DELETE" => r.body = None
    /\ ByClient(r) /\ ByOthers(r)

(* Every deletion of a cleanup takes a call: its list ages by as much. *)
Spent(L) == (Cardinality(Ports) - Cardinality(L.todo)) * MaxCall

Paced(L) ==
    L.job.kind = "expire" /\ L.pc \in {"loop", "call", "answered", "clear"} =>
        /\ L.basis < 0 => L.todo = {}
        /\ L.basis >= 0 => L.since - L.basis < TTL + 2 * MaxCall + Spent(L)

FormInv ==
    /\ \A r \in late : Formed(r)
    /\ \A t \in Threads : /\ thread[t].req # None => Formed(thread[t].req)
                          /\ Paced(thread[t])

-----------------------------------------------------------------------------
(* FormInv is inductive                                                     *)

(* A step of one thread: its request and its loop are what matters. *)
LEMMA FormStep ==
    ASSUME TypeInv, FormInv, NEW t \in Threads, NEW L, thread' = [thread EXCEPT ![t] = L],
           L.req # None => Formed(L.req), Paced(L),
           \A r \in late' : Formed(r)
    PROVE  FormInv'
  <1>1. ASSUME NEW u \in Threads
        PROVE  /\ thread'[u].req # None => Formed(thread'[u].req)
               /\ Paced(thread'[u])
    <2>1. CASE u = t
      <3>1. thread'[u] = L
        BY <2>1 DEF TypeInv, TypeOK
      <3> QED
        BY <3>1
    <2>2. CASE u # t
      <3>1. thread'[u] = thread[u]
        BY <2>2 DEF TypeInv, TypeOK
      <3> QED
        BY <3>1 DEF FormInv
    <2> QED
      BY <2>1, <2>2
  <1> QED
    BY <1>1 DEF FormInv

LEMMA FormFinish ==
    ASSUME TypeInv, FormInv, NEW t \in Threads, Finish(t), late' = late
    PROVE  FormInv'
  <1>1. PICK L : L = IdleState
    OBVIOUS
  <1>2. L.req = None /\ L.pc = "idle"
    BY <1>1 DEF IdleState
  <1> QED
    BY <1>1, <1>2, FormStep DEF Finish, Paced, FormInv

LEMMA FormReading ==
    ASSUME TypeInv, FormInv, NEW t \in Threads, NEW job,
           thread' = [thread EXCEPT ![t] = Reading(job)], late' = late
    PROVE  FormInv'
  <1>1. PICK L : L = Reading(job)
    OBVIOUS
  <1>2. L.req = None /\ L.pc = "check"
    BY <1>1 DEF Reading, IdleState
  <1> QED
    BY <1>1, <1>2, FormStep DEF Paced, FormInv

LEMMA FormWriting ==
    ASSUME TypeInv, FormInv, NEW t \in Threads, NEW r, Formed(r),
           thread' = [thread EXCEPT ![t] = Writing(r)], late' = late
    PROVE  FormInv'
  <1>1. PICK L : L = Writing(r)
    OBVIOUS
  <1>2. L.req = r /\ L.job.kind = "web"
    BY <1>1 DEF Writing, IdleState, NoJob
  <1> QED
    BY <1>1, <1>2, FormStep DEF Paced, FormInv

(* A thread that moves on without a new request, outside the cleanup or no     *)
(* later in it.                                                              *)
LEMMA FormMoves ==
    ASSUME TypeInv, FormInv, NEW t \in Threads, NEW L, thread' = [thread EXCEPT ![t] = L],
           L.req = thread[t].req \/ L.req = None, L.job = thread[t].job,
           \/ L.pc \notin {"loop", "call", "answered", "clear"}
           \/ L.job.kind # "expire"
           \/ /\ thread[t].pc \in {"loop", "call", "answered", "clear"}
              /\ L.since = thread[t].since /\ L.todo = thread[t].todo
              /\ L.basis = thread[t].basis,
           \A r \in late' : Formed(r)
    PROVE  FormInv'
  <1>1. L.req # None => Formed(L.req)
    BY DEF FormInv
  <1>2. Paced(L)
    BY DEF FormInv, Paced, Spent
  <1> QED
    BY <1>1, <1>2, FormStep

LEMMA FormArrive ==
    ASSUME TypeInv, FormInv, NEW t \in Threads, Arrive(t)
    PROVE  FormInv'
  <1>0. late' = late /\ \A r \in late' : Formed(r)
    BY DEF FormInv, Arrive, ReceiveAdd, ReceiveDelete, BeginList, BeginClean, WebAdd, WebDelete,
           WebDeleteSelected, Confirm, Cancel
  <1>1. CASE \/ ReceiveAdd(t) \/ ReceiveDelete(t) \/ BeginList(t) \/ BeginClean(t)
             \/ WebDeleteSelected(t)
    BY <1>0, <1>1, FormReading
    DEF ReceiveAdd, ReceiveDelete, BeginList, BeginClean, WebDeleteSelected, Begin, Start
  <1>2. CASE WebAdd(t)
    <2>1. PICK client \in Clients, p \in Ports, l \in WebLeases :
             Begin(t, Writing(Write("POST", p, [owner |-> client, created |-> now, lease |-> l],
                                    -1, "web", None)))
      BY <1>2 DEF WebAdd
    <2>2. PICK body : body = [owner |-> client, created |-> now, lease |-> l]
      OBVIOUS
    <2>3. PICK r : r = Write("POST", p, body, -1, "web", None)
      OBVIOUS
    <2>4. body \in Mapping /\ body.lease = l
      BY <2>2, LeaseAssumption DEF Mapping, TypeInv, TypeOK
    <2>5. /\ r.by = "web" /\ r.method = "POST" /\ r.body = body /\ r.who = None
          /\ body # None
      BY <2>3, <2>4, NoneAssumption DEF Write
    <2>6. Formed(r)
      BY <2>4, <2>5 DEF Formed, ByClient, ByOthers
    <2> QED
      BY <1>0, <2>1, <2>2, <2>3, <2>6, FormWriting DEF Begin, Start
  <1>3. CASE WebDelete(t)
    <2>1. PICK p \in Ports : Begin(t, Writing(Write("DELETE", p, None, -1, "web", None)))
      BY <1>3 DEF WebDelete
    <2>2. PICK r : r = Write("DELETE", p, None, -1, "web", None)
      OBVIOUS
    <2>3. r.by = "web" /\ r.method = "DELETE" /\ r.body = None /\ r.who = None
      BY <2>2 DEF Write
    <2>4. Formed(r)
      BY <2>3 DEF Formed, ByClient, ByOthers
    <2> QED
      BY <1>0, <2>1, <2>2, <2>4, FormWriting DEF Begin, Start
  <1>4. CASE Confirm(t)
    <2>1. PICK L : L = [thread[t] EXCEPT !.pc = "loop", !.since = now]
      OBVIOUS
    <2>2. thread' = [thread EXCEPT ![t] = L]
      BY <1>4, <2>1 DEF Confirm, Start
    <2>3. thread[t] \in Locals /\ thread[t].job.kind = "batch"
      BY <1>4 DEF Confirm, TypeInv, TypeOK, JobShape, Fits
    <2>4. L.req = thread[t].req /\ L.job = thread[t].job
      BY <2>1, <2>3 DEF Locals
    <2> QED
      BY <1>0, <2>2, <2>3, <2>4, FormMoves
  <1>5. CASE Cancel(t)
    BY <1>0, <1>5, FormFinish DEF Cancel
  <1> QED
    BY <1>1, <1>2, <1>3, <1>4, <1>5 DEF Arrive

(* A caller of get_services is handed X: what it sends is Formed. *)
LEMMA FormDeliver ==
    ASSUME TypeInv, FormInv, IsFiniteSet(Ports), NEW t \in Threads,
           NEW X \in Snapshot \cup {None}, Deliver(t, X), late' = late,
           X # None => /\ X.at < 0 => ReadsFail /\ X = FailedList
                       /\ X.at >= 0 => /\ now - X.at < TTL + 3 * MaxCall
                                       /\ thread[t].since - X.at < TTL + 2 * MaxCall
    PROVE  FormInv'
  <1> DEFINE j == thread[t].job
  <1>0. /\ now \in Nat /\ TTL \in Nat \ {0} /\ MaxCall \in Nat
        /\ thread[t] \in Locals /\ thread[t].since \in Nat
        /\ X # None => X.at \in Int
        /\ \A r \in late' : Formed(r)
    BY BoundAssumption DEF TypeInv, TypeOK, Locals, Snapshot, FormInv
  <1>1. CASE X = None /\ NoList(t)
    <2>1. CASE thread' = [thread EXCEPT ![t] = [IdleState EXCEPT !.pc = "dead"]]
      <3>1. PICK L : L = [IdleState EXCEPT !.pc = "dead"]
        OBVIOUS
      <3>2. L.pc = "dead" /\ L.req = None
        BY <3>1 DEF IdleState
      <3> QED
        BY <1>0, <2>1, <3>1, <3>2, FormStep DEF Paced
    <2> QED
      BY <1>1, <2>1, FormFinish DEF NoList
  <1>2. ASSUME NEW r, Send(t, r), Formed(r), j.kind # "expire" PROVE FormInv'
    <2>1. PICK L : L = [thread[t] EXCEPT !.pc = "call", !.since = now, !.req = r, !.got = None]
      OBVIOUS
    <2>2. L.req = r /\ L.job = j
      BY <1>0, <2>1 DEF Locals
    <2> QED
      BY <1>0, <1>2, <2>1, <2>2, FormStep DEF Send, Paced
  <1>3. CASE X # None /\ j.kind = "add" /\ AddPortMapping(t, X)
    <2> DEFINE seen == X.m[j.port]
               method == IF seen = None THEN "POST" ELSE "PUT"
    <2>1. CASE ~ConflictsWith(seen, j.client)
      <3>1. j.client \in Clients /\ j.port \in Ports /\ j.lease \in Int
        BY <1>0, <1>3 DEF TypeInv, JobShape, Fits, Locals, Job
      <3>2. PICK body : body = [owner |-> j.client, created |-> now,
                                lease |-> EffectiveLease(j.lease)]
        OBVIOUS
      <3>3. /\ body # None /\ body.owner = j.client /\ body.lease \in 1..MaxLease
        <4>1. EffectiveLease(j.lease) \in 1..MaxLease
          BY <3>1, LeaseClamp
        <4>2. body \in Mapping
          BY <1>0, <3>1, <3>2, <4>1, LeaseAssumption DEF Mapping
        <4> QED
          BY <3>2, <4>1, <4>2, NoneAssumption
      <3>4. PICK r : r = Write(method, j.port, body, X.at, "add", j.client)
        OBVIOUS
      <3>5. /\ r.built = now /\ r.body = body /\ r.basis = X.at /\ r.by = "add"
            /\ r.who = j.client /\ r.method = method
        BY <3>4 DEF Write
      <3>6. r.method = "PUT" => r.basis >= 0
        <4>1. CASE X.at < 0
          BY <1>3, <3>1, <3>5, <4>1 DEF FailedList, EmptyTable
        <4> QED
          BY <1>0, <1>3, <3>5, <4>1
      <3>7. Formed(r)
        BY <1>3, <3>1, <3>3, <3>5, <3>6 DEF Formed, ByClient, ByOthers
      <3> QED
        BY <1>2, <1>3, <2>1, <3>2, <3>4, <3>7 DEF AddPortMapping
    <2> QED
      BY <1>3, <2>1, FormFinish DEF AddPortMapping
  <1>4. CASE X # None /\ j.kind = "delete" /\ DeletePortMapping(t, X)
    <2>1. CASE MayDelete(X.m[j.port], j.remote)
      <3>1. j.remote \in Clients
        BY <1>4 DEF TypeInv, JobShape, Fits
      <3>2. PICK r : r = Write("DELETE", j.port, None, X.at, "delete", j.remote)
        OBVIOUS
      <3>3. /\ r.built = now /\ r.body = None /\ r.basis = X.at /\ r.by = "delete"
            /\ r.who = j.remote /\ r.method = "DELETE"
        BY <3>2 DEF Write
      <3>4. ~ReadsFail => r.basis >= 0
        BY <1>0, <1>4, <3>3
      <3>5. Formed(r)
        BY <1>4, <3>1, <3>3, <3>4 DEF Formed, ByClient, ByOthers
      <3> QED
        BY <1>2, <1>4, <2>1, <3>2, <3>5 DEF DeletePortMapping
    <2> QED
      BY <1>4, <2>1, FormFinish DEF DeletePortMapping
  <1>5. CASE X # None /\ j.kind = "expire" /\ CollectExpired(t, X)
    <2>1. PICK found, L :
             /\ found = {p \in Ports : X.m[p] # None /\ Expired(X.m[p], thread[t].since)}
             /\ L = [thread[t] EXCEPT !.pc = "loop", !.todo = found, !.basis = X.at, !.got = None]
      OBVIOUS
    <2>2. thread' = [thread EXCEPT ![t] = L]
      BY <1>5, <2>1 DEF CollectExpired
    <2>3. /\ L.since = thread[t].since /\ L.req = thread[t].req
          /\ L.todo = found /\ L.basis = X.at
      BY <1>0, <2>1 DEF Locals
    <2>4. X.at < 0 => found = {}
      BY <1>5, <2>1 DEF FailedList, EmptyTable
    <2>5. Spent(L) >= 0 /\ Spent(L) \in Int
      <3>1. found \in SUBSET Ports
        BY <2>1
      <3>2. PICK k : k = Cardinality(Ports) - Cardinality(found)
        OBVIOUS
      <3>3. k \in Nat
        BY <3>1, <3>2, TodoCount
      <3>4. k * MaxCall \in Nat
        BY <1>0, <3>3
      <3> QED
        BY <2>3, <3>2, <3>4 DEF Spent
    <2>6. Paced(L)
      BY <1>0, <1>5, <2>3, <2>4, <2>5 DEF Paced
    <2> QED
      BY <1>0, <2>2, <2>3, <2>6, FormStep DEF FormInv
  <1>6. CASE X # None /\ j.kind = "batch" /\ DeleteSelected(t, X)
    <2>1. ASSUME NEW rows,
                 thread' = [thread EXCEPT ![t] = [@ EXCEPT !.pc = "popup", !.todo = rows,
                                                           !.got = None]]
          PROVE  FormInv'
      <3>1. PICK L : L = [thread[t] EXCEPT !.pc = "popup", !.todo = rows, !.got = None]
        OBVIOUS
      <3>2. L.pc = "popup" /\ L.req = thread[t].req /\ L.job = j
        BY <1>0, <3>1 DEF Locals
      <3> QED
        BY <1>0, <2>1, <3>1, <3>2, FormMoves
    <2> QED
      BY <1>6, <2>1, FormFinish DEF DeleteSelected
  <1>7. CASE X # None /\ j.kind \in {"list", "reconcile"} /\ Finish(t)
    BY <1>7, FormFinish
  <1> QED
    BY <1>1, <1>3, <1>4, <1>5, <1>6, <1>7 DEF Deliver

LEMMA FormHit ==
    ASSUME IInv, FormInv, IsFiniteSet(Ports), NEW t \in Threads, Hit(t)
    PROVE  FormInv'
  <1>1. /\ cache \in Snapshot \cup {None} /\ now \in Nat /\ TTL \in Nat \ {0}
        /\ MaxCall \in Nat
    BY BoundAssumption DEF IInv, TypeInv, TypeOK
  <1>2. /\ thread[t].since \in Nat /\ now - thread[t].since <= MaxCall
        /\ cache # None => cache.at > thread[t].since - TTL - 2 * MaxCall
    BY DEF IInv, TypeInv, TypeOK, Locals, LocalInv, ListAge, Hit, InCall
  <1>3. cache # None => cache.at \in Int /\ cache.at >= 0
    BY <1>1 DEF IInv, SharedInv
  <1>4. cache # None => /\ now - cache.at < TTL + 3 * MaxCall
                        /\ thread[t].since - cache.at < TTL + 2 * MaxCall
    BY <1>1, <1>2, <1>3
  <1>5. cache # None => ~(cache.at < 0)
    BY <1>3
  <1> QED
    BY <1>1, <1>4, <1>5, FormDeliver DEF Hit, IInv

LEMMA FormReread ==
    ASSUME IInv, FormInv, IsFiniteSet(Ports), NEW t \in Threads, Reread(t)
    PROVE  FormInv'
  <1>1. /\ cache \in Snapshot \cup {None} /\ now \in Nat /\ TTL \in Nat \ {0}
        /\ MaxCall \in Nat
    BY BoundAssumption DEF IInv, TypeInv, TypeOK
  <1>2. /\ thread[t].since \in Nat /\ now - thread[t].since <= MaxCall
        /\ cache # None => cache.at >= thread[t].since - MaxCall
    BY DEF IInv, TypeInv, TypeOK, Locals, LocalInv, ListAge, Reread, InCall
  <1>3. cache # None => cache.at \in Int /\ cache.at >= 0
    BY <1>1 DEF IInv, SharedInv
  <1>4. cache # None => /\ now - cache.at < TTL + 3 * MaxCall
                        /\ thread[t].since - cache.at < TTL + 2 * MaxCall
    BY <1>1, <1>2, <1>3
  <1>5. cache # None => ~(cache.at < 0)
    BY <1>3
  <1> QED
    BY <1>1, <1>4, <1>5, FormDeliver DEF Reread, IInv

LEMMA FormFailGet ==
    ASSUME IInv, FormInv, IsFiniteSet(Ports), NEW t \in Threads, FailGet(t)
    PROVE  FormInv'
  <1>1. FailedList.at = -1
    BY DEF FailedList
  <1> QED
    BY <1>1, FailedListType, FormDeliver DEF FailGet, IInv

(* The other lines of get_services, and what follows a write. *)
LEMMA FormCarriesOn ==
    ASSUME IInv, FormInv, NEW t \in Threads,
           \/ Check(t) \/ ServeGet(t) \/ Fill(t) \/ Stamp(t) \/ Serve(t) \/ Fail(t)
           \/ Answered(t) \/ ClearTs(t) \/ EndLoop(t)
    PROVE  FormInv'
  <1>0. thread[t] \in Locals /\ TypeInv
    BY DEF IInv, TypeInv, TypeOK
  <1>1. \A r \in late' : Formed(r)
    <2>1. late' = late \/ (Fail(t) /\ late' \subseteq late \cup {thread[t].req})
      BY DEF Check, ServeGet, Fill, Stamp, Serve, Fail, Answered, ClearTs, EndLoop
    <2>2. Fail(t) => Formed(thread[t].req)
      BY DEF Fail, FormInv, IInv, TypeInv, JobShape, Fits
    <2> QED
      BY <2>1, <2>2 DEF FormInv
  <1>2. CASE Check(t)
    <2>1. PICK L : L = [thread[t] EXCEPT !.pc = IF Fresh THEN "hit" ELSE "get", !.since = now]
      OBVIOUS
    <2>2. L.pc \in {"hit", "get"} /\ L.req = thread[t].req /\ L.job = thread[t].job
      BY <1>0, <2>1 DEF Locals
    <2> QED
      BY <1>0, <1>1, <1>2, <2>1, <2>2, FormMoves DEF Check
  <1>3. CASE ServeGet(t)
    <2>1. PICK L : L = [thread[t] EXCEPT !.pc = "fill", !.got = [at |-> now, m |-> store]]
      OBVIOUS
    <2>2. L.pc = "fill" /\ L.req = thread[t].req /\ L.job = thread[t].job
      BY <1>0, <2>1 DEF Locals
    <2> QED
      BY <1>0, <1>1, <1>3, <2>1, <2>2, FormMoves DEF ServeGet
  <1>4. CASE Fill(t)
    <2>1. PICK L : L = [thread[t] EXCEPT !.pc = "stamp", !.got = None]
      OBVIOUS
    <2>2. L.pc = "stamp" /\ L.req = thread[t].req /\ L.job = thread[t].job
      BY <1>0, <2>1 DEF Locals
    <2> QED
      BY <1>0, <1>1, <1>4, <2>1, <2>2, FormMoves DEF Fill
  <1>5. CASE Stamp(t)
    <2>1. PICK L : L = [thread[t] EXCEPT !.pc = "reread"]
      OBVIOUS
    <2>2. L.pc = "reread" /\ L.req = thread[t].req /\ L.job = thread[t].job
      BY <1>0, <2>1 DEF Locals
    <2> QED
      BY <1>0, <1>1, <1>5, <2>1, <2>2, FormMoves DEF Stamp
  <1>6. ASSUME NEW L, thread' = [thread EXCEPT ![t] = L],
               thread[t].pc \in {"loop", "call", "answered", "clear"},
               L.req = thread[t].req \/ L.req = None, L.job = thread[t].job,
               L.since = thread[t].since, L.todo = thread[t].todo, L.basis = thread[t].basis
        PROVE  FormInv'
    BY <1>0, <1>1, <1>6, FormMoves
  <1>7. CASE Serve(t)
    <2>1. PICK L : L = [thread[t] EXCEPT !.pc = "answered", !.resp = Answer(store, thread[t].req)]
      OBVIOUS
    <2>2. /\ L.req = thread[t].req /\ L.job = thread[t].job
          /\ L.since = thread[t].since /\ L.todo = thread[t].todo /\ L.basis = thread[t].basis
      BY <1>0, <2>1 DEF Locals
    <2> QED
      BY <1>6, <1>7, <2>1, <2>2 DEF Serve
  <1>8. CASE Fail(t)
    <2>1. PICK L : L = IF thread[t].tries < Retries
                       THEN [thread[t] EXCEPT !.tries = thread[t].tries + 1]
                       ELSE [thread[t] EXCEPT !.pc = "answered", !.resp = "conn"]
      OBVIOUS
    <2>2. /\ L.req = thread[t].req /\ L.job = thread[t].job
          /\ L.since = thread[t].since /\ L.todo = thread[t].todo /\ L.basis = thread[t].basis
      BY <1>0, <2>1 DEF Locals
    <2> QED
      BY <1>6, <1>8, <2>1, <2>2 DEF Fail
  <1>9. ASSUME thread' = [thread EXCEPT ![t] = [@ EXCEPT !.pc = "clear"]],
               thread[t].pc \in {"answered", "loop"}
        PROVE  FormInv'
    <2>1. PICK L : L = [thread[t] EXCEPT !.pc = "clear"]
      OBVIOUS
    <2>2. /\ L.req = thread[t].req /\ L.job = thread[t].job
          /\ L.since = thread[t].since /\ L.todo = thread[t].todo /\ L.basis = thread[t].basis
      BY <1>0, <2>1 DEF Locals
    <2> QED
      BY <1>6, <1>9, <2>1, <2>2
  <1>10. ASSUME WriteDone(t), thread[t].pc \in {"answered", "clear"}, late' = late
         PROVE  FormInv'
    <2>1. PICK L : L = [thread[t] EXCEPT !.pc = "loop", !.req = None, !.resp = "none", !.tries = 0]
      OBVIOUS
    <2>2. /\ L.req = None /\ L.job = thread[t].job
          /\ L.since = thread[t].since /\ L.todo = thread[t].todo /\ L.basis = thread[t].basis
      BY <1>0, <2>1 DEF Locals
    <2> QED
      BY <1>0, <1>6, <1>10, <2>1, <2>2, FormFinish DEF WriteDone
  <1>11. CASE Answered(t)
    BY <1>9, <1>10, <1>11 DEF Answered
  <1>12. CASE ClearTs(t)
    BY <1>10, <1>12 DEF ClearTs
  <1>13. CASE EndLoop(t)
    BY <1>0, <1>9, <1>13, FormReading DEF EndLoop
  <1> QED
    BY <1>2, <1>3, <1>4, <1>5, <1>7, <1>8, <1>11, <1>12, <1>13

(* Each deletion of the cleanup is at most a call after the one before it. *)
LEMMA FormDeleteNext ==
    ASSUME IInv, FormInv, IsFiniteSet(Ports), NEW t \in Threads, DeleteNext(t)
    PROVE  FormInv'
  <1>0. /\ thread[t] \in Locals /\ TypeInv /\ now \in Nat /\ MaxCall \in Nat /\ TTL \in Nat
        /\ thread[t].since \in Nat /\ thread[t].basis \in Int
        /\ now - thread[t].since <= MaxCall
        /\ thread[t].job.kind \in {"expire", "batch"}
    BY BoundAssumption DEF IInv, TypeInv, TypeOK, JobShape, Fits, LocalInv, InCall, DeleteNext,
                           Locals
  <1>1. PICK p \in thread[t].todo :
           thread' = [thread EXCEPT ![t] =
                       [@ EXCEPT !.pc = "call", !.since = now, !.todo = thread[t].todo \ {p},
                                 !.req = Write("DELETE", p, None, thread[t].basis,
                                               thread[t].job.kind, None)]]
    BY DEF DeleteNext
  <1>2. PICK r, L : /\ r = Write("DELETE", p, None, thread[t].basis, thread[t].job.kind, None)
                    /\ L = [thread[t] EXCEPT !.pc = "call", !.since = now,
                                             !.todo = thread[t].todo \ {p}, !.req = r]
    OBVIOUS
  <1>3. /\ L.pc = "call" /\ L.since = now /\ L.todo = thread[t].todo \ {p} /\ L.req = r
        /\ L.job = thread[t].job /\ L.basis = thread[t].basis
    BY <1>0, <1>2 DEF Locals
  <1>4. /\ r.method = "DELETE" /\ r.body = None /\ r.built = now /\ r.who = None
        /\ r.basis = thread[t].basis /\ r.by = thread[t].job.kind
    BY <1>2 DEF Write
  <1>5. PICK n, k \in Int : n = Cardinality(Ports) /\ k = Cardinality(thread[t].todo)
    BY <1>0, TodoCount DEF Locals
  <1>6. n \in Nat /\ k - 1 \in Nat /\ Cardinality(L.todo) = k - 1
    <2>1. thread[t].todo \in SUBSET Ports
      BY <1>0 DEF Locals
    <2> QED
      BY <1>1, <1>3, <1>5, <2>1, TodoCount
  <1>7. (n - (k - 1)) * MaxCall = (n - k) * MaxCall + MaxCall
    BY <1>0, <1>5
  <1>8. (n - (k - 1)) * MaxCall + (k - 1) * MaxCall = n * MaxCall /\ (k - 1) * MaxCall \in Nat
    BY <1>0, <1>5, <1>6
  <1>9. ASSUME thread[t].job.kind = "expire"
        PROVE  /\ thread[t].basis >= 0
               /\ now - thread[t].basis < TTL + 2 * MaxCall + (n - k) * MaxCall + MaxCall
    <2>1. Paced(thread[t]) /\ thread[t].pc = "loop"
      BY DEF FormInv, DeleteNext
    <2>2. thread[t].basis >= 0
      BY <1>0, <1>1, <1>9, <2>1 DEF Paced
    <2>3. thread[t].since - thread[t].basis < TTL + 2 * MaxCall + (n - k) * MaxCall
      BY <1>5, <1>9, <2>1, <2>2 DEF Paced, Spent
    <2>4. (n - k) * MaxCall \in Int
      BY <1>0, <1>5
    <2> QED
      BY <1>0, <2>2, <2>3, <2>4
  <1>10. Paced(L)
    <2>1. Spent(L) = (n - k) * MaxCall + MaxCall
      BY <1>5, <1>6, <1>7 DEF Spent
    <2>2. (n - k) * MaxCall \in Int
      BY <1>0, <1>5
    <2>3. L.job.kind = "expire" => L.since - L.basis < TTL + 2 * MaxCall + Spent(L)
      BY <1>0, <1>3, <1>9, <2>1, <2>2
    <2> QED
      BY <1>0, <1>3, <1>9, <2>3 DEF Paced
  <1>11. Formed(r)
    <2>1. (n - k) * MaxCall \in Int /\ n * MaxCall \in Int
      BY <1>0, <1>5
    <2>2. (n - k) * MaxCall + MaxCall <= n * MaxCall
      BY <1>0, <1>5, <1>7, <1>8
    <2>3. r.by = "expire" => r.built - r.basis < TTL + 2 * MaxCall + n * MaxCall
      BY <1>0, <1>4, <1>9, <2>1, <2>2
    <2> QED
      BY <1>0, <1>4, <1>5, <1>9, <2>3 DEF Formed, ByClient, ByOthers
  <1>12. late' = late
    BY DEF DeleteNext
  <1> QED
    BY <1>0, <1>1, <1>2, <1>3, <1>10, <1>11, <1>12, FormStep DEF FormInv

LEMMA FormInit == Init => FormInv
  <1> SUFFICES ASSUME Init, NEW t \in Threads
               PROVE  thread[t].req = None /\ Paced(thread[t])
    BY DEF FormInv, Init
  <1>1. thread[t].req = None /\ thread[t].pc = "idle"
    BY DEF Init, IdleState
  <1> QED
    BY <1>1 DEF Paced

LEMMA FormNext ==
    ASSUME IInv, FormInv, IsFiniteSet(Ports), [Next]_vars
    PROVE  FormInv'
  <1>1. ASSUME NEW t \in Threads, Arrive(t) \/ Step(t) PROVE FormInv'
    BY <1>1, FormArrive, FormHit, FormReread, FormFailGet, FormCarriesOn, FormDeleteNext
    DEF Step, IInv
  <1>2. CASE UNCHANGED thread /\ late' \subseteq late
    BY <1>2 DEF FormInv, Paced, Spent
  <1>3. ServeLate \/ DropLate \/ GostRestart \/ Tick \/ UNCHANGED vars
           => UNCHANGED thread /\ late' \subseteq late
    BY DEF ServeLate, DropLate, GostRestart, Tick, vars
  <1> QED
    BY <1>1, <1>2, <1>3 DEF Next

-----------------------------------------------------------------------------
(* A request that GOST serves is a change of the table                      *)

LEMMA PendingFacts ==
    ASSUME IInv, FormInv, NEW r \in Pending
    PROVE  /\ r \in Request /\ Formed(r) /\ Timed(r) /\ Justified(r) /\ WishOf(r) \in Wishes
           /\ r.port \in Ports /\ r.built \in Nat /\ r.basis \in Int /\ now \in Nat
           /\ store \in Table /\ MaxCall \in Nat /\ TTL \in Nat \ {0}
  <1> DEFINE Facts == r \in Request /\ Formed(r) /\ Timed(r) /\ Justified(r)
  <1>1. ASSUME r \in late PROVE Facts
    BY <1>1 DEF IInv, SharedInv, TypeInv, TypeOK, FormInv
  <1>2. ASSUME r \notin late PROVE Facts
    <2>1. PICK t \in Threads : thread[t].pc = "call" /\ r = thread[t].req
      BY <1>2 DEF Pending
    <2>2. r # None /\ thread[t] \in Locals
      BY <2>1 DEF IInv, TypeInv, TypeOK, JobShape, Fits
    <2>3. r \in Request
      BY <2>1, <2>2 DEF Locals
    <2> QED
      BY <2>1, <2>2, <2>3 DEF FormInv, IInv, LocalInv, OnWire
  <1>3. Facts
    BY <1>1, <1>2
  <1> QED
    BY <1>3, BoundAssumption DEF Wishes, Request, IInv, TypeInv, TypeOK

(* A body that reaches GOST is a mapping given now, its lease counting from the *)
(* second it was built.                                                      *)
LEMMA Given ==
    ASSUME IInv, FormInv, NEW r \in Pending, r.body # None, NEW leases, r.body.lease \in leases,
           store' = [store EXCEPT ![r.port] = r.body]
    PROVE  Windowed!Give(r.port, r.body.owner, leases)
  <1>1. PICK body : body = r.body
    OBVIOUS
  <1>2. /\ body \in Mapping /\ body.created = r.built /\ r.built <= now
        /\ now - r.built <= MaxCall
    BY <1>1, PendingFacts DEF Request, Timed
  <1>3. PICK age : age = now - r.built
    OBVIOUS
  <1>4. age \in 0..MaxCall /\ now - age = body.created /\ now - age \in Nat
    BY <1>2, <1>3, PendingFacts
  <1>5. body = [owner |-> body.owner, created |-> now - age, lease |-> body.lease]
    BY <1>2, <1>4 DEF Mapping
  <1> QED
    BY <1>1, <1>4, <1>5 DEF Windowed!Give

(* The mapping a client's write meets and may miss is younger than Window.      *)
LEMMA YoungForClients ==
    ASSUME IInv, FormInv, NEW r \in Pending, r.by \in {"add", "delete"}, r.basis >= 0,
           store[r.port] # None, Recent(store[r.port], r)
    PROVE  Windowed!Young(store[r.port], Window)
  <1>1. store[r.port].created \in Int /\ store[r.port].created >= r.basis - MaxCall
    BY PendingFacts DEF Recent, Table, Mapping
  <1>2. r.built - r.basis < TTL + 3 * MaxCall /\ now - r.built <= MaxCall
    BY PendingFacts DEF Formed, ByClient, Timed
  <1>3. now - store[r.port].created <= TTL + 5 * MaxCall - 1
    BY <1>1, <1>2, PendingFacts
  <1> QED
    BY <1>3 DEF Windowed!Young, Window

(* The one a cleanup may miss is younger by the calls before its deletion. *)
LEMMA YoungForCleanup ==
    ASSUME IInv, FormInv, IsFiniteSet(Ports), NEW r \in Pending, r.by = "expire",
           store[r.port] # None, Recent(store[r.port], r)
    PROVE  Windowed!Young(store[r.port], Window + Cardinality(Ports) * MaxCall)
  <1>1. store[r.port].created \in Int /\ store[r.port].created >= r.basis - MaxCall
    BY PendingFacts DEF Recent, Table, Mapping
  <1>2. PICK k : k = Cardinality(Ports) * MaxCall
    OBVIOUS
  <1>3. k \in Nat
    BY <1>2, PendingFacts, FS_CardinalityType
  <1>4. r.built - r.basis < TTL + 2 * MaxCall + k /\ now - r.built <= MaxCall
    BY <1>2, PendingFacts DEF Formed, ByOthers, Timed
  <1>5. now - store[r.port].created <= TTL + 5 * MaxCall - 1 + k
    BY <1>1, <1>3, <1>4, PendingFacts
  <1> QED
    BY <1>2, <1>5 DEF Windowed!Young, Window

LEMMA ServedChanges ==
    ASSUME IInv, FormInv, IsFiniteSet(Ports), SecureMode => ~ReadsFail,
           NEW r \in Pending, store' = After(store, r), now' = now, Wishes' \subseteq Wishes
    PROVE  Windowed!Change
  <1> DEFINE p == r.port
             e == store[p]
  <1>0. /\ r \in Request /\ Formed(r) /\ Justified(r) /\ WishOf(r) \in Wishes /\ p \in Ports
    BY PendingFacts
  <1>1. CASE ~Applies(store, r)
    BY <1>1 DEF After, Windowed!Change, Windowed!Ask
  <1>2. ASSUME \/ \E client \in Clients : \/ Windowed!Grant(p, client)
                                          \/ Windowed!Release(p, client)
                                          \/ Windowed!UserGrant(p, client)
               \/ Windowed!UserRelease(p) \/ Windowed!Expire(p)
        PROVE  Windowed!Change
    BY <1>0, <1>2 DEF Windowed!Change
  <1>3. CASE Applies(store, r)
    <2>1. store' = [store EXCEPT ![p] = r.body]
      BY <1>3 DEF After
    <2>2. CASE r.by = "add"
      <3>1. /\ r.method \in {"POST", "PUT"} /\ r.who \in Clients /\ r.body # None
            /\ r.body.owner = r.who /\ r.body.lease \in 1..MaxLease
            /\ r.method = "PUT" => r.basis >= 0
        BY <1>0, <2>2 DEF Formed, ByClient
      <3>2. Windowed!Give(p, r.who, 1..MaxLease)
        BY <2>1, <3>1, Given
      <3>3. WishOf(r) = Windowed!Wish("grant", "client", r.who, p)
        BY <2>2, <3>1 DEF WishOf, Windowed!Wish
      <3>4. e = None \/ e.owner = r.who \/ Windowed!Young(e, Window)
        BY <1>0, <1>3, <2>2, <3>1, YoungForClients DEF Applies, Justified
      <3> QED
        BY <1>0, <1>2, <3>1, <3>2, <3>3, <3>4 DEF Windowed!Grant
    <2>3. ASSUME r.method = "DELETE" PROVE r.body = None /\ Windowed!Take(p)
      BY <1>0, <1>3, <2>1, <2>3 DEF Formed, Applies, Windowed!Take
    <2>4. CASE r.by = "delete"
      <3>1. r.method = "DELETE" /\ r.who \in Clients /\ (SecureMode => r.basis >= 0)
        BY <1>0, <2>4 DEF Formed, ByClient
      <3>2. WishOf(r) = Windowed!Wish("release", "client", r.who, p)
        BY <2>4, <3>1 DEF WishOf, Windowed!Wish
      <3>3. SecureMode => e.owner = r.who \/ Windowed!Young(e, Window)
        BY <1>0, <1>3, <2>4, <3>1, YoungForClients DEF Applies, Justified
      <3> QED
        BY <1>0, <1>2, <2>3, <3>1, <3>2, <3>3 DEF Windowed!Release
    <2>5. CASE r.by \in {"web", "batch"} /\ r.method = "DELETE"
      <3>1. WishOf(r) = Windowed!Wish("release", "user", None, p)
        BY <1>0, <2>5 DEF WishOf, Windowed!Wish, Formed, ByOthers
      <3> QED
        BY <1>0, <1>2, <2>3, <2>5, <3>1 DEF Windowed!UserRelease
    <2>6. CASE r.by = "web" /\ r.method # "DELETE"
      <3>1. r.method = "POST" /\ r.body # None /\ r.body.lease \in WebLeases /\ r.who = None
        BY <1>0, <2>6 DEF Formed, ByOthers
      <3>2. r.body.owner \in Clients
        BY <1>0, <3>1 DEF Request, Mapping
      <3>3. Windowed!Give(p, r.body.owner, WebLeases)
        BY <2>1, <3>1, Given
      <3>4. WishOf(r) = Windowed!Wish("grant", "user", None, p)
        BY <2>6, <3>1 DEF WishOf, Windowed!Wish
      <3>5. e = None
        BY <1>3, <3>1 DEF Applies
      <3> QED
        BY <1>0, <1>2, <3>2, <3>3, <3>4, <3>5 DEF Windowed!UserGrant
    <2>7. CASE r.by = "expire"
      <3>1. r.method = "DELETE" /\ r.who = None
        BY <1>0, <2>7 DEF Formed, ByOthers
      <3>2. WishOf(r) = Windowed!Wish("release", "cleanup", None, p)
        BY <2>7, <3>1 DEF WishOf, Windowed!Wish
      <3>3. \/ Windowed!Over(e)
            \/ Windowed!Young(e, Window + Cardinality(Ports) * MaxCall)
        BY <1>0, <1>3, <2>7, <3>1, YoungForCleanup
        DEF Applies, Justified, Expired, Windowed!Over
      <3> QED
        BY <1>0, <1>2, <2>3, <3>1, <3>2, <3>3 DEF Windowed!Expire
    <2> QED
      BY <1>0, <2>2, <2>4, <2>5, <2>6, <2>7 DEF Formed, ByOthers
  <1> QED
    BY <1>1, <1>3

-----------------------------------------------------------------------------
(* Every step is a change of the table                                      *)

(* A wish is over when GOST has served its request. *)
LEMMA WishesShrink ==
    ASSUME TypeInv, late' \subseteq late,
           \/ UNCHANGED thread
           \/ \E t \in Threads : Serve(t)
    PROVE  Wishes' \subseteq Wishes
  <1>1. ASSUME NEW u \in Threads, thread'[u].pc = "call"
        PROVE  thread[u].pc = "call" /\ thread'[u].req = thread[u].req
    <2>1. CASE UNCHANGED thread
      BY <1>1, <2>1
    <2>2. ASSUME NEW t \in Threads, Serve(t), u # t PROVE thread'[u] = thread[u]
      BY <2>2 DEF Serve, TypeInv, TypeOK
    <2>3. ASSUME Serve(u) PROVE thread'[u].pc = "answered"
      BY <2>3 DEF Serve, TypeInv, TypeOK, Locals
    <2> QED
      BY <1>1, <2>1, <2>2, <2>3
  <1>2. Pending' \subseteq Pending
    BY <1>1 DEF Pending
  <1>3. ASSUME NEW r \in Pending' PROVE WishOf(r) \in Wishes
    BY <1>2 DEF Wishes
  <1> QED
    BY <1>3 DEF Wishes, WishOf

LEMMA StepChanges ==
    ASSUME IInv, FormInv, IsFiniteSet(Ports), SecureMode => ~ReadsFail, [Next]_vars
    PROVE  Windowed!Change
  <1>0. TypeInv
    BY DEF IInv
  <1>1. ASSUME NEW t \in Threads, Serve(t) PROVE Windowed!Change
    <2>1. thread[t].req \in Pending
      BY <1>1 DEF Serve, Pending
    <2>2. Wishes' \subseteq Wishes
      BY <1>0, <1>1, WishesShrink DEF Serve
    <2> QED
      BY <1>1, <2>1, <2>2, ServedChanges DEF Serve
  <1>2. CASE ServeLate
    <2>1. PICK r \in late : late' = late \ {r} /\ store' = After(store, r)
      BY <1>2 DEF ServeLate
    <2>2. Wishes' \subseteq Wishes
      BY <1>0, <1>2, <2>1, WishesShrink DEF ServeLate
    <2> QED
      BY <1>2, <2>1, <2>2, ServedChanges DEF ServeLate, Pending
  <1>3. CASE GostRestart
    <2>1. Wishes' \subseteq Wishes
      BY <1>0, <1>3, WishesShrink DEF GostRestart
    <2> QED
      BY <1>3, <2>1 DEF GostRestart, EmptyTable, Windowed!Change, Windowed!Lose
  <1>4. CASE Tick
    <2>1. UNCHANGED Wishes
      BY <1>4 DEF Tick, Wishes, Pending, WishOf
    <2> QED
      BY <1>4, <2>1 DEF Tick, Windowed!Change, Windowed!Advance
  <1>5. CASE UNCHANGED <<store, now>>
    BY <1>5 DEF Windowed!Change, Windowed!Ask
  <1>6. ASSUME NEW t \in Threads, Arrive(t) \/ Step(t), ~Serve(t) PROVE UNCHANGED <<store, now>>
    BY <1>6 DEF Arrive, ReceiveAdd, ReceiveDelete, BeginList, BeginClean, WebAdd, WebDelete,
       WebDeleteSelected, Confirm, Cancel, Step, Check, Hit, ServeGet, FailGet, Fill, Stamp,
       Reread, Fail, Answered, ClearTs, DeleteNext, EndLoop
  <1>7. DropLate \/ UNCHANGED vars => UNCHANGED <<store, now>>
    BY DEF DropLate, vars
  <1> QED
    BY <1>1, <1>2, <1>3, <1>4, <1>5, <1>6, <1>7 DEF Next

(* GOST's services change at somebody's wish only, as PortTable allows: however *)
(* requests, web callbacks and the cleanup interleave, and whatever writes are   *)
(* lost, sent again or served late, AddPortMapping renews, DeletePortMapping    *)
(* deletes and the cleanup removes no foreign or running mapping that is older   *)
(* than the window.  A GET that fails lets a client delete what it does not own  *)
(* (MayDelete on []), so with SECURE_MODE reads must not fail.                  *)
THEOREM WindowedRefinement ==
    ASSUME IsFiniteSet(Ports), SecureMode => ~ReadsFail
    PROVE  Spec => WindowedTable
  <1>1. Init => Windowed!Start
    BY DEF Init, EmptyTable, Wishes, Pending, IdleState, Windowed!Start
  <1>2. IInv /\ FormInv /\ [Next]_vars => FormInv'
    BY FormNext
  <1>3. IInv /\ FormInv /\ [Next]_vars => [Windowed!Change]_(Windowed!tableVars)
    BY StepChanges
  <1>4. Spec => []FormInv
    BY <1>2, FormInit, Inductive, PTL DEF Spec
  <1>5. Spec => Windowed!TableSpec
    BY <1>1, <1>3, <1>4, Inductive, PTL DEF Spec, Windowed!TableSpec
  <1> QED
    BY <1>5 DEF WindowedTable

(* A cleanup leaves nothing that expired longer ago than CleanedInTime says: its  *)
(* list is old by a TTL and three calls at most, its deletions take a call each. *)
THEOREM CleanupTimely ==
    ASSUME IsFiniteSet(Ports)
    PROVE  Spec => []CleanedInTime
  <1>1. IInv /\ FormInv /\ [Next]_vars => FormInv'
    BY FormNext
  <1>2. Spec => []FormInv
    BY <1>1, FormInit, Inductive, PTL DEF Spec
  <1>3. ASSUME IInv, FormInv, CleanedUp PROVE CleanedInTime
    <2> SUFFICES ASSUME ~WritesFail, NEW t \in Threads,
                        thread[t].job.kind = "expire", thread[t].pc = "loop",
                        thread[t].todo = {}, thread[t].basis >= 0,
                        NEW p \in Ports, store[p] # None
                 PROVE  ~Expired(store[p], now - (TTL + (4 + Cardinality(Ports)) * MaxCall) + 1)
      BY DEF CleanedInTime
    <2>1. /\ thread[t] \in Locals /\ now \in Nat /\ MaxCall \in Nat /\ TTL \in Nat
          /\ thread[t].since \in Int /\ thread[t].basis \in Int
          /\ now - thread[t].since <= MaxCall
          /\ store[p].created \in Int /\ store[p].lease \in Int
      BY <1>3, BoundAssumption
      DEF IInv, TypeInv, TypeOK, LocalInv, InCall, Locals, Table, Mapping
    <2>2. ~Expired(store[p], thread[t].basis - MaxCall)
      BY <1>3 DEF CleanedUp
    <2>3. Cardinality(thread[t].todo) = 0 /\ Cardinality(Ports) \in Nat
      BY FS_EmptySet, FS_CardinalityType
    <2>4. PICK n, k \in Int : n = Cardinality(Ports) /\ k = n * MaxCall
      BY <2>1, <2>3
    <2>5. (n - 0) * MaxCall = k /\ (4 + n) * MaxCall = 4 * MaxCall + k
      BY <2>1, <2>4
    <2>6. thread[t].since - thread[t].basis < TTL + 2 * MaxCall + k
      BY <1>3, <2>3, <2>4, <2>5 DEF FormInv, Paced, Spent
    <2>7. now - (TTL + (4 + n) * MaxCall) + 1 <= thread[t].basis - MaxCall
      BY <2>1, <2>4, <2>5, <2>6
    <2> QED
      BY <2>1, <2>2, <2>4, <2>5, <2>7 DEF Expired
  <1> QED
    BY <1>2, <1>3, Inductive, CleanupComplete, PTL

-----------------------------------------------------------------------------
(* One job at a time, no write lost and no restart: the cache is exact, and    *)
(* Gateway implements PortTable without a window.                            *)


(* Deployments with one worker and nothing but working calls. *)
OneByOne == ~Overlap /\ ~WritesFail /\ ~Restarts

(* The request is right about what it will meet. *)
Sure(r) ==
    LET e == store[r.port]
    IN  e # None =>
          /\ r.method = "PUT" \/ (r.by = "delete" /\ SecureMode) => e.owner = r.who
          /\ r.by = "expire" => Expired(e, now)

(* The thread is right about GOST: in the answer it has, in the write it sends  *)
(* and in the deletions it still has to send.                                 *)
SureThread(L) ==
    /\ L.got # None => L.pc = "fill" /\ L.got.m = store
    /\ L.pc = "call" => Sure(L.req)
    /\ L.job.kind = "expire" /\ L.pc \in {"loop", "call", "answered", "clear"} =>
          /\ L.pc = "call" => L.req.method = "DELETE" /\ L.req.body = None
          /\ \A p \in L.todo : store[p] = None \/ Expired(store[p], now)

Alone == \A t, u \in Threads : ~Resting(t) /\ ~Resting(u) => t = u

(* The cached list is what GOST holds, but between a write and its clearing. *)
Coherent ==
    cache # None /\ (\A t \in Threads : ~(thread[t].pc = "answered" /\ thread[t].resp = "ok"))
        => cache.m = store

SerialInv == Alone /\ late = {} /\ Coherent /\ \A t \in Threads : SureThread(thread[t])

OthersRest(t) == \A u \in Threads \ {t} : Resting(u)

-----------------------------------------------------------------------------
(* SerialInv is inductive                                                   *)

(* The thread at work moves to L: only L, the cache and GOST are to be looked at. *)
LEMMA SerialStep ==
    ASSUME TypeInv, SerialInv, NEW t \in Threads, OthersRest(t), NEW L,
           thread' = [thread EXCEPT ![t] = L], late' = {}, SureThread(L)',
           cache' # None /\ ~(L.pc = "answered" /\ L.resp = "ok") => cache'.m = store'
    PROVE  SerialInv'
  <1>1. thread'[t] = L /\ \A u \in Threads \ {t} : thread'[u] = thread[u]
    BY DEF TypeInv, TypeOK
  <1>2. \A u \in Threads \ {t} : Resting(u)'
    BY <1>1 DEF OthersRest, Resting
  <1>3. Alone'
    BY <1>2 DEF Alone
  <1>4. Coherent'
    BY <1>1 DEF Coherent
  <1>5. ASSUME NEW u \in Threads PROVE SureThread(thread[u])'
    <2>1. CASE u = t
      BY <1>1, <2>1
    <2>2. CASE u # t
      BY <1>1, <2>2 DEF OthersRest, Resting, SerialInv, SureThread
    <2> QED
      BY <2>1, <2>2
  <1> QED
    BY <1>3, <1>4, <1>5 DEF SerialInv

LEMMA SerialFinish ==
    ASSUME TypeInv, SerialInv, NEW t \in Threads, OthersRest(t), Finish(t), late' = {},
           cache' # None => cache'.m = store'
    PROVE  SerialInv'
  <1>1. PICK L : L = IdleState
    OBVIOUS
  <1>2. L.got = None /\ L.pc = "idle"
    BY <1>1 DEF IdleState
  <1>3. SureThread(L)'
    BY <1>2 DEF SureThread
  <1> QED
    BY <1>1, <1>3, SerialStep DEF Finish

(* A list in the cache may be trusted while no write has just been answered. *)
LEMMA CacheTrue ==
    ASSUME SerialInv, NEW t \in Threads, OthersRest(t),
           ~(thread[t].pc = "answered" /\ thread[t].resp = "ok")
    PROVE  cache # None => cache.m = store
  BY DEF SerialInv, Coherent, OthersRest, Resting

LEMMA SerialReading ==
    ASSUME TypeInv, SerialInv, NEW t \in Threads, OthersRest(t), NEW job,
           thread' = [thread EXCEPT ![t] = Reading(job)], late' = {},
           cache' # None => cache'.m = store'
    PROVE  SerialInv'
  <1>1. PICK L : L = Reading(job)
    OBVIOUS
  <1>2. L.got = None /\ L.pc = "check"
    BY <1>1 DEF Reading, IdleState
  <1>3. SureThread(L)'
    BY <1>2 DEF SureThread
  <1> QED
    BY <1>1, <1>3, SerialStep

LEMMA SerialArrive ==
    ASSUME IInv, SerialInv, OneByOne, NEW t \in Threads, Arrive(t)
    PROVE  SerialInv'
  <1>0. TypeInv /\ UNCHANGED <<now, store, late, cache, cacheTs>>
    BY DEF IInv, Arrive, ReceiveAdd, ReceiveDelete, BeginList, BeginClean, WebAdd, WebDelete,
           WebDeleteSelected, Confirm, Cancel
  <1>1. ASSUME NEW L, Start(t, L), SureThread(L)', L.pc # "answered" PROVE SerialInv'
    <2>1. \A u \in Threads : Resting(u)
      BY <1>1 DEF Start, OneByOne
    <2>2. OthersRest(t) /\ thread[t].pc # "answered"
      BY <2>1 DEF OthersRest, Resting
    <2>3. cache # None => cache.m = store
      BY <2>2, CacheTrue
    <2> QED
      BY <1>0, <1>1, <2>2, <2>3, SerialStep DEF Start, SerialInv
  <1>2. CASE \/ ReceiveAdd(t) \/ ReceiveDelete(t) \/ BeginList(t) \/ BeginClean(t)
             \/ WebDeleteSelected(t)
    <2>1. PICK job : Start(t, Reading(job))
      BY <1>2 DEF ReceiveAdd, ReceiveDelete, BeginList, BeginClean, WebDeleteSelected, Begin
    <2>2. PICK L : L = Reading(job)
      OBVIOUS
    <2>3. L.got = None /\ L.pc = "check"
      BY <2>2 DEF Reading, IdleState
    <2>4. SureThread(L)'
      BY <2>3 DEF SureThread
    <2> QED
      BY <1>1, <2>1, <2>2, <2>3, <2>4
  <1>3. CASE WebAdd(t) \/ WebDelete(t)
    <2>0. PICK method \in {"POST", "DELETE"} :
             \E p, body : Start(t, Writing(Write(method, p, body, -1, "web", None)))
      BY <1>3 DEF WebAdd, WebDelete, Begin
    <2>1. PICK r : Start(t, Writing(r)) /\ r.method # "PUT" /\ r.by = "web"
      BY <2>0 DEF Write
    <2>2. PICK L : L = Writing(r)
      OBVIOUS
    <2>3. L.got = None /\ L.pc = "call" /\ L.req = r /\ L.job.kind = "web"
      BY <2>2 DEF Writing, IdleState, NoJob
    <2>4. SureThread(L)'
      BY <2>1, <2>3 DEF SureThread, Sure
    <2> QED
      BY <1>1, <2>1, <2>2, <2>3, <2>4
  <1>4. CASE Confirm(t)
    <2>1. PICK L : L = [thread[t] EXCEPT !.pc = "loop", !.since = now]
      OBVIOUS
    <2>2. Start(t, L) /\ thread[t].pc = "popup"
      BY <1>4, <2>1 DEF Confirm
    <2>3. thread[t] \in Locals /\ thread[t].job.kind = "batch" /\ thread[t].got = None
      BY <1>0, <2>2 DEF TypeInv, TypeOK, JobShape, Fits, SerialInv, SureThread
    <2>4. L.pc = "loop" /\ L.got = None /\ L.job.kind = "batch"
      BY <2>1, <2>3 DEF Locals
    <2>5. SureThread(L)'
      BY <2>4 DEF SureThread
    <2> QED
      BY <1>1, <2>2, <2>4, <2>5
  <1>5. CASE Cancel(t)
    <2>1. PICK L : L = IdleState
      OBVIOUS
    <2>2. L.got = None /\ L.pc = "idle"
      BY <2>1 DEF IdleState
    <2>3. thread'[t] = L /\ \A u \in Threads \ {t} : thread'[u] = thread[u]
      BY <1>0, <1>5, <2>1 DEF Cancel, Finish, TypeInv, TypeOK
    <2>4. Resting(t) /\ Resting(t)' /\ thread[t].pc # "answered"
      BY <1>5, <2>2, <2>3 DEF Cancel, Resting
    <2>5. Alone'
      BY <2>3, <2>4 DEF SerialInv, Alone, Resting
    <2>6. Coherent'
      BY <1>0, <2>2, <2>3, <2>4 DEF SerialInv, Coherent
    <2>7. ASSUME NEW u \in Threads PROVE SureThread(thread[u])'
      <3>1. CASE u = t
        BY <2>2, <2>3, <3>1 DEF SureThread
      <3>2. CASE u # t
        BY <1>0, <2>3, <3>2 DEF SerialInv, SureThread, Sure, Expired
      <3> QED
        BY <3>1, <3>2
    <2> QED
      BY <1>0, <2>5, <2>6, <2>7 DEF SerialInv
  <1> QED
    BY <1>2, <1>3, <1>4, <1>5 DEF Arrive

(* get_services hands out what GOST holds, or, where nothing depends on it, []. *)
LEMMA SerialDeliver ==
    ASSUME IInv, SerialInv, NEW t \in Threads, OthersRest(t), InCall(t),
           NEW X \in Snapshot \cup {None}, Deliver(t, X),
           X # None => X.m = store \/ (~SecureMode /\ X = FailedList),
           UNCHANGED <<now, store, late, cache>>, cache # None => cache.m = store
    PROVE  SerialInv'
  <1> DEFINE j == thread[t].job
  <1>0. /\ TypeInv /\ now \in Nat /\ thread[t] \in Locals /\ thread[t].since \in Nat
        /\ thread[t].since <= now /\ store \in Table
        /\ late' = {} /\ (cache' # None => cache'.m = store')
    BY DEF IInv, TypeInv, TypeOK, LocalInv, Locals, SerialInv
  <1>1. ASSUME NEW L, thread' = [thread EXCEPT ![t] = L], SureThread(L)' PROVE SerialInv'
    BY <1>0, <1>1, SerialStep
  <1>2. Finish(t) => SerialInv'
    BY <1>0, SerialFinish
  <1>3. CASE X = None /\ NoList(t)
    <2>1. CASE thread' = [thread EXCEPT ![t] = [IdleState EXCEPT !.pc = "dead"]]
      <3>1. PICK L : L = [IdleState EXCEPT !.pc = "dead"]
        OBVIOUS
      <3>2. L.pc = "dead" /\ L.got = None
        BY <3>1 DEF IdleState
      <3>3. SureThread(L)'
        BY <3>2 DEF SureThread
      <3> QED
        BY <1>1, <2>1, <3>1, <3>3
    <2> QED
      BY <1>2, <1>3, <2>1 DEF NoList
  <1>4. ASSUME NEW r, Send(t, r), Sure(r), j.kind # "expire" PROVE SerialInv'
    <2>1. PICK L : L = [thread[t] EXCEPT !.pc = "call", !.since = now, !.req = r, !.got = None]
      OBVIOUS
    <2>2. L.req = r /\ L.job = j /\ L.got = None
      BY <1>0, <2>1 DEF Locals
    <2>3. SureThread(L)'
      BY <1>4, <2>2 DEF SureThread, Sure, Expired
    <2> QED
      BY <1>1, <1>4, <2>1, <2>3 DEF Send
  <1>5. CASE X # None /\ j.kind = "add" /\ AddPortMapping(t, X)
    <2> DEFINE seen == X.m[j.port]
               method == IF seen = None THEN "POST" ELSE "PUT"
    <2>1. CASE ~ConflictsWith(seen, j.client)
      <3>1. PICK body : body = [owner |-> j.client, created |-> now,
                                lease |-> EffectiveLease(j.lease)]
        OBVIOUS
      <3>2. PICK r : r = Write(method, j.port, body, X.at, "add", j.client)
        OBVIOUS
      <3>3. r.by = "add" /\ r.who = j.client /\ r.method = method /\ r.port = j.port
        BY <3>2 DEF Write
      <3>4. j.port \in Ports
        BY <1>0, <1>5 DEF TypeInv, JobShape, Fits
      <3>5. Sure(r)
        BY <1>5, <2>1, <3>3, <3>4 DEF Sure, ConflictsWith, FailedList, EmptyTable
      <3> QED
        BY <1>4, <1>5, <2>1, <3>1, <3>2, <3>5 DEF AddPortMapping
    <2> QED
      BY <1>2, <1>5, <2>1 DEF AddPortMapping
  <1>6. CASE X # None /\ j.kind = "delete" /\ DeletePortMapping(t, X)
    <2>1. CASE MayDelete(X.m[j.port], j.remote)
      <3>1. PICK r : r = Write("DELETE", j.port, None, X.at, "delete", j.remote)
        OBVIOUS
      <3>2. r.by = "delete" /\ r.who = j.remote /\ r.method = "DELETE" /\ r.port = j.port
        BY <3>1 DEF Write
      <3>3. Sure(r)
        BY <1>6, <2>1, <3>2 DEF Sure, MayDelete
      <3> QED
        BY <1>4, <1>6, <2>1, <3>1, <3>3 DEF DeletePortMapping
    <2> QED
      BY <1>2, <1>6, <2>1 DEF DeletePortMapping
  <1>7. CASE X # None /\ j.kind = "expire" /\ CollectExpired(t, X)
    <2>1. PICK found, L :
             /\ found = {p \in Ports : X.m[p] # None /\ Expired(X.m[p], thread[t].since)}
             /\ L = [thread[t] EXCEPT !.pc = "loop", !.todo = found, !.basis = X.at, !.got = None]
      OBVIOUS
    <2>2. thread' = [thread EXCEPT ![t] = L]
      BY <1>7, <2>1 DEF CollectExpired
    <2>3. L.pc = "loop" /\ L.todo = found /\ L.got = None
      BY <1>0, <2>1 DEF Locals
    <2>4. ASSUME NEW p \in found PROVE Expired(store[p], now)
      <3>1. p \in Ports /\ X.m[p] # None /\ Expired(X.m[p], thread[t].since)
        BY <2>1
      <3>2. X.m = store
        BY <1>7, <3>1 DEF FailedList, EmptyTable
      <3>3. store[p].created \in Nat /\ store[p].lease \in Int
        BY <1>0, <3>1, <3>2 DEF Table, Mapping
      <3> QED
        BY <1>0, <3>1, <3>2, <3>3 DEF Expired
    <2>5. SureThread(L)'
      BY <2>3, <2>4 DEF SureThread, Expired
    <2> QED
      BY <1>1, <2>2, <2>5
  <1>8. CASE X # None /\ j.kind = "batch" /\ DeleteSelected(t, X)
    <2>1. ASSUME NEW rows,
                 thread' = [thread EXCEPT ![t] = [@ EXCEPT !.pc = "popup", !.todo = rows,
                                                           !.got = None]]
          PROVE  SerialInv'
      <3>1. PICK L : L = [thread[t] EXCEPT !.pc = "popup", !.todo = rows, !.got = None]
        OBVIOUS
      <3>2. L.pc = "popup" /\ L.got = None
        BY <1>0, <3>1 DEF Locals
      <3>3. SureThread(L)'
        BY <3>2 DEF SureThread
      <3> QED
        BY <1>1, <2>1, <3>1, <3>3
    <2> QED
      BY <1>2, <1>8, <2>1 DEF DeleteSelected
  <1>9. CASE X # None /\ j.kind \in {"list", "reconcile"} /\ Finish(t)
    BY <1>2, <1>9
  <1> QED
    BY <1>3, <1>5, <1>6, <1>7, <1>8, <1>9 DEF Deliver

(* The lines of get_services, and the ends of a write. *)
LEMMA SerialMoves ==
    ASSUME IInv, SerialInv, OneByOne, SecureMode => ~ReadsFail, NEW t \in Threads, OthersRest(t),
           Step(t), ~Serve(t), ~DeleteNext(t)
    PROVE  SerialInv'
  <1>0. /\ TypeInv /\ thread[t] \in Locals /\ now' = now /\ store' = store /\ late' = {}
        /\ SureThread(thread[t])
        /\ cache \in Snapshot \cup {None} /\ ~Fail(t)
    BY DEF IInv, TypeInv, TypeOK, SerialInv, OneByOne, Step, Check, Hit, ServeGet, FailGet, Fill,
           Stamp, Reread, Fail, Answered, ClearTs, EndLoop
  <1>1. ASSUME thread[t].pc # "answered" PROVE cache # None => cache.m = store
    BY <1>1, CacheTrue
  <1>2. CASE Check(t)
    <2>1. PICK L : L = [thread[t] EXCEPT !.pc = IF Fresh THEN "hit" ELSE "get", !.since = now]
      OBVIOUS
    <2>2. L.pc \in {"hit", "get"} /\ L.got = thread[t].got /\ thread[t].pc = "check"
      BY <1>0, <1>2, <2>1 DEF Locals, Check
    <2>3. SureThread(L)' /\ (cache' # None => cache'.m = store')
      BY <1>0, <1>1, <1>2, <2>2 DEF SureThread, Check
    <2> QED
      BY <1>0, <1>2, <2>1, <2>3, SerialStep DEF Check
  <1>3. CASE Hit(t) \/ Reread(t)
    <2>1. InCall(t) /\ thread[t].pc # "answered" /\ Deliver(t, cache)
      BY <1>3 DEF Hit, Reread, InCall
    <2> QED
      BY <1>0, <1>1, <1>3, <2>1, SerialDeliver DEF Hit, Reread
  <1>4. CASE FailGet(t)
    <2>1. InCall(t) /\ thread[t].pc # "answered"
      BY <1>4 DEF FailGet, InCall
    <2> QED
      BY <1>0, <1>1, <1>4, <2>1, FailedListType, SerialDeliver DEF FailGet
  <1>5. CASE ServeGet(t)
    <2>1. PICK L : L = [thread[t] EXCEPT !.pc = "fill", !.got = [at |-> now, m |-> store]]
      OBVIOUS
    <2>2. L.pc = "fill" /\ L.got.m = store /\ thread[t].pc = "get"
      BY <1>0, <1>5, <2>1 DEF Locals, ServeGet
    <2>3. SureThread(L)'
      BY <1>0, <2>2 DEF SureThread
    <2> QED
      BY <1>0, <1>1, <1>5, <2>1, <2>2, <2>3, SerialStep DEF ServeGet
  <1>6. CASE Fill(t)
    <2>1. PICK L : L = [thread[t] EXCEPT !.pc = "stamp", !.got = None]
      OBVIOUS
    <2>2. L.pc = "stamp" /\ L.got = None
      BY <1>0, <2>1 DEF Locals
    <2>3. SureThread(L)'
      BY <2>2 DEF SureThread
    <2>4. cache' # None => cache'.m = store'
      BY <1>0, <1>6 DEF Fill, SureThread
    <2> QED
      BY <1>0, <1>6, <2>1, <2>3, <2>4, SerialStep DEF Fill
  <1>7. CASE Stamp(t)
    <2>1. PICK L : L = [thread[t] EXCEPT !.pc = "reread"]
      OBVIOUS
    <2>2. L.pc = "reread" /\ L.got = thread[t].got /\ thread[t].pc = "stamp"
      BY <1>0, <1>7, <2>1 DEF Locals, Stamp
    <2>3. SureThread(L)'
      BY <1>0, <2>2 DEF SureThread
    <2> QED
      BY <1>0, <1>1, <1>7, <2>1, <2>2, <2>3, SerialStep DEF Stamp
  <1>8. ASSUME thread' = [thread EXCEPT ![t] = [@ EXCEPT !.pc = "clear"]], cache' = None,
               thread[t].pc \in {"answered", "loop"}
        PROVE  SerialInv'
    <2>1. PICK L : L = [thread[t] EXCEPT !.pc = "clear"]
      OBVIOUS
    <2>2. /\ L.pc = "clear" /\ L.got = thread[t].got /\ L.job = thread[t].job
          /\ L.todo = thread[t].todo
      BY <1>0, <2>1 DEF Locals
    <2>3. SureThread(L)'
      BY <1>0, <1>8, <2>2 DEF SureThread, Expired
    <2> QED
      BY <1>0, <1>8, <2>1, <2>3, SerialStep
  <1>9. ASSUME WriteDone(t), thread[t].pc \in {"answered", "clear"},
               cache' # None => cache'.m = store'
        PROVE  SerialInv'
    <2>1. PICK L : L = [thread[t] EXCEPT !.pc = "loop", !.req = None, !.resp = "none", !.tries = 0]
      OBVIOUS
    <2>2. /\ L.pc = "loop" /\ L.got = thread[t].got /\ L.job = thread[t].job
          /\ L.todo = thread[t].todo
      BY <1>0, <2>1 DEF Locals
    <2>3. SureThread(L)'
      BY <1>0, <1>9, <2>2 DEF SureThread, Expired
    <2> QED
      BY <1>0, <1>9, <2>1, <2>3, SerialStep, SerialFinish DEF WriteDone
  <1>10. CASE Answered(t)
    <2>1. CASE Invalidates(thread[t].req, thread[t].resp)
      BY <1>8, <1>10, <2>1 DEF Answered
    <2>2. CASE ~Invalidates(thread[t].req, thread[t].resp)
      <3>1. thread[t].resp # "ok"
        BY <2>2 DEF Invalidates
      <3>2. cache # None => cache.m = store
        BY <3>1, CacheTrue
      <3> QED
        BY <1>0, <1>9, <1>10, <2>2, <3>2 DEF Answered
    <2> QED
      BY <2>1, <2>2
  <1>11. CASE ClearTs(t)
    BY <1>0, <1>1, <1>9, <1>11 DEF ClearTs
  <1>12. CASE EndLoop(t)
    BY <1>0, <1>1, <1>8, <1>12, SerialReading DEF EndLoop
  <1> QED
    BY <1>0, <1>2, <1>3, <1>4, <1>5, <1>6, <1>7, <1>10, <1>11, <1>12 DEF Step

(* GOST serves the write: only an answer other than "ok" leaves the cache true. *)
LEMMA SerialServe ==
    ASSUME IInv, SerialInv, NEW t \in Threads, OthersRest(t), Serve(t)
    PROVE  SerialInv'
  <1>0. /\ TypeInv /\ thread[t] \in Locals /\ SureThread(thread[t]) /\ thread[t].pc = "call"
        /\ thread[t].req \in Request /\ store \in Table /\ late' = {} /\ now' = now
    BY DEF IInv, TypeInv, TypeOK, JobShape, Fits, SerialInv, Serve, Locals
  <1>1. PICK L : L = [thread[t] EXCEPT !.pc = "answered", !.resp = Answer(store, thread[t].req)]
    OBVIOUS
  <1>2. /\ L.pc = "answered" /\ L.resp = Answer(store, thread[t].req) /\ L.got = thread[t].got
        /\ L.job = thread[t].job /\ L.todo = thread[t].todo
    BY <1>0, <1>1 DEF Locals
  <1>3. cache # None => cache.m = store
    BY <1>0, CacheTrue
  <1>4. L.resp # "ok" => store' = store
    BY <1>2 DEF Serve, Answer, After
  <1>5. SureThread(L)'
    <2>1. SUFFICES ASSUME L.job.kind = "expire", NEW p \in L.todo
                   PROVE  store'[p] = None \/ Expired(store'[p], now)
      BY <1>0, <1>2 DEF SureThread, Expired
    <2>2. store'[p] = store[p] \/ store'[p] = None
      <3>1. thread[t].req.body = None /\ p \in Ports
        BY <1>0, <1>2, <2>1 DEF SureThread, Locals
      <3> QED
        BY <1>0, <3>1 DEF Serve, After, Table
    <2> QED
      BY <1>0, <1>2, <2>1, <2>2 DEF SureThread
  <1> QED
    BY <1>0, <1>1, <1>2, <1>3, <1>4, <1>5, SerialStep DEF Serve

LEMMA SerialDeleteNext ==
    ASSUME IInv, SerialInv, NEW t \in Threads, OthersRest(t), DeleteNext(t)
    PROVE  SerialInv'
  <1>0. /\ TypeInv /\ thread[t] \in Locals /\ SureThread(thread[t]) /\ thread[t].pc = "loop"
        /\ thread[t].job.kind \in {"expire", "batch"} /\ late' = {}
        /\ UNCHANGED <<now, store, cache>>
    BY DEF IInv, TypeInv, TypeOK, JobShape, Fits, SerialInv, DeleteNext
  <1>1. PICK p, r, L :
           /\ p \in thread[t].todo
           /\ r = Write("DELETE", p, None, thread[t].basis, thread[t].job.kind, None)
           /\ L = [thread[t] EXCEPT !.pc = "call", !.since = now, !.todo = thread[t].todo \ {p},
                                    !.req = r]
           /\ thread' = [thread EXCEPT ![t] = L]
    BY DEF DeleteNext
  <1>2. /\ r.method = "DELETE" /\ r.body = None /\ r.port = p /\ r.by = thread[t].job.kind
        /\ L.req = r /\ L.got = thread[t].got /\ L.job = thread[t].job
        /\ L.todo = thread[t].todo \ {p} /\ L.pc = "call" /\ p \in thread[t].todo
    BY <1>0, <1>1 DEF Write, Locals
  <1>3. SureThread(L)'
    BY <1>0, <1>2 DEF SureThread, Sure, Expired
  <1>4. cache # None => cache.m = store
    BY <1>0, CacheTrue
  <1> QED
    BY <1>0, <1>1, <1>2, <1>3, <1>4, SerialStep

(* A mapping that has expired stays expired. *)
LEMMA SerialTick ==
    ASSUME IInv, SerialInv, Tick
    PROVE  SerialInv'
  <1>0. /\ now \in Nat /\ now' = now + 1 /\ store \in Table
        /\ UNCHANGED <<store, late, cache, cacheTs, thread>>
    BY DEF Tick, IInv, TypeInv, TypeOK
  <1>1. ASSUME NEW p \in Ports, store[p] # None, Expired(store[p], now)
        PROVE  Expired(store[p], now')
    <2>1. store[p].created \in Nat /\ store[p].lease \in Int
      BY <1>0, <1>1 DEF Table, Mapping
    <2> QED
      BY <1>0, <1>1, <2>1 DEF Expired
  <1>2. ASSUME NEW u \in Threads PROVE SureThread(thread[u])'
    <2>1. PICK L : L = thread[u]
      OBVIOUS
    <2>2. SureThread(L) /\ L.todo \subseteq Ports
      BY <2>1 DEF SerialInv, IInv, TypeInv, TypeOK, Locals
    <2>3. L.pc = "call" => L.req.port \in Ports
      BY <2>1 DEF IInv, TypeInv, TypeOK, JobShape, Fits, Locals, Request
    <2>4. ASSUME NEW p \in L.todo, store[p] = None \/ Expired(store[p], now)
          PROVE  store'[p] = None \/ Expired(store'[p], now')
      BY <1>0, <1>1, <2>2, <2>4
    <2>5. ASSUME L.pc = "call" PROVE Sure(L.req)'
      BY <1>0, <1>1, <2>2, <2>3, <2>5 DEF SureThread, Sure
    <2>6. SureThread(L)'
      BY <1>0, <2>2, <2>4, <2>5 DEF SureThread
    <2> QED
      BY <1>0, <2>1, <2>6 DEF SureThread, Sure
  <1> QED
    BY <1>0, <1>2 DEF SerialInv, Alone, Coherent, Resting

LEMMA SerialInit == Init => SerialInv
  <1> SUFFICES ASSUME Init PROVE SerialInv
    OBVIOUS
  <1>1. \A t \in Threads : thread[t].pc = "idle" /\ thread[t].got = None
    BY DEF Init, IdleState
  <1> QED
    BY <1>1 DEF Init, SerialInv, Alone, Coherent, Resting, SureThread

LEMMA SerialNext ==
    ASSUME IInv, SerialInv, OneByOne, SecureMode => ~ReadsFail, [Next]_vars
    PROVE  SerialInv'
  <1>1. ASSUME NEW t \in Threads, Step(t) PROVE SerialInv'
    <2>1. ~Resting(t)
      BY <1>1 DEF Step, Check, Hit, ServeGet, FailGet, Fill, Stamp, Reread, Serve, Fail, Answered,
                  ClearTs, DeleteNext, EndLoop, Resting
    <2>2. OthersRest(t)
      BY <2>1 DEF SerialInv, Alone, OthersRest
    <2> QED
      BY <1>1, <2>2, SerialMoves, SerialServe, SerialDeleteNext
  <1>2. CASE UNCHANGED vars
    BY <1>2 DEF vars, SerialInv, Alone, Coherent, Resting, SureThread, Sure, Expired
  <1>3. ~ServeLate /\ ~DropLate /\ ~GostRestart
    BY DEF SerialInv, ServeLate, DropLate, GostRestart, OneByOne
  <1> QED
    BY <1>1, <1>2, <1>3, SerialArrive, SerialTick DEF Next

-----------------------------------------------------------------------------
(* The theorems                                                             *)

(* With one job at a time, no lost write and no restart of GOST, the list the   *)
(* repository may hand out is what GOST holds whenever nobody is at work: each  *)
(* write that changes GOST clears the cache before its job is over.            *)
THEOREM Coherence ==
    ASSUME OneByOne, SecureMode => ~ReadsFail
    PROVE  Spec => []CoherentWhenQuiet
  <1>1. IInv /\ SerialInv /\ [Next]_vars => SerialInv'
    BY SerialNext
  <1>2. SerialInv => CoherentWhenQuiet
    BY DEF SerialInv, Coherent, CoherentWhenQuiet, Quiet, Resting, Fresh
  <1> QED
    BY <1>1, <1>2, SerialInit, Inductive, PTL DEF Spec

LEMMA SureServed ==
    ASSUME IInv, FormInv, NEW r \in Pending, Sure(r), store' = After(store, r), now' = now,
           Wishes' \subseteq Wishes
    PROVE  Exact!Change
  <1> DEFINE p == r.port
             e == store[p]
  <1>0. r \in Request /\ Formed(r) /\ WishOf(r) \in Wishes /\ p \in Ports
    BY PendingFacts
  <1>1. CASE ~Applies(store, r)
    BY <1>1 DEF After, Exact!Change, Exact!Ask
  <1>2. ASSUME \/ \E client \in Clients : \/ Exact!Grant(p, client)
                                          \/ Exact!Release(p, client)
                                          \/ Exact!UserGrant(p, client)
               \/ Exact!UserRelease(p) \/ Exact!Expire(p)
        PROVE  Exact!Change
    BY <1>0, <1>2 DEF Exact!Change
  <1>3. CASE Applies(store, r)
    <2>1. store' = [store EXCEPT ![p] = r.body]
      BY <1>3 DEF After
    <2>2. ASSUME r.body # None, NEW leases, r.body.lease \in leases
          PROVE  Exact!Give(p, r.body.owner, leases)
      BY <2>1, <2>2, Given DEF Exact!Give, Windowed!Give
    <2>3. CASE r.by = "add"
      <3>1. /\ r.method \in {"POST", "PUT"} /\ r.who \in Clients /\ r.body # None
            /\ r.body.owner = r.who /\ r.body.lease \in 1..MaxLease
        BY <1>0, <2>3 DEF Formed, ByClient
      <3>2. Exact!Give(p, r.who, 1..MaxLease)
        BY <2>2, <3>1
      <3>3. WishOf(r) = Exact!Wish("grant", "client", r.who, p)
        BY <2>3, <3>1 DEF WishOf, Exact!Wish
      <3>4. e = None \/ e.owner = r.who
        BY <1>3, <3>1 DEF Applies, Sure
      <3> QED
        BY <1>0, <1>2, <3>1, <3>2, <3>3, <3>4 DEF Exact!Grant
    <2>4. ASSUME r.method = "DELETE" PROVE r.body = None /\ Exact!Take(p)
      BY <1>0, <1>3, <2>1, <2>4 DEF Formed, Applies, Exact!Take
    <2>5. CASE r.by = "delete"
      <3>1. r.method = "DELETE" /\ r.who \in Clients
        BY <1>0, <2>5 DEF Formed, ByClient
      <3>2. WishOf(r) = Exact!Wish("release", "client", r.who, p)
        BY <2>5, <3>1 DEF WishOf, Exact!Wish
      <3>3. SecureMode => e.owner = r.who
        BY <1>3, <2>5, <3>1 DEF Applies, Sure
      <3> QED
        BY <1>0, <1>2, <2>4, <3>1, <3>2, <3>3 DEF Exact!Release
    <2>6. CASE r.by \in {"web", "batch"} /\ r.method = "DELETE"
      <3>1. WishOf(r) = Exact!Wish("release", "user", None, p)
        BY <1>0, <2>6 DEF WishOf, Exact!Wish, Formed, ByOthers
      <3> QED
        BY <1>0, <1>2, <2>4, <2>6, <3>1 DEF Exact!UserRelease
    <2>7. CASE r.by = "web" /\ r.method # "DELETE"
      <3>1. r.method = "POST" /\ r.body # None /\ r.body.lease \in WebLeases /\ r.who = None
        BY <1>0, <2>7 DEF Formed, ByOthers
      <3>2. r.body.owner \in Clients
        BY <1>0, <3>1 DEF Request, Mapping
      <3>3. Exact!Give(p, r.body.owner, WebLeases)
        BY <2>2, <3>1
      <3>4. WishOf(r) = Exact!Wish("grant", "user", None, p)
        BY <2>7, <3>1 DEF WishOf, Exact!Wish
      <3>5. e = None
        BY <1>3, <3>1 DEF Applies
      <3> QED
        BY <1>0, <1>2, <3>2, <3>3, <3>4, <3>5 DEF Exact!UserGrant
    <2>8. CASE r.by = "expire"
      <3>1. r.method = "DELETE" /\ r.who = None
        BY <1>0, <2>8 DEF Formed, ByOthers
      <3>2. WishOf(r) = Exact!Wish("release", "cleanup", None, p)
        BY <2>8, <3>1 DEF WishOf, Exact!Wish
      <3>3. Exact!Over(e)
        BY <1>3, <2>8, <3>1 DEF Applies, Sure, Expired, Exact!Over
      <3> QED
        BY <1>0, <1>2, <2>4, <3>1, <3>2, <3>3 DEF Exact!Expire
    <2> QED
      BY <1>0, <2>3, <2>5, <2>6, <2>7, <2>8 DEF Formed, ByOthers
  <1> QED
    BY <1>1, <1>3

LEMMA SerialChanges ==
    ASSUME IInv, FormInv, SerialInv, OneByOne, [Next]_vars
    PROVE  Exact!Change
  <1>1. ASSUME NEW t \in Threads, Serve(t) PROVE Exact!Change
    <2>1. thread[t].req \in Pending /\ Sure(thread[t].req)
      BY <1>1 DEF Serve, Pending, SerialInv, SureThread
    <2>2. Wishes' \subseteq Wishes
      BY <1>1, WishesShrink DEF Serve, IInv
    <2> QED
      BY <1>1, <2>1, <2>2, SureServed DEF Serve
  <1>2. CASE Tick
    <2>1. UNCHANGED Wishes
      BY <1>2 DEF Tick, Wishes, Pending, WishOf
    <2> QED
      BY <1>2, <2>1 DEF Tick, Exact!Change, Exact!Advance
  <1>3. CASE UNCHANGED <<store, now>>
    BY <1>3 DEF Exact!Change, Exact!Ask
  <1>4. ASSUME NEW t \in Threads, Arrive(t) \/ Step(t), ~Serve(t) PROVE UNCHANGED <<store, now>>
    BY <1>4 DEF Arrive, ReceiveAdd, ReceiveDelete, BeginList, BeginClean, WebAdd, WebDelete,
       WebDeleteSelected, Confirm, Cancel, Step, Check, Hit, ServeGet, FailGet, Fill, Stamp,
       Reread, Fail, Answered, ClearTs, DeleteNext, EndLoop
  <1>5. ~ServeLate /\ ~DropLate /\ ~GostRestart
    BY DEF SerialInv, ServeLate, DropLate, GostRestart, OneByOne
  <1>6. UNCHANGED vars => UNCHANGED <<store, now>>
    BY DEF vars
  <1> QED
    BY <1>1, <1>2, <1>3, <1>4, <1>5, <1>6 DEF Next

(* Under the same conditions the gateway is the table itself: AddPortMapping     *)
(* renews the owner's mapping only, with SECURE_MODE DeletePortMapping deletes   *)
(* the owner's only, and the cleanup removes what has expired and nothing else. *)
THEOREM ExactRefinement ==
    ASSUME OneByOne, SecureMode => ~ReadsFail, IsFiniteSet(Ports)
    PROVE  Spec => ExactTable
  <1>1. Init => Exact!Start
    BY DEF Init, EmptyTable, Wishes, Pending, IdleState, Exact!Start
  <1>2. IInv /\ FormInv /\ [Next]_vars => FormInv'
    BY FormNext
  <1>3. IInv /\ SerialInv /\ [Next]_vars => SerialInv'
    BY SerialNext
  <1>4. IInv /\ FormInv /\ SerialInv /\ [Next]_vars => [Exact!Change]_(Exact!tableVars)
    BY SerialChanges
  <1>5. Spec => []FormInv /\ []SerialInv
    BY <1>2, <1>3, FormInit, SerialInit, Inductive, PTL DEF Spec
  <1>6. Spec => Exact!TableSpec
    BY <1>1, <1>4, <1>5, Inductive, PTL DEF Spec, Exact!TableSpec
  <1> QED
    BY <1>6 DEF ExactTable

=============================================================================
