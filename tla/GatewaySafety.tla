---------------------------- MODULE GatewaySafety ----------------------------
(***************************************************************************)
(* The safety properties of the gateway, from the invariant IInv.             *)
(***************************************************************************)
EXTENDS GatewayProofs

(* A change of GOST's services: a port keeps its mapping, loses it, or gets one *)
(* built less than a call ago.                                               *)
StoreMoves ==
    \A p \in Ports : \/ store'[p] = store[p]
                     \/ store'[p] = None
                     \/ store'[p].created >= now - MaxCall

(* A change of the cached list: none, cleared, or filled with a recent answer. *)
CacheMoves == cache' = cache \/ cache' = None \/ cache'.at >= now - MaxCall

LEMMA ShowsKept ==
    ASSUME TypeInv, TypeInv', StoreMoves, NEW X \in Snapshot \cup {None}, Shows(X),
           X # None => X.at <= now
    PROVE  Shows(X)'
  <1> SUFFICES ASSUME X # None, NEW p \in Ports
               PROVE  \/ store'[p] = X.m[p] \/ store'[p] = None
                      \/ store'[p].created >= X.at - MaxCall
    BY DEF Shows
  <1>1. X.at \in Int /\ now \in Int /\ MaxCall \in Int
    BY BoundAssumption DEF Snapshot, TypeInv, TypeOK
  <1>2. store'[p] \in Mapping \cup {None}
    BY DEF TypeInv, TypeOK, Table
  <1>3. CASE store'[p] = store[p]
    BY <1>3 DEF Shows
  <1>4. CASE store'[p] # None /\ store'[p].created >= now - MaxCall
    BY <1>1, <1>2, <1>4 DEF Mapping
  <1> QED
    BY <1>3, <1>4 DEF StoreMoves

LEMMA JustifiedKept ==
    ASSUME TypeInv, TypeInv', StoreMoves, now' >= now, NEW r \in Request, Justified(r),
           r.basis <= now
    PROVE  Justified(r)'
  <1> DEFINE e == store'[r.port]
  <1>1. r.port \in Ports /\ r.basis \in Int /\ now \in Int /\ now' \in Int /\ MaxCall \in Int
    BY BoundAssumption DEF Request, TypeInv, TypeOK
  <1>2. e \in Mapping \cup {None}
    BY <1>1 DEF TypeInv, TypeOK, Table
  <1>3. CASE e = None
    BY <1>3 DEF Justified
  <1>4. CASE e # None /\ e = store[r.port]
    <2>1. e.created \in Int /\ e.lease \in Int
      BY <1>2, <1>4 DEF Mapping
    <2>2. Expired(store[r.port], now) => Expired(e, now')
      BY <1>1, <1>4, <2>1 DEF Expired
    <2> QED
      BY <1>4, <2>2 DEF Justified, Recent
  <1>5. CASE e # None /\ e.created >= now - MaxCall
    <2>1. e.created >= r.basis - MaxCall
      BY <1>1, <1>2, <1>5 DEF Mapping
    <2> QED
      BY <2>1 DEF Justified, Recent
  <1> QED
    BY <1>1, <1>3, <1>4, <1>5 DEF StoreMoves

(* GOST serving a request built less than a call ago moves the services so. *)
LEMMA AfterMoves ==
    ASSUME TypeInv, NEW r \in Request, Timed(r), store' = After(store, r)
    PROVE  StoreMoves
  <1> SUFFICES ASSUME NEW p \in Ports
               PROVE  \/ store'[p] = store[p] \/ store'[p] = None
                      \/ store'[p].created >= now - MaxCall
    BY DEF StoreMoves
  <1>1. CASE store' = [store EXCEPT ![r.port] = r.body] /\ p = r.port
    <2>1. store'[p] = r.body
      BY <1>1 DEF TypeInv, TypeOK, Table
    <2>2. r.body # None => r.body.created >= now - MaxCall
      BY BoundAssumption DEF Timed, Request, Mapping, TypeInv, TypeOK
    <2> QED
      BY <2>1, <2>2
  <1>2. CASE store' = [store EXCEPT ![r.port] = r.body] /\ p # r.port
    BY <1>2 DEF TypeInv, TypeOK, Table
  <1> QED
    BY <1>1, <1>2 DEF After

LEMMA RemainingKept ==
    ASSUME TypeInv, TypeInv', StoreMoves, now' >= now, NEW L \in Locals, Remaining(L)
    PROVE  Remaining(L)'
  <1>1. L.basis \in Int /\ now \in Int /\ now' \in Int /\ MaxCall \in Int /\ L.todo \subseteq Ports
    BY BoundAssumption DEF Locals, TypeInv, TypeOK
  <1>2. L.basis <= now'
    BY <1>1 DEF Remaining
  <1>3. SUFFICES ASSUME L.job.kind = "expire", NEW p \in L.todo
                 PROVE  \/ store'[p] = None
                        \/ Expired(store'[p], now')
                        \/ store'[p].created >= L.basis - MaxCall
    BY <1>2 DEF Remaining, Expired
  <1>4. store'[p] \in Mapping \cup {None}
    BY <1>1 DEF TypeInv, TypeOK, Table
  <1>5. CASE store'[p] # None /\ store'[p] = store[p]
    <2>1. store[p].created \in Int /\ store[p].lease \in Int
      BY <1>4, <1>5 DEF Mapping
    <2> QED
      BY <1>1, <1>3, <1>5, <2>1 DEF Remaining, Expired
  <1>6. CASE store'[p] # None /\ store'[p].created >= now - MaxCall
    BY <1>1, <1>4, <1>6 DEF Remaining, Mapping
  <1> QED
    BY <1>1, <1>5, <1>6 DEF StoreMoves

(* LocalInv of a thread in state L. *)
Holds(L) ==
    /\ L.pc \notin {"idle", "check", "dead", "popup"} => L.since <= now /\ now - L.since <= MaxCall
    /\ ListAge(L) /\ InFlight(L) /\ OnWire(L) /\ Remaining(L)

(* What a step leaves true of the state L some thread is in. *)
LEMMA HoldsKept ==
    ASSUME IInv, TypeInv', StoreMoves, CacheMoves, now' = now,
           NEW u \in Threads, NEW L, L = thread[u]
    PROVE  Holds(L)'
  <1>1. L \in Locals /\ now \in Nat /\ TTL \in Nat \ {0} /\ MaxCall \in Nat /\ Fits(L)
    BY BoundAssumption DEF IInv, TypeInv, TypeOK, JobShape
  <1>2. /\ L.pc \notin {"idle", "check", "dead", "popup"} => L.since <= now /\ now - L.since <= MaxCall
        /\ ListAge(L) /\ InFlight(L) /\ OnWire(L) /\ Remaining(L)
    BY DEF IInv, LocalInv, InCall
  <1>3. L.since \in Nat /\ L.got \in Snapshot \cup {None} /\ L.req \in Request \cup {None}
    BY <1>1 DEF Locals
  <1>5. ListAge(L)'
    <2>1. SUFFICES ASSUME cache' # None, L.pc \in {"stamp", "reread", "hit"}
                   PROVE  /\ L.pc \in {"stamp", "reread"} => cache'.at >= L.since - MaxCall
                          /\ L.pc = "hit" => cache'.at > L.since - TTL - 2 * MaxCall
      BY DEF ListAge
    <2>2. cache'.at \in Int
      BY <2>1 DEF TypeInv, TypeOK, Snapshot
    <2>3. CASE cache' = cache
      BY <1>2, <2>1, <2>3 DEF ListAge
    <2>4. CASE cache'.at >= now - MaxCall
      BY <1>1, <1>2, <1>3, <2>1, <2>2, <2>4
    <2> QED
      BY <2>1, <2>3, <2>4 DEF CacheMoves
  <1>6. InFlight(L)'
    <2>1. L.got # None => L.got.at \in 0..now
      BY <1>2 DEF InFlight
    <2>2. L.got # None => L.got.at <= now
      BY <1>1, <2>1
    <2>3. Shows(L.got)'
      BY <1>2, <1>3, <2>2, ShowsKept DEF InFlight, IInv
    <2> QED
      BY <1>2, <2>3 DEF InFlight
  <1>7. OnWire(L)'
    <2>1. CASE L.pc = "call"
      <3>1. L.req \in Request /\ Timed(L.req) /\ Justified(L.req)
        BY <1>1, <1>2, <1>3, <2>1 DEF Fits, OnWire
      <3>2. Justified(L.req)'
        BY <3>1, JustifiedKept, <1>1 DEF IInv, Timed
      <3> QED
        BY <1>2, <2>1, <3>1, <3>2 DEF OnWire, Timed
    <2>2. CASE L.pc # "call"
      BY <1>2, <2>2 DEF OnWire
    <2> QED
      BY <2>1, <2>2
  <1>8. Remaining(L)'
    BY <1>1, <1>2, RemainingKept DEF IInv
  <1> QED
    BY <1>2, <1>5, <1>6, <1>7, <1>8 DEF Holds

(* What the step of one thread, or of GOST, leaves to another thread. *)
LEMMA OthersKept ==
    ASSUME IInv, TypeInv', StoreMoves, CacheMoves, now' = now,
           NEW u \in Threads, thread'[u] = thread[u]
    PROVE  LocalInv(u)'
  <1>1. PICK L : L = thread[u]
    OBVIOUS
  <1>2. Holds(L)'
    BY <1>1, HoldsKept
  <1> QED
    BY <1>1, <1>2 DEF LocalInv, Holds, InCall

(* What every step leaves to the cache and to the late requests. *)
LEMMA SharedKept ==
    ASSUME IInv, TypeInv', StoreMoves, now' = now, cache' = cache, cacheTs' = cacheTs,
           late' \subseteq late
    PROVE  SharedInv'
  <1>1. Shows(cache)'
    BY ShowsKept DEF IInv, SharedInv, TypeInv, TypeOK
  <1>2. ASSUME NEW r \in late PROVE (Timed(r) /\ Justified(r))'
    <2>1. r \in Request /\ Timed(r) /\ Justified(r)
      BY DEF IInv, SharedInv, TypeInv, TypeOK
    <2>2. now' >= now
      BY DEF IInv, TypeInv, TypeOK
    <2> QED
      BY <2>1, <2>2, JustifiedKept DEF IInv, Timed
  <1> QED
    BY <1>1, <1>2 DEF IInv, SharedInv

LEMMA OwnKept ==
    ASSUME IInv, NEW t \in Threads, NEW L, thread' = [thread EXCEPT ![t] = L], Holds(L)'
    PROVE  LocalInv(t)'
  <1>1. thread'[t] = L
    BY DEF IInv, TypeInv, TypeOK
  <1> QED
    BY <1>1 DEF LocalInv, Holds, InCall

LEMMA IdleHolds ==
    ASSUME TypeInv', NEW L, L.pc \in {"idle", "check", "dead", "popup"}, L.got = None, L.req = None,
           L.todo = {}, L.basis = -1
    PROVE  Holds(L)'
  <1>1. -1 <= now'
    BY DEF TypeInv, TypeOK
  <1> QED
    BY <1>1 DEF Holds, ListAge, InFlight, OnWire, Remaining, Shows

LEMMA FinishSafe ==
    ASSUME IInv, TypeInv', NEW t \in Threads, Finish(t)
    PROVE  LocalInv(t)'
  <1>1. Holds(IdleState)'
    BY IdleHolds DEF IdleState
  <1> QED
    BY <1>1, OwnKept DEF Finish

(* A write is sent: built now, justified by what GOST holds now. *)
LEMMA SendSafe ==
    ASSUME IInv, TypeInv', NEW t \in Threads, NEW r \in Request, Send(t, r),
           store' = store, now' = now,
           r.built = now, Timed(r), Justified(r),
           r.by \in {"add", "delete"} /\ r.basis >= 0 => now - r.basis < TTL + 3 * MaxCall
    PROVE  LocalInv(t)'
  <1>0. PICK L : L = [thread[t] EXCEPT !.pc = "call", !.since = now, !.req = r, !.got = None]
    OBVIOUS
  <1>1. thread' = [thread EXCEPT ![t] = L]
    BY <1>0 DEF Send
  <1>2. thread[t] \in Locals /\ now \in Nat /\ MaxCall \in Nat /\ Remaining(thread[t])
    BY BoundAssumption DEF IInv, TypeInv, TypeOK, LocalInv
  <1>3. /\ L.pc = "call" /\ L.since = now /\ L.req = r /\ L.got = None
        /\ L.job = thread[t].job /\ L.todo = thread[t].todo /\ L.basis = thread[t].basis
    BY <1>0, <1>2 DEF Locals
  <1>4. Timed(r)' /\ Justified(r)'
    BY DEF Timed, Justified, Expired, Recent
  <1>5. Remaining(L)'
    BY <1>2, <1>3 DEF Remaining, Expired
  <1>6. ListAge(L)' /\ InFlight(L)'
    BY <1>3 DEF ListAge, InFlight, Shows
  <1>7. OnWire(L)'
    BY <1>3, <1>4 DEF OnWire
  <1>8. L.since <= now' /\ now' - L.since <= MaxCall
    BY <1>2, <1>3
  <1>9. Holds(L)'
    BY <1>5, <1>6, <1>7, <1>8 DEF Holds
  <1> QED
    BY <1>1, <1>9, OwnKept

(* A list a caller may be handed: true but for recent mappings, and recent. *)
Usable(X) ==
    X # None => /\ Shows(X)
                /\ X.at <= now
                /\ X.at >= 0 => now - X.at < TTL + 3 * MaxCall
                /\ X.at < 0 => X = FailedList

LEMMA DeliverSafe ==
    ASSUME IInv, TypeInv', NEW t \in Threads, NEW X \in Snapshot \cup {None}, Deliver(t, X),
           Usable(X), InCall(t), store' = store, now' = now, cache' = cache
    PROVE  LocalInv(t)'
  <1> DEFINE j == thread[t].job
  <1>0. /\ now \in Nat /\ TTL \in Nat \ {0} /\ MaxCall \in Nat
        /\ thread[t] \in Locals /\ thread[t].since <= now /\ thread[t].since \in Nat
        /\ now - thread[t].since <= MaxCall
    BY BoundAssumption DEF IInv, TypeInv, TypeOK, LocalInv, Locals
  <1>1. CASE X = None /\ NoList(t)
    <2>1. CASE thread' = [thread EXCEPT ![t] = [IdleState EXCEPT !.pc = "dead"]]
      <3> DEFINE L == [IdleState EXCEPT !.pc = "dead"]
      <3>1. L.pc = "dead" /\ L.got = None /\ L.req = None /\ L.todo = {} /\ L.basis = -1
        BY DEF IdleState
      <3> HIDE DEF L
      <3>2. Holds(L)'
        BY <3>1, IdleHolds
      <3> QED
        BY <2>1, <3>2, OwnKept DEF L
    <2> QED
      BY <1>1, <2>1, FinishSafe DEF NoList
  <1>2. CASE X # None /\ j.kind = "add" /\ AddPortMapping(t, X)
    <2> DEFINE seen == X.m[j.port]
               body == [owner |-> j.client, created |-> now, lease |-> EffectiveLease(j.lease)]
               method == IF seen = None THEN "POST" ELSE "PUT"
               r == Write(method, j.port, body, X.at, "add", j.client)
    <2>1. CASE ~ConflictsWith(seen, j.client)
      <3>1. j.client \in Clients /\ j.port \in Ports /\ j.lease \in Int /\ X.at \in Int
        BY <1>0, <1>2 DEF IInv, TypeInv, JobShape, Fits, Locals, Job, Snapshot
      <3>2. body \in Mapping
        BY <1>0, <3>1, LeaseClamp, LeaseAssumption DEF Mapping
      <3>3. r \in Request
        BY <3>1, <3>2, WriteType DEF IInv, TypeInv, Kinds
      <3>4. /\ r.built = now /\ r.body = body /\ r.basis = X.at /\ r.by = "add"
            /\ r.who = j.client /\ r.port = j.port /\ r.method = method
        BY DEF Write
      <3>5. body.created = now
        OBVIOUS
      <3> HIDE DEF body
      <3>6. Timed(r)
        BY <1>0, <1>2, <3>1, <3>4, <3>5 DEF Timed, Usable
      <3>7. Justified(r)
        <4>1. SUFFICES ASSUME store[j.port] # None, seen # None
                       PROVE  store[j.port].owner = j.client \/ Recent(store[j.port], r)
          BY <3>4 DEF Justified
        <4>2. seen.owner = j.client
          BY <2>1, <4>1 DEF ConflictsWith
        <4> QED
          BY <1>2, <3>1, <3>4, <4>1, <4>2 DEF Usable, Shows, Recent
      <3>8. r.basis >= 0 => now - r.basis < TTL + 3 * MaxCall
        BY <1>2, <3>4 DEF Usable
      <3>9. Send(t, r)
        BY <1>2, <2>1 DEF AddPortMapping, body
      <3> HIDE DEF r
      <3> QED
        BY <3>3, <3>4, <3>6, <3>7, <3>8, <3>9, SendSafe
    <2> QED
      BY <1>2, <2>1, FinishSafe DEF AddPortMapping
  <1>3. CASE X # None /\ j.kind = "delete" /\ DeletePortMapping(t, X)
    <2> DEFINE r == Write("DELETE", j.port, None, X.at, "delete", j.remote)
    <2>1. CASE MayDelete(X.m[j.port], j.remote)
      <3>1. j.remote \in Clients /\ j.port \in Ports /\ X.at \in Int
        BY <1>0, <1>3 DEF IInv, TypeInv, JobShape, Fits, Snapshot
      <3>2. r \in Request
        BY <3>1, WriteType DEF IInv, TypeInv, Kinds
      <3>3. /\ r.built = now /\ r.body = None /\ r.basis = X.at /\ r.by = "delete"
            /\ r.who = j.remote /\ r.port = j.port /\ r.method = "DELETE"
        BY DEF Write
      <3>4. Timed(r)
        BY <1>0, <1>3, <3>1, <3>3 DEF Timed, Usable
      <3>5. Justified(r)
        <4>1. SUFFICES ASSUME store[j.port] # None, SecureMode
                       PROVE  store[j.port].owner = j.remote \/ Recent(store[j.port], r)
          BY <3>3 DEF Justified
        <4>2. CASE store[j.port] = X.m[j.port]
          BY <2>1, <4>1, <4>2 DEF MayDelete
        <4>3. CASE store[j.port].created >= X.at - MaxCall
          BY <3>3, <4>3 DEF Recent
        <4> QED
          BY <1>3, <3>1, <4>1, <4>2, <4>3 DEF Usable, Shows
      <3>6. r.basis >= 0 => now - r.basis < TTL + 3 * MaxCall
        BY <1>3, <3>3 DEF Usable
      <3>7. Send(t, r)
        BY <1>3, <2>1 DEF DeletePortMapping
      <3> HIDE DEF r
      <3> QED
        BY <3>2, <3>3, <3>4, <3>5, <3>6, <3>7, SendSafe
    <2> QED
      BY <1>3, <2>1, FinishSafe DEF DeletePortMapping
  <1>4. CASE X # None /\ j.kind = "expire" /\ CollectExpired(t, X)
    <2>0. PICK found, L :
             /\ found = {p \in Ports : X.m[p] # None /\ Expired(X.m[p], thread[t].since)}
             /\ L = [thread[t] EXCEPT !.pc = "loop", !.todo = found, !.basis = X.at, !.got = None]
      OBVIOUS
    <2>1. thread' = [thread EXCEPT ![t] = L]
      BY <1>4, <2>0 DEF CollectExpired
    <2>2. /\ L.pc = "loop" /\ L.since = thread[t].since /\ L.req = thread[t].req
          /\ L.got = None /\ L.todo = found /\ L.basis = X.at /\ L.job = j
      BY <1>0, <2>0 DEF Locals
    <2>3. OnWire(L)'
      <3>1. OnWire(thread[t])
        BY DEF IInv, LocalInv
      <3> QED
        BY <2>2, <3>1 DEF OnWire
    <2>4. ListAge(L)' /\ InFlight(L)'
      BY <2>2 DEF ListAge, InFlight, Shows
    <2>5. Remaining(L)'
      <3>1. L.basis <= now
        BY <1>4, <2>2 DEF Usable
      <3>2. ASSUME NEW p \in found
            PROVE  \/ store[p] = None \/ Expired(store[p], now)
                   \/ store[p].created >= L.basis - MaxCall
        <4>1. p \in Ports /\ X.m[p] # None /\ Expired(X.m[p], thread[t].since)
          BY <2>0
        <4>2. X.m[p] \in Mapping
          BY <1>4, <4>1 DEF Snapshot, Table
        <4>3. CASE store[p] = X.m[p]
          BY <1>0, <4>1, <4>2, <4>3 DEF Expired, Mapping
        <4> QED
          BY <1>4, <2>2, <4>1, <4>3 DEF Usable, Shows
      <3> QED
        BY <2>2, <3>1, <3>2 DEF Remaining, Expired
    <2>6. L.since <= now' /\ now' - L.since <= MaxCall
      BY <1>0, <2>2
    <2>7. Holds(L)'
      BY <2>3, <2>4, <2>5, <2>6 DEF Holds
    <2> QED
      BY <2>1, <2>7, OwnKept
  <1>5. CASE X # None /\ j.kind \in {"list", "reconcile"} /\ Finish(t)
    BY <1>5, FinishSafe
  <1>6. CASE X # None /\ j.kind = "batch" /\ DeleteSelected(t, X)
    <2>1. ASSUME NEW rows \in (SUBSET {p \in Ports : X.m[p] # None}) \ {{}},
                 thread' = [thread EXCEPT ![t] = [@ EXCEPT !.pc = "popup", !.todo = rows,
                                                           !.got = None]]
          PROVE  LocalInv(t)'
      <3>1. PICK L : L = [thread[t] EXCEPT !.pc = "popup", !.todo = rows, !.got = None]
        OBVIOUS
      <3>2. /\ L.pc = "popup" /\ L.req = thread[t].req /\ L.got = None
            /\ L.basis = thread[t].basis /\ L.job = j
        BY <1>0, <3>1 DEF Locals
      <3>3. OnWire(thread[t]) /\ Remaining(thread[t])
        BY DEF IInv, LocalInv
      <3>4. OnWire(L)' /\ Remaining(L)'
        BY <1>6, <3>2, <3>3 DEF OnWire, Remaining
      <3>5. Holds(L)'
        BY <3>2, <3>4 DEF Holds, ListAge, InFlight, Shows
      <3> QED
        BY <2>1, <3>1, <3>5, OwnKept
    <2> QED
      BY <1>6, <2>1, FinishSafe DEF DeleteSelected
  <1> QED
    BY <1>1, <1>2, <1>3, <1>4, <1>5, <1>6 DEF Deliver

(* A thread that moves on, its call and its list aside unchanged. *)
LEMMA PcMoves ==
    ASSUME TypeInv', NEW K, NEW L, Holds(K)', K.pc \notin {"idle", "check", "dead", "popup"},
           L.since = K.since, L.job = K.job, L.todo = K.todo, L.basis = K.basis,
           L.got = K.got,
           L.req = K.req \/ L.req = None,
           \/ L.pc \in {"answered", "clear", "loop"}
           \/ L.pc = "call" /\ K.pc = "call" /\ L.req = K.req
           \/ L.pc = "reread" /\ K.pc = "stamp"
    PROVE  Holds(L)'
  <1>1. ListAge(L)'
    BY DEF Holds, ListAge
  <1>2. InFlight(L)'
    BY DEF Holds, InFlight
  <1>3. OnWire(L)'
    <2>1. CASE L.req = None
      BY <2>1 DEF Holds, OnWire
    <2>2. CASE L.req = K.req
      BY <2>2 DEF Holds, OnWire
    <2> QED
      BY <2>1, <2>2
  <1>4. Remaining(L)'
    BY DEF Holds, Remaining
  <1> QED
    BY <1>1, <1>2, <1>3, <1>4 DEF Holds

(* One thread's step: its own part, the shared part, and the others'. *)
LEMMA StepSafe ==
    ASSUME IInv, TypeInv', NEW t \in Threads, now' = now, StoreMoves, CacheMoves,
           \A u \in Threads \ {t} : thread'[u] = thread[u],
           SharedInv', LocalInv(t)'
    PROVE  IInv'
  <1>1. ASSUME NEW u \in Threads PROVE LocalInv(u)'
    <2>1. CASE u = t
      BY <2>1
    <2>2. CASE u # t
      BY <2>2, OthersKept
    <2> QED
      BY <2>1, <2>2
  <1> QED
    BY <1>1 DEF IInv

LEMMA StoreStays == ASSUME store' = store PROVE StoreMoves
  BY DEF StoreMoves

LEMMA WriteDoneSafe ==
    ASSUME IInv, TypeInv', NEW t \in Threads, WriteDone(t), InCall(t),
           store' = store, now' = now, CacheMoves
    PROVE  LocalInv(t)'
  <1>1. CASE Finish(t)
    BY <1>1, FinishSafe
  <1>2. CASE thread' = [thread EXCEPT ![t] = [@ EXCEPT !.pc = "loop", !.req = None,
                                                       !.resp = "none", !.tries = 0]]
    <2>1. PICK K, L : /\ K = thread[t]
                      /\ L = [thread[t] EXCEPT !.pc = "loop", !.req = None,
                                               !.resp = "none", !.tries = 0]
      OBVIOUS
    <2>2. thread' = [thread EXCEPT ![t] = L]
      BY <1>2, <2>1
    <2>3. K \in Locals
      BY <2>1 DEF IInv, TypeInv, TypeOK
    <2>4. /\ L.since = K.since /\ L.job = K.job /\ L.todo = K.todo /\ L.basis = K.basis
          /\ L.got = K.got /\ L.req = None /\ L.pc = "loop"
          /\ K.pc \notin {"idle", "check", "dead", "popup"}
      BY <2>1, <2>3 DEF Locals, InCall
    <2>5. Holds(K)'
      BY <2>1, HoldsKept, StoreStays
    <2>6. Holds(L)'
      BY <2>4, <2>5, PcMoves
    <2> QED
      BY <2>2, <2>6, OwnKept
  <1> QED
    BY <1>1, <1>2 DEF WriteDone

LEMMA ArriveSafe ==
    ASSUME IInv, TypeInv', NEW t \in Threads, Arrive(t)
    PROVE  IInv'
  <1>0. /\ UNCHANGED <<now, store, late, cache, cacheTs>>
        /\ \E L : thread' = [thread EXCEPT ![t] = L]
    BY DEF Arrive, ReceiveAdd, ReceiveDelete, BeginList, BeginClean, WebAdd, WebDelete,
           WebDeleteSelected, Confirm, Cancel, Finish, Begin, Start
  <1>1. StoreMoves /\ CacheMoves /\ SharedInv'
    BY <1>0, StoreStays, SharedKept DEF CacheMoves
  <1>2. \A u \in Threads \ {t} : thread'[u] = thread[u]
    BY <1>0 DEF IInv, TypeInv, TypeOK
  <1>3. now \in Nat /\ MaxCall \in Nat /\ now' = now
    BY <1>0, BoundAssumption DEF IInv, TypeInv, TypeOK
  <1>4. ASSUME NEW job, Begin(t, Reading(job))
        PROVE  LocalInv(t)'
    <2>1. PICK L : L = Reading(job)
      OBVIOUS
    <2>2. L.pc = "check" /\ L.got = None /\ L.req = None /\ L.todo = {} /\ L.basis = -1
      BY <2>1 DEF Reading, IdleState
    <2>3. Holds(L)'
      BY <2>2, IdleHolds
    <2> QED
      BY <1>4, <2>1, <2>3, OwnKept DEF Begin, Start
  <1>5. ASSUME NEW r \in Request, r.built = now, r.basis = -1, r.by = "web",
               r.method # "PUT", r.body # None => r.body.created = now,
               Begin(t, Writing(r))
        PROVE  LocalInv(t)'
    <2>1. PICK L : L = Writing(r)
      OBVIOUS
    <2>2. /\ L.pc = "call" /\ L.since = now /\ L.req = r /\ L.got = None
          /\ L.todo = {} /\ L.basis = -1 /\ L.job.kind = "web"
      BY <2>1 DEF Writing, IdleState, NoJob
    <2>3. Timed(r)' /\ Justified(r)'
      BY <1>3, <1>5 DEF Timed, Justified
    <2>4. OnWire(L)'
      BY <1>5, <2>2, <2>3 DEF OnWire
    <2>5. Holds(L)'
      BY <1>3, <2>2, <2>4 DEF Holds, ListAge, InFlight, Remaining, Shows
    <2> QED
      BY <1>5, <2>1, <2>5, OwnKept DEF Begin, Start
  <1>6. LocalInv(t)'
    <2>1. CASE \/ ReceiveAdd(t) \/ ReceiveDelete(t) \/ BeginList(t) \/ BeginClean(t)
               \/ WebDeleteSelected(t)
      BY <1>4, <2>1 DEF ReceiveAdd, ReceiveDelete, BeginList, BeginClean, WebDeleteSelected
    <2>2. CASE WebAdd(t)
      <3>1. PICK client \in Clients, p \in Ports, l \in WebLeases :
               Begin(t, Writing(Write("POST", p, [owner |-> client, created |-> now, lease |-> l],
                                      -1, "web", None)))
        BY <2>2 DEF WebAdd
      <3> DEFINE body == [owner |-> client, created |-> now, lease |-> l]
                 r == Write("POST", p, body, -1, "web", None)
      <3>2. body \in Mapping /\ body.created = now
        BY <1>3, LeaseAssumption DEF Mapping
      <3>3. r \in Request
        BY <3>2, WriteType DEF Kinds, IInv, TypeInv
      <3>4. r.built = now /\ r.basis = -1 /\ r.by = "web" /\ r.method = "POST" /\ r.body = body
        BY DEF Write
      <3>5. Begin(t, Writing(r))
        BY <3>1
      <3> HIDE DEF body, r
      <3> QED
        BY <1>5, <3>2, <3>3, <3>4, <3>5
    <2>3. CASE WebDelete(t)
      <3>1. PICK p \in Ports : Begin(t, Writing(Write("DELETE", p, None, -1, "web", None)))
        BY <2>3 DEF WebDelete
      <3> DEFINE r == Write("DELETE", p, None, -1, "web", None)
      <3>2. r \in Request
        BY WriteType DEF Kinds, IInv, TypeInv
      <3>3. r.built = now /\ r.basis = -1 /\ r.by = "web" /\ r.method = "DELETE" /\ r.body = None
        BY DEF Write
      <3>4. Begin(t, Writing(r))
        BY <3>1
      <3> HIDE DEF r
      <3> QED
        BY <1>5, <3>2, <3>3, <3>4
    <2>4. CASE Confirm(t)
      <3>1. PICK L : L = [thread[t] EXCEPT !.pc = "loop", !.since = now]
        OBVIOUS
      <3>2. thread' = [thread EXCEPT ![t] = L]
        BY <2>4, <3>1 DEF Confirm, Start
      <3>3. thread[t] \in Locals
        BY DEF IInv, TypeInv, TypeOK
      <3>4. /\ L.pc = "loop" /\ L.since = now /\ L.req = thread[t].req
            /\ L.got = thread[t].got /\ L.basis = thread[t].basis
            /\ L.todo = thread[t].todo /\ L.job = thread[t].job
        BY <3>1, <3>3 DEF Locals
      <3>5. /\ OnWire(thread[t]) /\ InFlight(thread[t]) /\ Remaining(thread[t])
        BY DEF IInv, LocalInv
      <3>6. OnWire(L)' /\ InFlight(L)' /\ Remaining(L)'
        BY <1>0, <3>4, <3>5 DEF OnWire, InFlight, Remaining, Shows, Expired
      <3>7. Holds(L)'
        BY <1>3, <3>4, <3>6 DEF Holds, ListAge
      <3> QED
        BY <3>2, <3>7, OwnKept
    <2>5. CASE Cancel(t)
      BY <2>5, FinishSafe DEF Cancel
    <2> QED
      BY <2>1, <2>2, <2>3, <2>4, <2>5 DEF Arrive
  <1> QED
    BY <1>0, <1>1, <1>2, <1>6, StepSafe

-----------------------------------------------------------------------------
(* get_services keeps the invariant                                         *)

LEMMA DeliverStepSafe ==
    ASSUME IInv, TypeInv', NEW t \in Threads, NEW X \in Snapshot \cup {None}, Deliver(t, X),
           Usable(X), InCall(t), UNCHANGED <<now, store, late, cache, cacheTs>>
    PROVE  IInv'
  <1>1. \E L : thread' = [thread EXCEPT ![t] = L]
    BY DEF Deliver, NoList, AddPortMapping, DeletePortMapping, CollectExpired, DeleteSelected,
       Finish, Send
  <1>2. \A u \in Threads \ {t} : thread'[u] = thread[u]
    BY <1>1 DEF IInv, TypeInv, TypeOK
  <1>3. LocalInv(t)'
    BY DeliverSafe
  <1>4. SharedInv' /\ StoreMoves /\ CacheMoves
    BY SharedKept, StoreStays DEF CacheMoves
  <1> QED
    BY <1>2, <1>3, <1>4, StepSafe

LEMMA HitSafe ==
    ASSUME IInv, TypeInv', NEW t \in Threads, Hit(t)
    PROVE  IInv'
  <1>1. cache \in Snapshot \cup {None} /\ now \in Nat /\ TTL \in Nat /\ MaxCall \in Nat
    BY BoundAssumption DEF IInv, TypeInv, TypeOK
  <1>2. InCall(t)
    BY DEF Hit, InCall
  <1>3. /\ thread[t].since \in Nat /\ now - thread[t].since <= MaxCall
        /\ cache # None => cache.at > thread[t].since - TTL - 2 * MaxCall
    BY <1>2 DEF IInv, TypeInv, TypeOK, Locals, LocalInv, ListAge, Hit
  <1>4. cache # None => cache.at \in Int /\ cache.at >= 0 /\ cache.at <= now /\ Shows(cache)
    BY <1>1 DEF IInv, SharedInv
  <1>5. Usable(cache)
    BY <1>1, <1>3, <1>4 DEF Usable
  <1> QED
    BY <1>1, <1>2, <1>5, DeliverStepSafe DEF Hit

LEMMA RereadSafe ==
    ASSUME IInv, TypeInv', NEW t \in Threads, Reread(t)
    PROVE  IInv'
  <1>1. /\ cache \in Snapshot \cup {None} /\ now \in Nat
        /\ TTL \in Nat \ {0} /\ MaxCall \in Nat
    BY BoundAssumption DEF IInv, TypeInv, TypeOK
  <1>2. InCall(t)
    BY DEF Reread, InCall
  <1>3. /\ thread[t].since \in Nat /\ now - thread[t].since <= MaxCall
        /\ cache # None => cache.at >= thread[t].since - MaxCall
    BY <1>2 DEF IInv, TypeInv, TypeOK, Locals, LocalInv, ListAge, Reread
  <1>4. cache # None => cache.at \in Int /\ cache.at >= 0 /\ cache.at <= now /\ Shows(cache)
    BY <1>1 DEF IInv, SharedInv
  <1>5. Usable(cache)
    BY <1>1, <1>3, <1>4 DEF Usable
  <1> QED
    BY <1>1, <1>2, <1>5, DeliverStepSafe DEF Reread

(* The empty list of a failed read claims nothing of any second. *)
LEMMA FailGetSafe ==
    ASSUME IInv, TypeInv', NEW t \in Threads, FailGet(t)
    PROVE  IInv'
  <1>1. now \in Nat /\ MaxCall \in Nat /\ store \in Table
    BY BoundAssumption DEF IInv, TypeInv, TypeOK
  <1>2. InCall(t)
    BY DEF FailGet, InCall
  <1>3. FailedList.at = -1
    BY DEF FailedList
  <1>4. Shows(FailedList)
    <2>1. ASSUME NEW p \in Ports, store[p] # None PROVE store[p].created >= -1 - MaxCall
      <3>1. store[p].created \in Nat
        BY <1>1, <2>1 DEF Table, Mapping
      <3> QED
        BY <1>1, <3>1
    <2> QED
      BY <1>3, <2>1 DEF Shows
  <1>5. Usable(FailedList)
    BY <1>1, <1>3, <1>4 DEF Usable
  <1> QED
    BY <1>2, <1>5, FailedListType, DeliverStepSafe DEF FailGet

(* The cleared cache vouches for nothing. *)
LEMMA SharedCleared ==
    ASSUME IInv, TypeInv', store' = store, now' = now, cache' = None, cacheTs' = cacheTs,
           late' = late
    PROVE  SharedInv'
  BY DEF IInv, SharedInv, Shows, Timed, Justified, Expired, Recent

(* A thread goes from K to L, what its request and its loop rest on unchanged: *)
(* only the parts about the list are left to show.                            *)
LEMMA ReadMoves ==
    ASSUME IInv, TypeInv', StoreMoves, CacheMoves, now' = now, NEW t \in Threads,
           NEW L, thread' = [thread EXCEPT ![t] = L],
           L.job = thread[t].job, L.todo = thread[t].todo, L.basis = thread[t].basis,
           L.req = thread[t].req, L.pc \in {"hit", "get", "fill", "stamp", "reread"},
           L.since <= now /\ now - L.since <= MaxCall, ListAge(L)', InFlight(L)'
    PROVE  /\ LocalInv(t)'
           /\ \A u \in Threads \ {t} : thread'[u] = thread[u]
  <1>1. PICK K : K = thread[t]
    OBVIOUS
  <1>2. Holds(K)'
    BY <1>1, HoldsKept
  <1>3. OnWire(L)' /\ Remaining(L)'
    BY <1>1, <1>2 DEF Holds, OnWire, Remaining
  <1>4. Holds(L)'
    BY <1>3 DEF Holds
  <1> QED
    BY <1>4, OwnKept DEF IInv, TypeInv, TypeOK

LEMMA CheckSafe ==
    ASSUME IInv, TypeInv', NEW t \in Threads, Check(t)
    PROVE  IInv'
  <1>0. /\ now \in Nat /\ TTL \in Nat \ {0} /\ MaxCall \in Nat /\ cacheTs \in Int
        /\ thread[t] \in Locals
    BY BoundAssumption DEF IInv, TypeInv, TypeOK
  <1>1. PICK L : L = [thread[t] EXCEPT !.pc = IF Fresh THEN "hit" ELSE "get", !.since = now]
    OBVIOUS
  <1>2. /\ UNCHANGED <<now, store, late, cacheTs>>
        /\ thread' = [thread EXCEPT ![t] = L]
        /\ IF Fresh THEN cache' = cache ELSE cache' = None
    BY <1>1 DEF Check
  <1>3. /\ L.pc = IF Fresh THEN "hit" ELSE "get"
        /\ L.since = now /\ L.job = thread[t].job /\ L.todo = thread[t].todo
        /\ L.basis = thread[t].basis /\ L.req = thread[t].req /\ L.got = thread[t].got
    BY <1>0, <1>1 DEF Locals
  <1>4. StoreMoves /\ CacheMoves /\ SharedInv'
    BY <1>2, StoreStays, SharedKept, SharedCleared DEF CacheMoves
  <1>5. ListAge(L)'
    <2>1. CASE ~Fresh
      BY <1>2, <1>3, <2>1 DEF ListAge
    <2>2. CASE Fresh
      <3>1. cache.at \in Int /\ cache.at >= cacheTs - 2 * MaxCall /\ now - cacheTs < TTL
        BY <1>0, <2>2 DEF Fresh, IInv, SharedInv, TypeInv, TypeOK, Snapshot
      <3>2. cache.at > now - TTL - 2 * MaxCall
        BY <1>0, <3>1
      <3> QED
        BY <1>2, <1>3, <2>2, <3>2 DEF ListAge
    <2> QED
      BY <2>1, <2>2
  <1>6. InFlight(L)'
    <2>1. InFlight(thread[t])
      BY DEF IInv, LocalInv
    <2> QED
      BY <1>2, <1>3, <2>1 DEF InFlight, Shows
  <1>7. L.since <= now /\ now - L.since <= MaxCall
    BY <1>0, <1>3
  <1>8. LocalInv(t)' /\ \A u \in Threads \ {t} : thread'[u] = thread[u]
    BY <1>2, <1>3, <1>4, <1>5, <1>6, <1>7, ReadMoves
  <1> QED
    BY <1>2, <1>4, <1>8, StepSafe

(* The answer is what GOST holds now, after the call began. *)
LEMMA ServeGetSafe ==
    ASSUME IInv, TypeInv', NEW t \in Threads, ServeGet(t)
    PROVE  IInv'
  <1>0. /\ now \in Nat /\ MaxCall \in Nat /\ thread[t] \in Locals
        /\ thread[t].since <= now /\ now - thread[t].since <= MaxCall
    BY BoundAssumption DEF IInv, TypeInv, TypeOK, LocalInv, InCall, ServeGet
  <1>1. PICK X, L : /\ X = [at |-> now, m |-> store]
                    /\ L = [thread[t] EXCEPT !.pc = "fill", !.got = X]
    OBVIOUS
  <1>2. /\ UNCHANGED <<now, store, late, cache, cacheTs>>
        /\ thread' = [thread EXCEPT ![t] = L]
    BY <1>1 DEF ServeGet
  <1>3. /\ L.pc = "fill" /\ L.since = thread[t].since /\ L.job = thread[t].job
        /\ L.todo = thread[t].todo /\ L.basis = thread[t].basis /\ L.req = thread[t].req
        /\ L.got = X /\ X.at = now /\ X.m = store
    BY <1>0, <1>1 DEF Locals
  <1>4. StoreMoves /\ CacheMoves /\ SharedInv'
    BY <1>2, StoreStays, SharedKept DEF CacheMoves
  <1>5. ListAge(L)' /\ InFlight(L)'
    BY <1>0, <1>2, <1>3 DEF ListAge, InFlight, Shows
  <1>8. LocalInv(t)' /\ \A u \in Threads \ {t} : thread'[u] = thread[u]
    BY <1>0, <1>2, <1>3, <1>4, <1>5, ReadMoves
  <1> QED
    BY <1>2, <1>4, <1>8, StepSafe

LEMMA FillSafe ==
    ASSUME IInv, TypeInv', NEW t \in Threads, Fill(t)
    PROVE  IInv'
  <1>0. /\ now \in Nat /\ MaxCall \in Nat /\ thread[t] \in Locals /\ cacheTs \in Int
        /\ thread[t].since \in Nat
        /\ thread[t].since <= now /\ now - thread[t].since <= MaxCall
    BY BoundAssumption DEF IInv, TypeInv, TypeOK, LocalInv, InCall, Fill, Locals
  <1>1. PICK X, L : /\ X = thread[t].got
                    /\ L = [thread[t] EXCEPT !.pc = "stamp", !.got = None]
    OBVIOUS
  <1>2. /\ UNCHANGED <<now, store, late, cacheTs>> /\ cache' = X
        /\ thread' = [thread EXCEPT ![t] = L]
    BY <1>1 DEF Fill
  <1>3. /\ L.pc = "stamp" /\ L.since = thread[t].since /\ L.job = thread[t].job
        /\ L.todo = thread[t].todo /\ L.basis = thread[t].basis /\ L.req = thread[t].req
        /\ L.got = None
    BY <1>0, <1>1 DEF Locals
  <1>4. X # None /\ X.at \in 0..now /\ X.at >= thread[t].since /\ Shows(X)
    BY <1>1 DEF IInv, TypeInv, JobShape, Fits, LocalInv, InFlight, Fill
  <1>5. X.at \in Int /\ X.at >= now - MaxCall /\ X.at >= cacheTs - 2 * MaxCall
    BY <1>0, <1>4 DEF IInv, SharedInv
  <1>6. StoreMoves /\ CacheMoves
    BY <1>2, <1>5, StoreStays DEF CacheMoves
  <1>7. SharedInv'
    BY <1>2, <1>4, <1>5 DEF IInv, SharedInv, Shows, Timed, Justified, Expired, Recent
  <1>8. ListAge(L)' /\ InFlight(L)'
    BY <1>0, <1>2, <1>3, <1>4, <1>5 DEF ListAge, InFlight, Shows
  <1>9. LocalInv(t)' /\ \A u \in Threads \ {t} : thread'[u] = thread[u]
    BY <1>0, <1>2, <1>3, <1>6, <1>8, ReadMoves
  <1> QED
    BY <1>2, <1>6, <1>7, <1>9, StepSafe

(* The stamp is taken at most a call after the list it vouches for was read, or *)
(* after a newer one.                                                        *)
LEMMA StampSafe ==
    ASSUME IInv, TypeInv', NEW t \in Threads, Stamp(t)
    PROVE  IInv'
  <1>0. /\ now \in Nat /\ MaxCall \in Nat /\ thread[t] \in Locals /\ thread[t].since \in Nat
        /\ thread[t].since <= now /\ now - thread[t].since <= MaxCall
    BY BoundAssumption DEF IInv, TypeInv, TypeOK, LocalInv, InCall, Stamp, Locals
  <1>1. PICK L : L = [thread[t] EXCEPT !.pc = "reread"]
    OBVIOUS
  <1>2. /\ UNCHANGED <<now, store, late, cache>> /\ cacheTs' = now
        /\ thread' = [thread EXCEPT ![t] = L]
    BY <1>1 DEF Stamp
  <1>3. /\ L.pc = "reread" /\ L.since = thread[t].since /\ L.job = thread[t].job
        /\ L.todo = thread[t].todo /\ L.basis = thread[t].basis /\ L.req = thread[t].req
        /\ L.got = thread[t].got
    BY <1>0, <1>1 DEF Locals
  <1>4. StoreMoves /\ CacheMoves
    BY <1>2, StoreStays DEF CacheMoves
  <1>5. ListAge(thread[t]) /\ InFlight(thread[t]) /\ thread[t].pc = "stamp"
    BY DEF IInv, LocalInv, Stamp
  <1>6. cache # None => cache.at \in Int /\ cache.at >= now - 2 * MaxCall
    BY <1>0, <1>5 DEF ListAge, IInv, TypeInv, TypeOK, Snapshot
  <1>7. SharedInv'
    BY <1>0, <1>2, <1>6 DEF IInv, SharedInv, Shows, Timed, Justified, Expired, Recent
  <1>8. ListAge(L)' /\ InFlight(L)'
    BY <1>2, <1>3, <1>5 DEF ListAge, InFlight, Shows
  <1>9. LocalInv(t)' /\ \A u \in Threads \ {t} : thread'[u] = thread[u]
    BY <1>0, <1>2, <1>3, <1>4, <1>8, ReadMoves
  <1> QED
    BY <1>2, <1>4, <1>7, <1>9, StepSafe

-----------------------------------------------------------------------------
(* The writes keep the invariant                                            *)

LEMMA WireMoves ==
    ASSUME IInv, TypeInv', StoreMoves, CacheMoves, now' = now, NEW t \in Threads, InCall(t),
           NEW L, thread' = [thread EXCEPT ![t] = L],
           L.since = thread[t].since, L.job = thread[t].job, L.todo = thread[t].todo,
           L.basis = thread[t].basis, L.got = thread[t].got, L.req = thread[t].req,
           \/ L.pc \in {"answered", "clear"}
           \/ L.pc = "call" /\ thread[t].pc = "call"
    PROVE  /\ LocalInv(t)'
           /\ \A u \in Threads \ {t} : thread'[u] = thread[u]
  <1>1. PICK K : K = thread[t]
    OBVIOUS
  <1>2. Holds(K)'
    BY <1>1, HoldsKept
  <1>3. K.pc \notin {"idle", "check", "dead", "popup"}
    BY <1>1 DEF InCall
  <1>4. Holds(L)'
    BY <1>1, <1>2, <1>3, PcMoves
  <1> QED
    BY <1>4, OwnKept DEF IInv, TypeInv, TypeOK

LEMMA ServeSafe ==
    ASSUME IInv, TypeInv', NEW t \in Threads, Serve(t)
    PROVE  IInv'
  <1>0. thread[t] \in Locals /\ thread[t].pc = "call" /\ InCall(t)
    BY DEF IInv, TypeInv, TypeOK, Serve, InCall
  <1>1. thread[t].req \in Request /\ Timed(thread[t].req)
    BY <1>0 DEF IInv, TypeInv, JobShape, Fits, LocalInv, OnWire, Locals
  <1>2. PICK L : L = [thread[t] EXCEPT !.pc = "answered", !.resp = Answer(store, thread[t].req)]
    OBVIOUS
  <1>3. /\ UNCHANGED <<now, late, cache, cacheTs>> /\ store' = After(store, thread[t].req)
        /\ thread' = [thread EXCEPT ![t] = L]
    BY <1>2 DEF Serve
  <1>4. /\ L.since = thread[t].since /\ L.job = thread[t].job /\ L.todo = thread[t].todo
        /\ L.basis = thread[t].basis /\ L.got = thread[t].got /\ L.req = thread[t].req
        /\ L.pc = "answered"
    BY <1>0, <1>2 DEF Locals
  <1>5. StoreMoves
    BY <1>1, <1>3, AfterMoves DEF IInv
  <1>6. CacheMoves /\ SharedInv'
    BY <1>3, <1>5, SharedKept DEF CacheMoves
  <1>7. LocalInv(t)' /\ \A u \in Threads \ {t} : thread'[u] = thread[u]
    BY <1>0, <1>3, <1>4, <1>5, <1>6, WireMoves
  <1> QED
    BY <1>3, <1>5, <1>6, <1>7, StepSafe

(* A lost attempt is sent again, or given up; GOST may serve it later. *)
LEMMA FailSafe ==
    ASSUME IInv, TypeInv', NEW t \in Threads, Fail(t)
    PROVE  IInv'
  <1>0. thread[t] \in Locals /\ thread[t].pc = "call" /\ InCall(t)
    BY DEF IInv, TypeInv, TypeOK, Fail, InCall
  <1>1. Timed(thread[t].req) /\ Justified(thread[t].req)
    BY <1>0 DEF IInv, LocalInv, OnWire
  <1>2. PICK L : L = IF thread[t].tries < Retries
                     THEN [thread[t] EXCEPT !.tries = thread[t].tries + 1]
                     ELSE [thread[t] EXCEPT !.pc = "answered", !.resp = "conn"]
    OBVIOUS
  <1>3. /\ UNCHANGED <<now, store, cache, cacheTs>>
        /\ late' \subseteq late \cup {thread[t].req}
        /\ thread' = [thread EXCEPT ![t] = L]
    BY <1>2 DEF Fail
  <1>4. /\ L.since = thread[t].since /\ L.job = thread[t].job /\ L.todo = thread[t].todo
        /\ L.basis = thread[t].basis /\ L.got = thread[t].got /\ L.req = thread[t].req
        /\ L.pc \in {"call", "answered"}
    BY <1>0, <1>2 DEF Locals
  <1>5. StoreMoves /\ CacheMoves
    BY <1>3, StoreStays DEF CacheMoves
  <1>6. SharedInv'
    <2>1. \A r \in late' : Timed(r) /\ Justified(r)
      BY <1>1, <1>3 DEF IInv, SharedInv
    <2> QED
      BY <1>3, <2>1 DEF IInv, SharedInv, Shows, Timed, Justified, Expired, Recent
  <1>7. LocalInv(t)' /\ \A u \in Threads \ {t} : thread'[u] = thread[u]
    BY <1>0, <1>3, <1>4, <1>5, WireMoves
  <1> QED
    BY <1>3, <1>5, <1>6, <1>7, StepSafe

LEMMA WriteDoneOthers ==
    ASSUME IInv, NEW t \in Threads, WriteDone(t)
    PROVE  \A u \in Threads \ {t} : thread'[u] = thread[u]
  BY DEF WriteDone, Finish, IInv, TypeInv, TypeOK

LEMMA AnsweredSafe ==
    ASSUME IInv, TypeInv', NEW t \in Threads, Answered(t)
    PROVE  IInv'
  <1>0. /\ thread[t] \in Locals /\ InCall(t) /\ UNCHANGED <<now, store, late, cacheTs>>
    BY DEF IInv, TypeInv, TypeOK, Answered, InCall
  <1>1. CASE cache' = None /\ thread' = [thread EXCEPT ![t] = [@ EXCEPT !.pc = "clear"]]
    <2>1. PICK L : L = [thread[t] EXCEPT !.pc = "clear"]
      OBVIOUS
    <2>2. thread' = [thread EXCEPT ![t] = L]
      BY <1>1, <2>1
    <2>3. /\ L.since = thread[t].since /\ L.job = thread[t].job /\ L.todo = thread[t].todo
          /\ L.basis = thread[t].basis /\ L.got = thread[t].got /\ L.req = thread[t].req
          /\ L.pc = "clear"
      BY <1>0, <2>1 DEF Locals
    <2>4. StoreMoves /\ CacheMoves /\ SharedInv'
      BY <1>0, <1>1, StoreStays, SharedCleared DEF CacheMoves
    <2>5. LocalInv(t)' /\ \A u \in Threads \ {t} : thread'[u] = thread[u]
      BY <1>0, <2>2, <2>3, <2>4, WireMoves
    <2> QED
      BY <1>0, <2>4, <2>5, StepSafe
  <1>2. CASE cache' = cache /\ WriteDone(t)
    <2>1. StoreMoves /\ CacheMoves /\ SharedInv'
      BY <1>0, <1>2, StoreStays, SharedKept DEF CacheMoves
    <2>2. LocalInv(t)' /\ \A u \in Threads \ {t} : thread'[u] = thread[u]
      BY <1>0, <1>2, <2>1, WriteDoneSafe, WriteDoneOthers
    <2> QED
      BY <1>0, <2>1, <2>2, StepSafe
  <1> QED
    BY <1>1, <1>2 DEF Answered

LEMMA ClearTsSafe ==
    ASSUME IInv, TypeInv', NEW t \in Threads, ClearTs(t)
    PROVE  IInv'
  <1>0. /\ InCall(t) /\ UNCHANGED <<now, store, late, cache>> /\ WriteDone(t)
        /\ cacheTs' = Never
    BY DEF ClearTs, InCall
  <1>1. Never \in Int /\ Never <= now /\ \A n \in Nat : n >= Never - 2 * MaxCall
    BY BoundAssumption DEF Never, IInv, TypeInv, TypeOK
  <1>2. cache # None => cache.at \in Nat
    BY DEF IInv, SharedInv, TypeInv, TypeOK
  <1>3. StoreMoves /\ CacheMoves
    BY <1>0, StoreStays DEF CacheMoves
  <1>4. SharedInv'
    BY <1>0, <1>1, <1>2 DEF IInv, SharedInv, Shows, Timed, Justified, Expired, Recent
  <1>5. LocalInv(t)' /\ \A u \in Threads \ {t} : thread'[u] = thread[u]
    BY <1>0, <1>3, WriteDoneSafe, WriteDoneOthers
  <1> QED
    BY <1>0, <1>3, <1>4, <1>5, StepSafe

(* The next deletion is as justified as the list of expired mappings still is. *)
LEMMA DeleteNextSafe ==
    ASSUME IInv, TypeInv', NEW t \in Threads, DeleteNext(t)
    PROVE  IInv'
  <1>0. /\ thread[t] \in Locals /\ now \in Nat /\ MaxCall \in Nat
        /\ InCall(t) /\ UNCHANGED <<now, store, late, cache, cacheTs>>
        /\ thread[t].job.kind \in {"expire", "batch"}
    BY BoundAssumption
    DEF IInv, TypeInv, TypeOK, JobShape, Fits, DeleteNext, InCall
  <1>1. PICK p \in thread[t].todo :
           thread' = [thread EXCEPT ![t] =
                       [@ EXCEPT !.pc = "call", !.since = now, !.todo = thread[t].todo \ {p},
                                 !.req = Write("DELETE", p, None, thread[t].basis,
                                               thread[t].job.kind, None)]]
    BY DEF DeleteNext
  <1>2. PICK r, L : /\ r = Write("DELETE", p, None, thread[t].basis, thread[t].job.kind, None)
                    /\ L = [thread[t] EXCEPT !.pc = "call", !.since = now,
                                             !.todo = thread[t].todo \ {p}, !.req = r]
    OBVIOUS
  <1>3. thread' = [thread EXCEPT ![t] = L]
    BY <1>1, <1>2
  <1>4. /\ L.pc = "call" /\ L.since = now /\ L.todo = thread[t].todo \ {p} /\ L.req = r
        /\ L.job = thread[t].job /\ L.basis = thread[t].basis /\ L.got = thread[t].got
    BY <1>0, <1>2 DEF Locals
  <1>5. /\ r.method = "DELETE" /\ r.port = p /\ r.body = None /\ r.built = now
        /\ r.basis = thread[t].basis /\ r.by = thread[t].job.kind
    BY <1>2 DEF Write
  <1>6. /\ InFlight(thread[t]) /\ Remaining(thread[t]) /\ thread[t].pc = "loop"
    BY DEF IInv, LocalInv, DeleteNext
  <1>7. Timed(r)
    BY <1>0, <1>5, <1>6 DEF Timed, Remaining
  <1>8. Justified(r)
    BY <1>0, <1>1, <1>5, <1>6 DEF Justified, Remaining, Recent
  <1>9. Timed(r)' /\ Justified(r)'
    BY <1>0, <1>7, <1>8 DEF Timed, Justified, Expired, Recent
  <1>10. OnWire(L)'
    BY <1>0, <1>4, <1>5, <1>9 DEF OnWire
  <1>11. ListAge(L)' /\ InFlight(L)' /\ Remaining(L)'
    BY <1>0, <1>4, <1>6 DEF ListAge, InFlight, Remaining, Shows, Expired
  <1>12. L.since <= now' /\ now' - L.since <= MaxCall
    BY <1>0, <1>4
  <1>13. LocalInv(t)'
    BY <1>3, <1>10, <1>11, <1>12, OwnKept DEF Holds
  <1>14. StoreMoves /\ CacheMoves /\ SharedInv'
    BY <1>0, StoreStays, SharedKept DEF CacheMoves
  <1>15. \A u \in Threads \ {t} : thread'[u] = thread[u]
    BY <1>3 DEF IInv, TypeInv, TypeOK
  <1> QED
    BY <1>0, <1>13, <1>14, <1>15, StepSafe

LEMMA EndLoopSafe ==
    ASSUME IInv, TypeInv', NEW t \in Threads, EndLoop(t)
    PROVE  IInv'
  <1>0. thread[t] \in Locals /\ InCall(t) /\ UNCHANGED <<now, store, late, cacheTs>>
    BY DEF IInv, TypeInv, TypeOK, EndLoop, InCall
  <1>1. CASE thread[t].job.kind = "batch"
    <2>1. PICK L : L = [thread[t] EXCEPT !.pc = "clear"]
      OBVIOUS
    <2>2. thread' = [thread EXCEPT ![t] = L] /\ cache' = None
      BY <1>1, <2>1 DEF EndLoop
    <2>3. /\ L.since = thread[t].since /\ L.job = thread[t].job /\ L.todo = thread[t].todo
          /\ L.basis = thread[t].basis /\ L.got = thread[t].got /\ L.req = thread[t].req
          /\ L.pc = "clear"
      BY <1>0, <2>1 DEF Locals
    <2>4. StoreMoves /\ CacheMoves /\ SharedInv'
      BY <1>0, <2>2, StoreStays, SharedCleared DEF CacheMoves
    <2>5. LocalInv(t)' /\ \A u \in Threads \ {t} : thread'[u] = thread[u]
      BY <1>0, <2>2, <2>3, <2>4, WireMoves
    <2> QED
      BY <1>0, <2>4, <2>5, StepSafe
  <1>2. CASE thread[t].job.kind # "batch"
    <2>1. PICK L : L = Reading([NoJob EXCEPT !.kind = "reconcile"])
      OBVIOUS
    <2>2. thread' = [thread EXCEPT ![t] = L] /\ cache' = cache
      BY <1>2, <2>1 DEF EndLoop
    <2>3. L.pc = "check" /\ L.got = None /\ L.req = None /\ L.todo = {} /\ L.basis = -1
      BY <2>1 DEF Reading, IdleState
    <2>4. Holds(L)'
      BY <2>3, IdleHolds
    <2>5. LocalInv(t)'
      BY <2>2, <2>4, OwnKept
    <2>6. StoreMoves /\ CacheMoves /\ SharedInv'
      BY <1>0, <2>2, StoreStays, SharedKept DEF CacheMoves
    <2>7. \A u \in Threads \ {t} : thread'[u] = thread[u]
      BY <2>2 DEF IInv, TypeInv, TypeOK
    <2> QED
      BY <1>0, <2>5, <2>6, <2>7, StepSafe
  <1> QED
    BY <1>1, <1>2

-----------------------------------------------------------------------------
(* GOST and the clock keep the invariant                                    *)

(* GOST alone moves: the threads and the cache stay. *)
LEMMA GostSafe ==
    ASSUME IInv, TypeInv', StoreMoves, UNCHANGED <<now, cache, cacheTs, thread>>,
           late' \subseteq late
    PROVE  IInv'
  <1>1. SharedInv' /\ CacheMoves
    BY SharedKept DEF CacheMoves
  <1>2. \A u \in Threads : LocalInv(u)'
    BY <1>1, OthersKept
  <1> QED
    BY <1>1, <1>2 DEF IInv

LEMMA ServeLateSafe ==
    ASSUME IInv, TypeInv', ServeLate
    PROVE  IInv'
  <1>1. PICK r \in late : late' = late \ {r} /\ store' = After(store, r)
    BY DEF ServeLate
  <1>2. r \in Request /\ Timed(r)
    BY DEF IInv, SharedInv, TypeInv, TypeOK
  <1>3. StoreMoves
    BY <1>1, <1>2, AfterMoves DEF IInv
  <1> QED
    BY <1>1, <1>3, GostSafe DEF ServeLate

LEMMA GostRestartSafe ==
    ASSUME IInv, TypeInv', GostRestart
    PROVE  IInv'
  <1>1. StoreMoves
    BY DEF GostRestart, StoreMoves, EmptyTable
  <1> QED
    BY <1>1, GostSafe DEF GostRestart

LEMMA TickSafe ==
    ASSUME IInv, TypeInv', Tick
    PROVE  IInv'
  <1>0. /\ now \in Nat /\ now' = now + 1 /\ MaxCall \in Nat
        /\ UNCHANGED <<store, late, cache, cacheTs, thread>> /\ StoreMoves
    BY BoundAssumption, StoreStays DEF Tick, IInv, TypeInv, TypeOK
  <1>1. SharedInv'
    <2>1. cacheTs \in Int /\ cacheTs' <= now'
      BY <1>0 DEF IInv, SharedInv, TypeInv, TypeOK
    <2>2. cache' # None => cache'.at \in 0..now' /\ cache'.at >= cacheTs' - 2 * MaxCall
      BY <1>0 DEF IInv, SharedInv
    <2>3. Shows(cache)'
      BY <1>0 DEF IInv, SharedInv, Shows
    <2>4. ASSUME NEW r \in late PROVE (Timed(r) /\ Justified(r))'
      <3>1. r \in Request /\ Timed(r) /\ Justified(r) /\ now - r.built < MaxCall
        BY DEF IInv, SharedInv, TypeInv, TypeOK, Tick
      <3>2. r.built \in Nat /\ r.basis \in Int
        BY <3>1 DEF Request
      <3>3. Timed(r)'
        BY <1>0, <3>1, <3>2 DEF Timed
      <3>4. Justified(r)'
        BY <1>0, <3>1, JustifiedKept DEF IInv, Timed
      <3> QED
        BY <3>3, <3>4
    <2> QED
      BY <1>0, <2>1, <2>2, <2>3, <2>4 DEF SharedInv
  <1>2. ASSUME NEW u \in Threads PROVE LocalInv(u)'
    <2>1. PICK L : L = thread[u]
      OBVIOUS
    <2>2. /\ L \in Locals /\ L.since \in Nat /\ Fits(L)
          /\ ListAge(L) /\ InFlight(L) /\ OnWire(L) /\ Remaining(L)
      BY <2>1 DEF IInv, TypeInv, TypeOK, JobShape, Locals, LocalInv
    <2>3. L.pc \notin {"idle", "check", "dead", "popup"} => L.since <= now /\ now - L.since < MaxCall
      BY <2>1 DEF IInv, LocalInv, InCall, Tick
    <2>4. OnWire(L)'
      <3>1. CASE L.pc = "call"
        <4>1. L.req \in Request /\ Timed(L.req) /\ Justified(L.req) /\ L.req.built = L.since
          BY <2>2, <3>1 DEF Fits, OnWire, Locals
        <4>2. Justified(L.req)'
          BY <1>0, <4>1, JustifiedKept DEF IInv, Timed
        <4>3. L.req.basis \in Int
          BY <4>1 DEF Request
        <4>4. Timed(L.req)'
          BY <1>0, <2>2, <2>3, <3>1, <4>1, <4>3 DEF Timed
        <4> QED
          BY <2>2, <3>1, <4>1, <4>2, <4>4 DEF OnWire
      <3>2. CASE L.pc # "call"
        BY <2>2, <3>2 DEF OnWire
      <3> QED
        BY <3>1, <3>2
    <2>5. ListAge(L)' /\ InFlight(L)'
      BY <1>0, <2>2 DEF ListAge, InFlight, Shows
    <2>6. Remaining(L)'
      BY <1>0, <2>2, RemainingKept DEF IInv
    <2>7. Holds(L)'
      BY <1>0, <2>2, <2>3, <2>4, <2>5, <2>6 DEF Holds
    <2> QED
      BY <1>0, <2>1, <2>7 DEF Holds, LocalInv, InCall
  <1> QED
    BY <1>1, <1>2 DEF IInv

LEMMA InitSafe == Init => IInv
  <1> SUFFICES ASSUME Init PROVE IInv
    OBVIOUS
  <1>1. Never <= now
    BY BoundAssumption DEF Never, Init
  <1>2. SharedInv
    BY <1>1 DEF Init, SharedInv, Shows
  <1>3. ASSUME NEW t \in Threads PROVE LocalInv(t)
    <2>1. /\ thread[t].pc = "idle" /\ thread[t].got = None /\ thread[t].req = None
          /\ thread[t].todo = {} /\ thread[t].basis = -1 /\ -1 <= now
      BY DEF Init, IdleState
    <2> QED
      BY <2>1 DEF LocalInv, InCall, ListAge, InFlight, OnWire, Remaining, Shows
  <1> QED
    BY <1>2, <1>3, InitType DEF IInv

LEMMA NextSafe == IInv /\ [Next]_vars => IInv'
  <1> SUFFICES ASSUME IInv, [Next]_vars PROVE IInv'
    OBVIOUS
  <1>0. TypeInv'
    BY NextType DEF IInv
  <1>1. ASSUME NEW t \in Threads, Arrive(t) \/ Step(t) PROVE IInv'
    <2>1. CASE Arrive(t)
      BY <1>0, <2>1, ArriveSafe
    <2>2. CASE Check(t) \/ Hit(t) \/ ServeGet(t) \/ FailGet(t) \/ Fill(t) \/ Stamp(t) \/ Reread(t)
      BY <1>0, <2>2, CheckSafe, HitSafe, ServeGetSafe, FailGetSafe, FillSafe, StampSafe,
         RereadSafe
    <2>3. CASE Serve(t) \/ Fail(t) \/ Answered(t) \/ ClearTs(t) \/ DeleteNext(t) \/ EndLoop(t)
      BY <1>0, <2>3, ServeSafe, FailSafe, AnsweredSafe, ClearTsSafe, DeleteNextSafe,
         EndLoopSafe
    <2> QED
      BY <1>1, <2>1, <2>2, <2>3 DEF Step
  <1>2. CASE ServeLate
    BY <1>0, <1>2, ServeLateSafe
  <1>3. CASE DropLate
    BY <1>0, <1>3, StoreStays, GostSafe DEF DropLate
  <1>4. CASE GostRestart
    BY <1>0, <1>4, GostRestartSafe
  <1>5. CASE Tick
    BY <1>0, <1>5, TickSafe
  <1>6. CASE UNCHANGED vars
    BY <1>0, <1>6, StoreStays, GostSafe DEF vars
  <1> QED
    BY <1>1, <1>2, <1>3, <1>4, <1>5, <1>6 DEF Next

(* The invariant the theorems rest on: who may write what at which moment, how *)
(* old a list is, and what a thread that waits for GOST knows (gost_client,     *)
(* upnp_soap and the cleanup thread).                                        *)
THEOREM Inductive == Spec => []IInv
  BY InitSafe, NextSafe, PTL DEF Spec

-----------------------------------------------------------------------------
(* The theorems                                                             *)

(* However the lines of get_services interleave, a list it may still hand out   *)
(* is less than TTL + 2 * MaxCall seconds old.                                *)
THEOREM CacheAge == Spec => []CacheBounded
  <1>1. IInv => CacheBounded
    <2> SUFFICES ASSUME IInv, Fresh PROVE now - cache.at < TTL + 2 * MaxCall
      BY DEF CacheBounded
    <2>1. /\ cache.at \in Int /\ cache.at >= cacheTs - 2 * MaxCall /\ now - cacheTs < TTL
          /\ cacheTs \in Int /\ now \in Int /\ TTL \in Int /\ MaxCall \in Int
      BY BoundAssumption DEF Fresh, IInv, SharedInv, TypeInv, TypeOK, Snapshot
    <2> QED
      BY <2>1
  <1> QED
    BY <1>1, Inductive, PTL

(* AddPortMapping and DeletePortMapping decide on a list younger than TTL plus  *)
(* three calls, or on the [] of a failed read.                                *)
THEOREM BasisAge == Spec => []FreshBasis
  <1>1. IInv => FreshBasis
    BY DEF FreshBasis, IInv, LocalInv, OnWire
  <1> QED
    BY <1>1, Inductive, PTL

LEMMA PendingJustified ==
    ASSUME IInv, NEW r \in Pending
    PROVE  Justified(r)
  BY DEF Pending, IInv, SharedInv, LocalInv, OnWire

(* A renewal or a SOAP deletion, on its way, retried or late, meets a mapping of *)
(* the client that asked for it, or one newer than the list it was decided on. *)
THEOREM Ownership == Spec => []OwnerOrRace
  <1>1. IInv => OwnerOrRace
    BY PendingJustified DEF OwnerOrRace, Justified
  <1> QED
    BY <1>1, Inductive, PTL

(* The cleanup thread deletes what has expired, or what was created or renewed  *)
(* after the list it works from.                                              *)
THEOREM Expiry == Spec => []ExpiredOrRace
  <1>1. IInv => ExpiredOrRace
    BY PendingJustified DEF ExpiredOrRace, Justified
  <1> QED
    BY <1>1, Inductive, PTL

(* A mapping GOST applies, by the first attempt, a retry or a late copy, counts *)
(* its lease from a second less than a call ago.                              *)
THEOREM LeaseStart == Spec => LeaseFromRequest
  <1> DEFINE Applied == \A p \in Ports : store'[p] # None /\ store'[p] # store[p]
                                            => now - store'[p].created <= MaxCall
  <1>1. ASSUME IInv, NEW r \in Request, Timed(r), store' = After(store, r) PROVE Applied
    <2>1. \A p \in Ports : store'[p] = store[p] \/ store'[p] = r.body
      BY <1>1 DEF After, IInv, TypeInv, TypeOK, Table
    <2>2. r.body # None => now - r.body.created <= MaxCall
      BY <1>1 DEF Timed
    <2> QED
      BY <2>1, <2>2
  <1>2. ASSUME IInv, [Next]_vars PROVE Applied
    <2>1. CASE \E t \in Threads : Serve(t)
      <3>1. PICK t \in Threads : Serve(t)
        BY <2>1
      <3>2. thread[t].req \in Request /\ Timed(thread[t].req)
        BY <1>2, <3>1 DEF Serve, IInv, TypeInv, TypeOK, JobShape, Fits, LocalInv, OnWire, Locals
      <3> QED
        BY <1>1, <1>2, <3>1, <3>2 DEF Serve
    <2>2. CASE ServeLate
      <3>1. PICK r \in late : store' = After(store, r)
        BY <2>2 DEF ServeLate
      <3>2. r \in Request /\ Timed(r)
        BY <1>2 DEF IInv, SharedInv, TypeInv, TypeOK
      <3> QED
        BY <1>1, <1>2, <3>1, <3>2
    <2>3. CASE GostRestart
      BY <2>3 DEF GostRestart, EmptyTable
    <2>4. CASE store' = store
      BY <2>4
    <2>5. ASSUME NEW t \in Threads, Arrive(t) \/ Step(t), ~Serve(t) PROVE store' = store
      BY <2>5 DEF Arrive, ReceiveAdd, ReceiveDelete, BeginList, BeginClean, WebAdd, WebDelete,
         WebDeleteSelected, Confirm, Cancel, Step, Check, Hit, ServeGet, FailGet, Fill, Stamp, Reread, Fail,
         Answered, ClearTs, DeleteNext, EndLoop
    <2>6. DropLate \/ Tick \/ UNCHANGED vars => store' = store
      BY DEF DropLate, Tick, vars
    <2> QED
      BY <1>2, <2>1, <2>2, <2>3, <2>4, <2>5, <2>6 DEF Next
  <1>3. ASSUME IInv, [Next]_vars PROVE [Applied]_vars
    BY <1>2, <1>3
  <1> QED
    BY <1>3, Inductive, PTL DEF Spec, LeaseFromRequest

-----------------------------------------------------------------------------
(* The cleanup misses nothing                                               *)

(* The states of a thread between the list it was handed and the end of its loop. *)
Looping == {"loop", "call", "answered", "clear"}

(* When GOST holds the services s, what had expired before the list of a cleanup *)
(* thread in state L is gone, waits on its list, or is being deleted.           *)
Swept(s, L) ==
    L.job.kind = "expire" /\ L.pc \in Looping =>
        /\ L.pc = "call" => L.req.method = "DELETE" /\ L.req.body = None
        /\ \A p \in Ports : \/ s[p] = None
                            \/ ~Expired(s[p], L.basis - MaxCall)
                            \/ p \in L.todo
                            \/ L.pc = "call" /\ L.req.port = p

SweepInv == \A t \in Threads : Swept(store, thread[t])

(* Every step changes GOST's services as StoreMoves says. *)
LEMMA StepMoves ==
    ASSUME IInv, [Next]_vars
    PROVE  StoreMoves /\ now' >= now /\ TypeInv'
  <1>0. TypeInv /\ TypeInv' /\ now \in Nat
    BY NextType DEF IInv, TypeInv, TypeOK
  <1>1. ASSUME NEW t \in Threads, Serve(t) PROVE StoreMoves
    <2>1. thread[t].req \in Request /\ Timed(thread[t].req)
      BY <1>1 DEF Serve, IInv, TypeInv, TypeOK, JobShape, Fits, LocalInv, OnWire, Locals
    <2> QED
      BY <1>0, <1>1, <2>1, AfterMoves DEF Serve
  <1>2. CASE ServeLate
    <2>1. PICK r \in late : store' = After(store, r)
      BY <1>2 DEF ServeLate
    <2>2. r \in Request /\ Timed(r)
      BY DEF IInv, SharedInv, TypeInv, TypeOK
    <2> QED
      BY <1>0, <1>2, <2>1, <2>2, AfterMoves DEF ServeLate
  <1>3. CASE GostRestart
    BY <1>0, <1>3 DEF GostRestart, StoreMoves, EmptyTable
  <1>4. ASSUME NEW t \in Threads, Arrive(t) \/ Step(t), ~Serve(t)
        PROVE  store' = store /\ now' = now
    BY <1>4 DEF Arrive, ReceiveAdd, ReceiveDelete, BeginList, BeginClean, WebAdd, WebDelete,
       WebDeleteSelected, Confirm, Cancel, Step, Check, Hit, ServeGet, FailGet, Fill, Stamp, Reread,
       Fail, Answered, ClearTs, DeleteNext, EndLoop
  <1>5. DropLate \/ Tick \/ UNCHANGED vars => store' = store /\ now' >= now
    BY <1>0 DEF DropLate, Tick, vars
  <1>6. (\E t \in Threads : Serve(t)) \/ ServeLate \/ GostRestart => now' = now
    BY DEF Serve, ServeLate, GostRestart
  <1> QED
    BY <1>0, <1>1, <1>2, <1>3, <1>4, <1>5, <1>6, StoreStays DEF Next

(* What is written meanwhile is newer than the list. *)
LEMMA SweptKept ==
    ASSUME TypeInv, TypeInv', StoreMoves, NEW L \in Locals, L.basis <= now, Swept(store, L)
    PROVE  Swept(store', L)
  <1>1. L.basis \in Int /\ now \in Int /\ MaxCall \in Int
    BY BoundAssumption DEF Locals, TypeInv, TypeOK
  <1>2. ASSUME NEW p \in Ports, store'[p] # None, store'[p] # store[p]
        PROVE  ~Expired(store'[p], L.basis - MaxCall)
    <2>1. store'[p].created >= now - MaxCall
      BY <1>2 DEF StoreMoves
    <2>2. store'[p].created \in Int /\ store'[p].lease \in Int
      BY <1>2 DEF TypeInv, TypeOK, Table, Mapping
    <2> QED
      BY <1>1, <2>1, <2>2 DEF Expired
  <1> QED
    BY <1>2 DEF Swept

(* The thread moves on within its round; what its step deletes is gone. *)
LEMMA SweptMoves ==
    ASSUME NEW s, NEW K, NEW L, Swept(s, K), K.pc \in Looping,
           L.job = K.job, L.basis = K.basis,
           L.pc = "call" => L.req.method = "DELETE" /\ L.req.body = None,
           \A p \in K.todo : p \in L.todo \/ (L.pc = "call" /\ L.req.port = p),
           K.pc = "call" /\ K.job.kind = "expire" => s[K.req.port] = None
    PROVE  Swept(s, L)
  BY DEF Swept

(* No round is under way in state L. *)
LEMMA SweptIdle ==
    ASSUME NEW s, NEW L, L.pc \notin Looping \/ L.job.kind # "expire"
    PROVE  Swept(s, L)
  BY DEF Swept

(* A list the thread was handed names what had expired a call before it. *)
LEMMA SweptDeliver ==
    ASSUME IInv, NEW t \in Threads, NEW X \in Snapshot \cup {None}, Deliver(t, X),
           X # None => X.at <= now /\ Shows(X), InCall(t), NEW L, L = thread'[t]
    PROVE  Swept(store, L)
  <1> DEFINE j == thread[t].job
  <1>0. /\ now \in Int /\ MaxCall \in Nat /\ thread[t] \in Locals /\ thread[t].since \in Int
        /\ now - thread[t].since <= MaxCall /\ TypeInv /\ store \in Table
    BY BoundAssumption DEF IInv, TypeInv, TypeOK, LocalInv, Locals
  <1>1. CASE X # None /\ j.kind = "expire" /\ CollectExpired(t, X)
    <2> DEFINE found == {p \in Ports : X.m[p] # None /\ Expired(X.m[p], thread[t].since)}
    <2>1. thread' = [thread EXCEPT ![t] = [@ EXCEPT !.pc = "loop", !.todo = found,
                                                    !.basis = X.at, !.got = None]]
      BY <1>1 DEF CollectExpired
    <2> HIDE DEF found
    <2>2. L.pc = "loop" /\ L.todo = found /\ L.basis = X.at
      BY <1>0, <2>1 DEF TypeInv, TypeOK, Locals
    <2>3. X.at \in Int /\ X.m \in Table
      BY <1>1 DEF Snapshot
    <2>4. ASSUME NEW p \in Ports, store[p] # None, Expired(store[p], X.at - MaxCall)
          PROVE  p \in found
      <3>1. store[p].created \in Int /\ store[p].lease \in Int
        BY <1>0, <2>4 DEF Table, Mapping
      <3>2. ~(store[p].created >= X.at - MaxCall)
        BY <1>0, <2>3, <2>4, <3>1 DEF Expired
      <3>3. X.m[p] = store[p]
        BY <1>1, <2>4, <3>2 DEF Shows
      <3>4. Expired(store[p], thread[t].since)
        BY <1>0, <1>1, <2>3, <2>4, <3>1 DEF Expired
      <3> QED
        BY <2>4, <3>3, <3>4 DEF found
    <2> QED
      BY <2>2, <2>4 DEF Swept
  <1>2. CASE \/ Finish(t)
             \/ X = None /\ NoList(t)
    <2>1. L.pc \in {"idle", "dead"}
      BY <1>0, <1>2 DEF NoList, Finish, IdleState, TypeInv, TypeOK
    <2> QED
      BY <2>1, SweptIdle DEF Looping
  <1>3. ASSUME j.kind # "expire", NEW r, Send(t, r) PROVE Swept(store, L)
    <2>1. L.job = j
      BY <1>0, <1>3 DEF Send, TypeInv, TypeOK, Locals
    <2> QED
      BY <1>3, <2>1, SweptIdle
  <1>4. CASE j.kind = "batch" /\ DeleteSelected(t, X)
    <2>1. ASSUME NEW rows, thread' = [thread EXCEPT ![t] = [@ EXCEPT !.pc = "popup", !.todo = rows,
                                                                     !.got = None]]
          PROVE  L.pc \in {"idle", "popup"}
      BY <1>0, <2>1 DEF TypeInv, TypeOK, Locals
    <2>2. Finish(t) => L.pc \in {"idle", "popup"}
      BY <1>0 DEF Finish, IdleState, TypeInv, TypeOK
    <2>3. L.pc \in {"idle", "popup"}
      BY <1>4, <2>1, <2>2 DEF DeleteSelected
    <2> QED
      BY <2>3, SweptIdle DEF Looping
  <1>5. j.kind = "add" /\ AddPortMapping(t, X) => Finish(t) \/ \E r : Send(t, r)
    BY DEF AddPortMapping
  <1>6. j.kind = "delete" /\ DeletePortMapping(t, X) => Finish(t) \/ \E r : Send(t, r)
    BY DEF DeletePortMapping
  <1> QED
    BY <1>1, <1>2, <1>3, <1>4, <1>5, <1>6 DEF Deliver

(* A job that begins, a confirmed deletion of rows and a closed popup are no round. *)
LEMMA SweptArrive ==
    ASSUME IInv, NEW t \in Threads, Arrive(t), NEW L, L = thread'[t]
    PROVE  Swept(store', L)
  <1>0. thread \in [Threads -> Locals] /\ Fits(thread[t])
    BY DEF IInv, TypeInv, TypeOK, JobShape
  <1>1. CASE ReceiveAdd(t) \/ ReceiveDelete(t) \/ BeginList(t) \/ BeginClean(t)
             \/ WebDeleteSelected(t)
    <2>1. L.pc = "check"
      BY <1>0, <1>1 DEF ReceiveAdd, ReceiveDelete, BeginList, BeginClean, WebDeleteSelected,
         Begin, Start, Reading, IdleState
    <2> QED
      BY <2>1, SweptIdle DEF Looping
  <1>2. CASE WebAdd(t) \/ WebDelete(t)
    <2>1. PICK r : Begin(t, Writing(r))
      BY <1>2 DEF WebAdd, WebDelete
    <2>2. L = Writing(r)
      BY <1>0, <2>1 DEF Begin, Start
    <2>3. L.job.kind = "web"
      BY <2>2 DEF Writing, NoJob, IdleState
    <2> QED
      BY <2>3, SweptIdle
  <1>3. CASE Confirm(t)
    <2>1. L.job = thread[t].job /\ thread[t].pc = "popup"
      BY <1>0, <1>3 DEF Confirm, Start, Locals
    <2>2. thread[t].job.kind = "batch"
      BY <1>0, <2>1 DEF Fits
    <2> QED
      BY <2>1, <2>2, SweptIdle
  <1>4. CASE Cancel(t)
    <2>1. L.pc = "idle"
      BY <1>0, <1>4 DEF Cancel, Finish, IdleState
    <2> QED
      BY <2>1, SweptIdle DEF Looping
  <1> QED
    BY <1>1, <1>2, <1>3, <1>4 DEF Arrive

(* The lines of get_services. *)
LEMMA SweptRead ==
    ASSUME IInv, NEW t \in Threads, NEW L, L = thread'[t],
           \/ Check(t) \/ Hit(t) \/ ServeGet(t) \/ FailGet(t) \/ Fill(t) \/ Stamp(t) \/ Reread(t)
    PROVE  Swept(store', L)
  <1>0. /\ thread \in [Threads -> Locals] /\ now \in Nat /\ MaxCall \in Nat /\ store \in Table
        /\ store' = store
    BY BoundAssumption DEF IInv, TypeInv, TypeOK, Check, Hit, ServeGet, FailGet, Fill, Stamp, Reread
  <1>1. CASE Check(t) \/ ServeGet(t) \/ Fill(t) \/ Stamp(t)
    <2>1. L.pc \in {"hit", "get", "fill", "stamp", "reread"}
      BY <1>0, <1>1 DEF Check, ServeGet, Fill, Stamp, Locals
    <2> QED
      BY <2>1, SweptIdle DEF Looping
  <1>2. CASE Hit(t) \/ Reread(t)
    <2>1. /\ Deliver(t, cache) /\ cache \in Snapshot \cup {None} /\ InCall(t)
          /\ cache # None => cache.at <= now /\ Shows(cache)
      BY <1>2 DEF Hit, Reread, InCall, IInv, SharedInv, TypeInv, TypeOK
    <2> QED
      BY <1>0, <2>1, SweptDeliver
  <1>3. CASE FailGet(t)
    <2>1. FailedList \in Snapshot \cup {None} /\ FailedList.at = -1
      BY FailedListType DEF FailedList
    <2>2. ASSUME NEW p \in Ports, store[p] # None PROVE store[p].created >= -1 - MaxCall
      <3>1. store[p].created \in Nat
        BY <1>0, <2>2 DEF Table, Mapping
      <3> QED
        BY <1>0, <3>1
    <2>3. FailedList.at <= now /\ Shows(FailedList)
      BY <1>0, <2>1, <2>2 DEF Shows
    <2>4. InCall(t) /\ Deliver(t, FailedList)
      BY <1>3 DEF FailGet, InCall
    <2> QED
      BY <1>0, <2>1, <2>3, <2>4, SweptDeliver
  <1> QED
    BY <1>1, <1>2, <1>3

(* GOST serves the deletion: the mapping is gone. *)
LEMMA SweptServe ==
    ASSUME IInv, NEW t \in Threads, Serve(t), NEW K, K = thread[t], NEW L, L = thread'[t],
           Swept(store, K), Swept(store', K)
    PROVE  Swept(store', L)
  <1>1. /\ K \in Locals /\ Fits(K) /\ K.pc = "call" /\ store' = After(store, K.req)
        /\ L = [K EXCEPT !.pc = "answered", !.resp = Answer(store, K.req)]
        /\ store \in [Ports -> Mapping \cup {None}]
    BY DEF Serve, IInv, TypeInv, TypeOK, JobShape, Table
  <1>2. L.pc = "answered" /\ L.job = K.job /\ L.basis = K.basis /\ L.todo = K.todo
    BY <1>1 DEF Locals
  <1>3. ASSUME K.job.kind = "expire" PROVE store'[K.req.port] = None
    <2>1. K.req.method = "DELETE" /\ K.req.body = None
      BY <1>1, <1>3 DEF Swept, Looping
    <2>2. K.req.port \in Ports
      BY <1>1 DEF Fits, Locals, Request
    <2> QED
      BY <1>1, <2>1, <2>2 DEF After, Applies
  <1> QED
    BY <1>1, <1>2, <1>3, SweptMoves DEF Looping

(* The rest of the round: an answer, the next deletion, the end. *)
LEMMA SweptGoesOn ==
    ASSUME IInv, NEW t \in Threads, NEW K, K = thread[t], NEW L, L = thread'[t],
           Answered(t) \/ ClearTs(t) \/ DeleteNext(t) \/ EndLoop(t), Swept(store, K)
    PROVE  Swept(store', L)
  <1>0. /\ thread \in [Threads -> Locals] /\ K \in Locals /\ store' = store
        /\ K.pc \in {"answered", "clear", "loop"}
    BY DEF IInv, TypeInv, TypeOK, Answered, ClearTs, DeleteNext, EndLoop
  <1>1. CASE Answered(t) \/ ClearTs(t)
    <2>1. \/ L = [K EXCEPT !.pc = "clear"]
          \/ L = [K EXCEPT !.pc = "loop", !.req = None, !.resp = "none", !.tries = 0]
          \/ L = IdleState
      BY <1>0, <1>1 DEF Answered, ClearTs, WriteDone, Finish
    <2>2. CASE \/ L = [K EXCEPT !.pc = "clear"]
               \/ L = [K EXCEPT !.pc = "loop", !.req = None, !.resp = "none", !.tries = 0]
      <3>1. L.pc \in {"clear", "loop"} /\ L.job = K.job /\ L.basis = K.basis /\ L.todo = K.todo
        BY <1>0, <2>2 DEF Locals
      <3> QED
        BY <1>0, <3>1, SweptMoves DEF Looping
    <2>3. CASE L = IdleState
      <3>1. L.pc = "idle"
        BY <2>3 DEF IdleState
      <3> QED
        BY <3>1, SweptIdle DEF Looping
    <2> QED
      BY <2>1, <2>2, <2>3
  <1>2. CASE DeleteNext(t)
    <2>1. PICK p \in K.todo :
             L = [K EXCEPT !.pc = "call", !.since = now, !.todo = K.todo \ {p},
                           !.req = Write("DELETE", p, None, K.basis, K.job.kind, None)]
      BY <1>0, <1>2 DEF DeleteNext
    <2>2. PICK r : r = Write("DELETE", p, None, K.basis, K.job.kind, None)
      OBVIOUS
    <2>3. r.port = p /\ r.method = "DELETE" /\ r.body = None
      BY <2>2 DEF Write
    <2>4. L.pc = "call" /\ L.job = K.job /\ L.basis = K.basis /\ L.todo = K.todo \ {p} /\ L.req = r
      BY <1>0, <2>1, <2>2 DEF Locals
    <2>5. K.pc = "loop"
      BY <1>2 DEF DeleteNext
    <2> QED
      BY <1>0, <2>3, <2>4, <2>5, SweptMoves DEF Looping
  <1>3. CASE EndLoop(t)
    <2>1. CASE K.job.kind = "batch"
      <3>1. L = [K EXCEPT !.pc = "clear"]
        BY <1>0, <1>3, <2>1 DEF EndLoop
      <3>2. L.job = K.job
        BY <1>0, <3>1 DEF Locals
      <3> QED
        BY <2>1, <3>2, SweptIdle
    <2>2. CASE K.job.kind # "batch"
      <3>1. L = Reading([NoJob EXCEPT !.kind = "reconcile"])
        BY <1>0, <1>3, <2>2 DEF EndLoop
      <3>2. L.pc = "check"
        BY <3>1 DEF Reading, IdleState
      <3> QED
        BY <3>2, SweptIdle DEF Looping
    <2> QED
      BY <2>1, <2>2
  <1> QED
    BY <1>1, <1>2, <1>3

LEMMA SweepNext ==
    ASSUME IInv, SweepInv, ~WritesFail, [Next]_vars
    PROVE  SweepInv'
  <1>1. TypeInv /\ TypeInv' /\ StoreMoves
    BY StepMoves DEF IInv
  <1>2. ASSUME NEW u \in Threads, NEW K, K = thread[u] PROVE Swept(store, K) /\ Swept(store', K)
    <2>1. K \in Locals /\ K.basis <= now /\ Swept(store, K)
      BY <1>2 DEF IInv, TypeInv, TypeOK, LocalInv, Remaining, SweepInv
    <2> QED
      BY <1>1, <2>1, SweptKept
  <1>3. ASSUME NEW u \in Threads, NEW L, L = thread'[u] PROVE Swept(store', L)
    <2>1. PICK K : K = thread[u]
      OBVIOUS
    <2>2. Swept(store, K) /\ Swept(store', K)
      BY <1>2, <2>1
    <2>3. CASE L = K
      BY <2>2, <2>3
    <2>4. CASE L # K
      <3>1. Arrive(u) \/ Step(u)
        BY <1>3, <2>1, <2>4, OneMoves DEF IInv
      <3>2. ~Fail(u)
        BY DEF Fail
      <3> QED
        BY <1>3, <2>1, <2>2, <3>1, <3>2, SweptArrive, SweptRead, SweptServe, SweptGoesOn DEF Step
    <2> QED
      BY <2>3, <2>4
  <1> QED
    BY <1>3 DEF SweepInv

(* A round of the cleanup whose deletions are not lost leaves GOST without any    *)
(* mapping that had expired a call before its list, whoever wrote meanwhile.    *)
THEOREM CleanupComplete == Spec => []CleanedUp
  <1>1. CASE WritesFail
    <2>1. CleanedUp
      BY <1>1 DEF CleanedUp
    <2> QED
      BY <2>1, PTL
  <1>2. CASE ~WritesFail
    <2>1. Init => SweepInv
      BY DEF Init, SweepInv, Swept, Looping, IdleState
    <2>2. IInv /\ SweepInv /\ [Next]_vars => SweepInv'
      BY <1>2, SweepNext
    <2>3. SweepInv => CleanedUp
      BY DEF CleanedUp, SweepInv, Swept, Looping
    <2> QED
      BY <2>1, <2>2, <2>3, Inductive, PTL DEF Spec
  <1> QED
    BY <1>1, <1>2

=============================================================================
