---------------------------- MODULE SpeedProofs ----------------------------
(***************************************************************************)
(* Proofs about SpeedTracker: for any services, threads, traffic and times,   *)
(* what is shown of a service is no more than what passed, and the bytes and   *)
(* the time of a speed do not drift apart.                                   *)
(***************************************************************************)
EXTENDS SpeedTracker, TLAPS

(* The later of two counts: more may have passed than was counted, not less. *)
Follows(b, p, c, q) == p <= q /\ c - b <= q - p

FollowsNow(L, n) == Follows(L.bytes[n], L.passed[n], bytes[n], passed[n])
FollowsSnap(L, n) ==
    snap[n].has => Follows(snap[n].bytes, snap[n].passed, L.bytes[n], L.passed[n])

(* A count is between the snapshot and what GOST has. *)
InOrder(L) == \A n \in L.has : FollowsNow(L, n) /\ FollowsSnap(L, n)

-----------------------------------------------------------------------------
(* Times: a list is never older than a cached one may be, and two calls.      *)

CacheAge == cache.valid =>
    /\ cache.list.at <= cache.ts /\ cache.ts <= cache.list.at + MaxCall
    /\ cache.ts <= now

SnapAge == \A n \in Names : snap[n].has =>
    /\ snap[n].at <= snap[n].stamp
    /\ snap[n].stamp < snap[n].at + TTL + 2 * MaxCall

CallAge(r) ==
    LET c == reader[r]
    IN  /\ c.pc # "idle" => c.begun <= now /\ now <= c.begun + MaxCall
        /\ c.pc = "keep" => c.begun <= c.list.at /\ c.list.at <= now
        /\ c.pc = "return" /\ cache.valid => c.begun <= cache.ts
        /\ c.pc \in {"idle", "ask"} => c.list = NoList
        /\ c.pc = "stamp" /\ c.list.has # {} =>
               c.list.at <= now /\ c.begun < c.list.at + TTL + MaxCall
        /\ c.pc \in {"update", "store"} /\ c.todo # {} =>
               c.list.at <= c.stamp /\ c.stamp < c.list.at + TTL + 2 * MaxCall
        /\ c.todo \subseteq c.list.has /\ c.cur \subseteq c.todo
        /\ c.pc \notin {"update", "store"} => c.todo = {}
        /\ c.pc # "store" => c.cur = {}
        /\ \A m, n \in c.cur : m = n

Age == CacheAge /\ SnapAge /\ \A r \in Readers : CallAge(r)

-----------------------------------------------------------------------------
(* Counts: without overlapping calls, every count follows the one before.     *)

Single == \A r, q \in Readers : reader[r].pc # "idle" /\ reader[q].pc # "idle" => r = q

CallOrder(r) ==
    LET c == reader[r]
    IN  /\ c.pc \in {"ask", "keep"} => ~cache.valid
        /\ InOrder(c.list)
        /\ cache.valid => \A n \in c.list.has :
               Follows(c.list.bytes[n], c.list.passed[n],
                       cache.list.bytes[n], cache.list.passed[n])

Storing(n) == \E r \in Readers : n \in reader[r].cur

SnapOrder(n) ==
    /\ snap[n].has => Follows(snap[n].bytes, snap[n].passed, bytes[n], passed[n])
    /\ ~snap[n].has => reported[n] = 0
    /\ snap[n].has /\ ~Storing(n) => reported[n] <= snap[n].passed
    /\ \A r \in Readers : n \in reader[r].cur => reported[n] <= reader[r].list.passed[n]

Order == ~overlapped =>
    /\ Single
    /\ cache.valid => InOrder(cache.list)
    /\ \A r \in Readers : CallOrder(r)
    /\ \A n \in Names : SnapOrder(n)

IInv == TypeOK /\ Age /\ Order

-----------------------------------------------------------------------------
LEMMA NoneType ==
    /\ NoList \in List
    /\ NoCache \in [valid : BOOLEAN, ts : Nat, list : List]
    /\ NoCall \in Reader
<1>1. NoList \in List
  BY DEF NoList, List
<1> QED BY <1>1 DEF NoCache, NoCall, Reader

LEMMA InitType == Init => TypeOK
<1>1. [has |-> FALSE, bytes |-> 0, passed |-> 0, at |-> 0, stamp |-> 0] \in Snapshot
  BY DEF Snapshot
<1>2. Init => cache \in [valid : BOOLEAN, ts : Nat, list : List]
  BY NoneType DEF Init
<1>3. Init => snap \in [Names -> Snapshot]
  BY <1>1 DEF Init
<1>4. Init => reader \in [Readers -> Reader]
  BY NoneType DEF Init
<1>5. Init => now \in Nat /\ changes \in 0..MaxChanges /\ lastTime \in Nat
  BY TimesAssumption DEF Init
<1>7. Init => mapped \in SUBSET Names /\ overlapped \in BOOLEAN
  BY DEF Init
<1>6. Init => bytes \in [Names -> Nat] /\ passed \in [Names -> Nat] /\ reported \in [Names -> Nat]
  BY DEF Init
<1> QED BY <1>2, <1>3, <1>4, <1>5, <1>6, <1>7 DEF TypeOK

(* A call leaves the other calls, GOST and the clock alone. *)
LEMMA CallFrame ==
    ASSUME TypeOK, NEW r \in Readers, Call(r)
    PROVE  /\ UNCHANGED env
           /\ \A q \in Readers \ {r} : reader'[q] = reader[q]
<1>1. CASE Begin(r) \/ Ask(r) \/ AskFails(r) \/ Keep(r)
  BY <1>1 DEF TypeOK, Begin, Ask, AskFails, Keep, env
<1>2. CASE Return(r) \/ Stamp(r) \/ Finish(r)
  BY <1>2 DEF TypeOK, Return, Stamp, Finish, env
<1>3. CASE \E n \in Names : Measure(r, n) \/ Store(r, n)
  BY <1>3 DEF TypeOK, Measure, Store, env
<1> QED BY <1>1, <1>2, <1>3 DEF Call

(* The types of a call's state after each of its steps. *)
LEMMA CallType ==
    ASSUME TypeOK, NEW r \in Readers, Call(r)
    PROVE  TypeOK'
<1> USE TimesAssumption DEF TypeOK, env, tracker
<1>0. NoCall \in Reader /\ NoList \in List /\ NoCache \in [valid : BOOLEAN, ts : Nat, list : List]
  BY NoneType
<1>1. reader[r] \in Reader
  OBVIOUS
<1>2. CASE Begin(r)
  BY <1>0, <1>1, <1>2 DEF Begin, Reader
<1>3. CASE Ask(r)
  <2>1. [at |-> now, has |-> mapped, bytes |-> bytes, passed |-> passed] \in List
    BY DEF List
  <2> QED BY <1>1, <1>3, <2>1 DEF Ask, Reader
<1>4. CASE AskFails(r)
  BY <1>1, <1>4 DEF AskFails, Reader
<1>5. CASE Keep(r)
  BY <1>0, <1>1, <1>5 DEF Keep, Reader
<1>6. CASE Return(r)
  BY <1>0, <1>1, <1>6 DEF Return, Reader
<1>7. CASE Stamp(r)
  <2>1. Elapsed \in Int /\ reader[r].list.has \in SUBSET Names
    BY <1>1 DEF Elapsed, Reader, List
  <2> QED BY <1>1, <1>7, <2>1 DEF Stamp, Reader
<1>8. ASSUME NEW n \in Names, Measure(r, n)
      PROVE  TypeOK'
  <2>1. Counted(reader[r].list.bytes[n], snap[n].bytes) \in Nat
    BY <1>1 DEF Counted, Reader, List, Snapshot
  <2>2. reported' \in [Names -> Nat]
    BY <1>8, <2>1 DEF Measure
  <2> QED BY <1>1, <1>8, <2>2 DEF Measure, Reader
<1>9. ASSUME NEW n \in Names, Store(r, n)
      PROVE  TypeOK'
  <2>1. [has |-> TRUE, bytes |-> reader[r].list.bytes[n],
         passed |-> reader[r].list.passed[n],
         at |-> reader[r].list.at, stamp |-> reader[r].stamp] \in Snapshot
    BY <1>1 DEF Snapshot, Reader, List
  <2> QED BY <1>1, <1>9, <2>1 DEF Store, Reader
<1>10. CASE Finish(r)
  BY <1>0, <1>1, <1>10 DEF Finish, Reader
<1> QED BY <1>2, <1>3, <1>4, <1>5, <1>6, <1>7, <1>8, <1>9, <1>10 DEF Call

LEMMA NextType == TypeOK /\ [Next]_vars => TypeOK'
<1> SUFFICES ASSUME TypeOK, [Next]_vars PROVE TypeOK'
  OBVIOUS
<1>1. CASE Tick
  <2>1. ASSUME NEW t \in [Names -> Traffic]
        PROVE  \A f \in [Names -> Nat] :
                  [n \in Names |-> f[n] + IF n \in mapped THEN t[n] ELSE 0] \in [Names -> Nat]
    <3>1. \A n \in Names : t[n] \in Nat
      BY TrafficAssumption
    <3> QED BY <3>1
  <2> QED BY <1>1, <2>1 DEF Tick, TypeOK, tracker
<1>2. CASE GostChanges
  BY <1>2, TimesAssumption DEF GostChanges, AnotherChange, TypeOK, tracker
<1>3. CASE GostRestarts
  BY <1>3, TimesAssumption DEF GostRestarts, AnotherChange, TypeOK, tracker
<1>4. CASE Invalidate
  BY <1>4, TimesAssumption DEF Invalidate, AnotherChange, TypeOK, tracker, NoCache, NoList, List
<1>5. CASE UNCHANGED vars
  BY <1>5 DEF vars, env, tracker, TypeOK
<1> QED BY <1>1, <1>2, <1>3, <1>4, <1>5, CallType DEF Next

(* The speeds are never negative, for any counters and any threads. *)
THEOREM TypeCorrect == Spec => []TypeOK
BY InitType, NextType, PTL DEF Spec

-----------------------------------------------------------------------------
(* Age                                                                      *)

LEMMA InitAge == Init => Age
<1> SUFFICES ASSUME Init PROVE Age
  OBVIOUS
<1>1. \A r \in Readers : CallAge(r)
  BY DEF Init, CallAge, NoCall, NoList
<1>2. ~cache.valid /\ \A n \in Names : ~snap[n].has
  BY DEF Init, NoCache
<1> QED BY <1>1, <1>2 DEF Age, CacheAge, SnapAge

(* What a step of a call does to the call itself. *)
LEMMA OwnAge ==
    ASSUME TypeOK, Age, NEW r \in Readers, Call(r)
    PROVE  CacheAge' /\ SnapAge' /\ CallAge(r)'
<1> USE TimesAssumption DEF Age, CacheAge, SnapAge, TypeOK, env, tracker
<1>1. CallAge(r) /\ reader[r] \in Reader /\ cache.list \in List
  OBVIOUS
<1>2. CASE Begin(r)
  <2>1. CASE Fresh
    <3>1. reader' = [reader EXCEPT ![r].pc = "stamp", ![r].begun = now, ![r].list = cache.list]
      BY <1>2, <2>1 DEF Begin
    <3>2. /\ cache.valid /\ now - cache.ts < TTL /\ reader[r].pc = "idle"
          /\ UNCHANGED <<now, cache, snap>>
      BY <1>2, <2>1 DEF Begin, Fresh
    <3>3. /\ reader'[r].pc = "stamp" /\ reader'[r].begun = now /\ reader'[r].list = cache.list
          /\ reader'[r].todo = reader[r].todo /\ reader'[r].cur = reader[r].cur
      BY <1>1, <3>1 DEF Reader
    <3> QED BY <1>1, <3>2, <3>3 DEF CallAge, List
  <2>2. CASE ~Fresh
    <3>1. reader' = [reader EXCEPT ![r].pc = "ask", ![r].begun = now]
      BY <1>2, <2>2 DEF Begin
    <3>2. ~cache'.valid /\ reader[r].pc = "idle" /\ UNCHANGED <<now, snap>>
      BY <1>2, <2>2 DEF Begin, NoCache
    <3>3. /\ reader'[r].pc = "ask" /\ reader'[r].begun = now
          /\ reader'[r].list = reader[r].list
          /\ reader'[r].todo = reader[r].todo /\ reader'[r].cur = reader[r].cur
      BY <1>1, <3>1 DEF Reader
    <3> QED BY <1>1, <3>2, <3>3 DEF CallAge
  <2> QED BY <2>1, <2>2
<1>3. CASE Ask(r)
  BY <1>1, <1>3 DEF Ask, CallAge, Reader
<1>4. CASE AskFails(r)
  BY <1>1, <1>4 DEF AskFails, CallAge, Reader, NoList
<1>5. CASE Keep(r)
  BY <1>1, <1>5 DEF Keep, CallAge, Reader, List, NoList
<1>6. CASE Return(r)
  <2>1. UNCHANGED <<cache, snap, now>> /\ reader[r].pc = "return"
    BY <1>6 DEF Return
  <2>2. CASE cache.valid
    <3>1. reader' = [reader EXCEPT ![r].pc = "stamp", ![r].list = cache.list]
      BY <1>6, <2>2 DEF Return
    <3>2. /\ reader'[r].pc = "stamp" /\ reader'[r].begun = reader[r].begun
          /\ reader'[r].list = cache.list
          /\ reader'[r].todo = reader[r].todo /\ reader'[r].cur = reader[r].cur
      BY <1>1, <3>1 DEF Reader
    <3>3. /\ cache.list.at \in Nat /\ cache.ts \in Nat /\ reader[r].begun \in Nat
          /\ reader[r].begun <= cache.ts /\ reader[r].begun <= now /\ now <= reader[r].begun + MaxCall
          /\ reader[r].todo = {} /\ reader[r].cur = {}
      BY <1>1, <2>1, <2>2 DEF CallAge, List, Reader
    <3>4. CacheAge' /\ SnapAge'
      BY <2>1
    <3>5. cache.list.at <= now /\ reader[r].begun < cache.list.at + TTL + MaxCall
      BY <2>2, <3>3
    <3>6. CallAge(r)'
      BY <2>1, <3>2, <3>3, <3>5 DEF CallAge
    <3> QED BY <3>4, <3>6
  <2>3. CASE ~cache.valid
    <3>1. reader'[r] = NoCall
      BY <1>6, <2>3 DEF Return
    <3> QED BY <2>1, <3>1 DEF CallAge, NoCall
  <2> QED BY <2>2, <2>3
<1>7. CASE Stamp(r)
  BY <1>1, <1>7 DEF Stamp, CallAge, Reader, List
<1>8. ASSUME NEW n \in Names, Measure(r, n)
      PROVE  CacheAge' /\ SnapAge' /\ CallAge(r)'
  BY <1>1, <1>8 DEF Measure, CallAge, Reader
<1>9. ASSUME NEW n \in Names, Store(r, n)
      PROVE  CacheAge' /\ SnapAge' /\ CallAge(r)'
  BY <1>1, <1>9 DEF Store, CallAge, Reader, List, Snapshot
<1>10. CASE Finish(r)
  BY <1>1, <1>10 DEF Finish, CallAge, NoCall, NoList, Reader
<1> QED BY <1>2, <1>3, <1>4, <1>5, <1>6, <1>7, <1>8, <1>9, <1>10 DEF Call

(* A cache that another call fills is no older than this call. *)
LEMMA OtherAge ==
    ASSUME TypeOK, Age, NEW r \in Readers, Call(r), NEW q \in Readers \ {r}
    PROVE  CallAge(q)'
<1> USE DEF Age, TypeOK
<1>1. reader'[q] = reader[q] /\ now' = now /\ CallAge(q) /\ reader[q] \in Reader
  BY CallFrame DEF env
<1>2. cache'.valid => cache'.ts = now \/ (cache.valid /\ cache'.ts = cache.ts)
  <2>1. CASE Begin(r) \/ Keep(r)
    BY <2>1 DEF Begin, Keep, NoCache
  <2>2. CASE Call(r) /\ ~Begin(r) /\ ~Keep(r)
    BY <2>2 DEF Call, Ask, AskFails, Return, Stamp, Finish, Measure, Store
  <2> QED BY <2>1, <2>2
<1> QED BY <1>1, <1>2 DEF CallAge, Reader

LEMMA NextAge == TypeOK /\ Age /\ [Next]_vars => Age'
<1> SUFFICES ASSUME TypeOK, Age, [Next]_vars PROVE Age'
  OBVIOUS
<1> USE TimesAssumption DEF TypeOK, Age, tracker
<1>1. CASE Tick
  <2>1. CacheAge' /\ SnapAge'
    BY <1>1 DEF Tick, CacheAge, SnapAge
  <2>2. ASSUME NEW r \in Readers PROVE CallAge(r)'
    BY <1>1 DEF Tick, CallAge, Reader, List
  <2> QED BY <2>1, <2>2
<1>2. CASE UNCHANGED <<now, cache, snap, reader>>
  BY <1>2 DEF CacheAge, SnapAge, CallAge
<1>3. CASE GostChanges \/ GostRestarts
  BY <1>2, <1>3 DEF GostChanges, GostRestarts
<1>4. CASE Invalidate
  BY <1>4 DEF Invalidate, NoCache, CacheAge, SnapAge, CallAge
<1>5. CASE UNCHANGED vars
  BY <1>2, <1>5 DEF vars, env
<1> QED BY <1>1, <1>3, <1>4, <1>5, OwnAge, OtherAge DEF Next

(* No speed is for bytes of a much longer time than it is divided by, for any  *)
(* threads that update the tracker in any order.                             *)
THEOREM SpanIsBounded == Spec => []SpanBounded
<1>1. TypeOK /\ Age => SpanBounded
  <2> SUFFICES ASSUME TypeOK, Age, NEW r \in Readers, NEW n \in reader[r].todo,
                      reader[r].pc = "update", snap[n].has,
                      snap[n].stamp = reader[r].stamp - reader[r].elapsed
               PROVE  reader[r].list.at - snap[n].at < reader[r].elapsed + TTL + 2 * MaxCall
    BY DEF SpanBounded
  <2>1. n \in Names /\ reader[r] \in Reader /\ reader[r].list \in List /\ snap[n] \in Snapshot
    BY DEF TypeOK, Reader
  <2>2. reader[r].list.at <= reader[r].stamp
    BY DEF Age, CallAge
  <2>3. snap[n].stamp < snap[n].at + TTL + 2 * MaxCall
    BY <2>1 DEF Age, SnapAge
  <2> QED BY <2>1, <2>2, <2>3, TimesAssumption DEF Reader, List, Snapshot
<1>2. TypeOK /\ Age /\ [Next]_vars => (TypeOK /\ Age)'
  BY NextType, NextAge
<1> QED BY <1>1, <1>2, InitType, InitAge, PTL DEF Spec

-----------------------------------------------------------------------------
(* Order                                                                    *)

LEMMA InitOrder == Init => Order
<1> SUFFICES ASSUME Init PROVE Order
  OBVIOUS
<1>1. \A r \in Readers : reader[r].pc = "idle" /\ reader[r].list.has = {} /\ reader[r].cur = {}
  BY DEF Init, NoCall, NoList
<1>2. ~cache.valid /\ \A n \in Names : ~snap[n].has /\ reported[n] = 0
  BY DEF Init, NoCache
<1> QED BY <1>1, <1>2 DEF Order, Single, CallOrder, InOrder, SnapOrder

(* What GOST and its clients do: counters are set back, or grow with what      *)
(* passes.                                                                   *)
LEMMA GostOrder ==
    ASSUME TypeOK, TypeOK', Order, UNCHANGED <<snap, reader, reported, overlapped>>,
           cache' = cache \/ ~cache'.valid,
           \A n \in Names : Follows(bytes[n], passed[n], bytes'[n], passed'[n])
    PROVE  Order'
<1> SUFFICES ASSUME ~overlapped PROVE Order'
  BY DEF Order
<1> USE DEF TypeOK
<1>1. ASSUME NEW L \in List, InOrder(L)
      PROVE  /\ InOrder(L)'
             /\ \A n \in L.has : FollowsNow(L, n)' /\ FollowsSnap(L, n)'
  BY <1>1 DEF InOrder, FollowsNow, FollowsSnap, Follows, List
<1>2. cache'.valid => InOrder(cache.list)' /\ cache' = cache
  BY <1>1 DEF Order
<1>3. ASSUME NEW r \in Readers
      PROVE  CallOrder(r)'
  <2>1. CallOrder(r) /\ reader[r].list \in List /\ reader'[r] = reader[r]
    BY DEF Order, Reader
  <2>2. InOrder(reader[r].list)'
    BY <1>1, <2>1 DEF CallOrder
  <2> QED BY <2>1, <2>2 DEF CallOrder
<1>4. ASSUME NEW n \in Names
      PROVE  SnapOrder(n)'
  BY DEF Order, SnapOrder, Storing, Follows, Snapshot
<1> QED BY <1>2, <1>3, <1>4 DEF Order, Single

LEMMA TickOrder == TypeOK /\ TypeOK' /\ Order /\ Tick => Order'
<1> SUFFICES ASSUME TypeOK, TypeOK', Order, Tick PROVE Order'
  OBVIOUS
<1>1. PICK t \in [Names -> Traffic] :
          /\ bytes' = [n \in Names |-> bytes[n] + IF n \in mapped THEN t[n] ELSE 0]
          /\ passed' = [n \in Names |-> passed[n] + IF n \in mapped THEN t[n] ELSE 0]
  BY DEF Tick
<1>2. ASSUME NEW n \in Names
      PROVE  Follows(bytes[n], passed[n], bytes'[n], passed'[n])
  <2>1. t[n] \in Nat
    BY TrafficAssumption
  <2>2. CASE n \in mapped
    BY <1>1, <2>1, <2>2 DEF Follows, TypeOK
  <2>3. CASE n \notin mapped
    BY <1>1, <2>3 DEF Follows, TypeOK
  <2> QED BY <2>2, <2>3
<1> QED BY <1>2, GostOrder DEF Tick, tracker

(* Without overlapping calls the others are idle while one goes on. *)
LEMMA OthersIdle ==
    ASSUME TypeOK, Age, Order, NEW r \in Readers, Call(r), ~overlapped'
    PROVE  /\ ~overlapped
           /\ \A q \in Readers \ {r} : /\ reader[q].pc = "idle" /\ reader'[q].pc = "idle"
                                       /\ reader'[q].list.has = {} /\ reader'[q].cur = {}
                                       /\ reader[q].cur = {}
<1>1. ~overlapped /\ \A q \in Readers \ {r} : reader[q].pc = "idle"
  <2>1. CASE Begin(r)
    BY <2>1 DEF Begin
  <2>2. CASE Call(r) /\ ~Begin(r)
    <3>1. reader[r].pc # "idle" /\ overlapped' = overlapped
      BY <2>2 DEF Call, Ask, AskFails, Keep, Return, Stamp, Measure, Store, Finish, tracker
    <3> QED BY <3>1 DEF Order, Single
  <2> QED BY <2>1, <2>2
<1>2. ASSUME NEW q \in Readers \ {r}
      PROVE  reader'[q] = reader[q] /\ reader[q].list.has = {} /\ reader[q].cur = {}
  BY <1>1, CallFrame DEF Age, CallAge, NoList
<1> QED BY <1>1, <1>2

(* What remains to be shown of a step of a call. *)
OwnOrder(r) ==
    /\ cache.valid => InOrder(cache.list)
    /\ CallOrder(r)
    /\ \A n \in Names :
          /\ snap[n].has => Follows(snap[n].bytes, snap[n].passed, bytes[n], passed[n])
          /\ ~snap[n].has => reported[n] = 0
          /\ n \notin reader[r].cur /\ snap[n].has => reported[n] <= snap[n].passed
          /\ n \in reader[r].cur => reported[n] <= reader[r].list.passed[n]

(* The steps that get a list. *)
LEMMA ListOrder ==
    ASSUME NEW r \in Readers, TypeOK, Age, OwnOrder(r),
           Begin(r) \/ Ask(r) \/ AskFails(r) \/ Keep(r) \/ Return(r)
    PROVE  OwnOrder(r)'
<1> USE DEF TypeOK, OwnOrder, env, tracker
<1>1. reader[r] \in Reader /\ CallAge(r) /\ CallOrder(r) /\ cache.list \in List
  BY DEF Age
<1>2. /\ UNCHANGED <<bytes, passed, snap, reported>>
      /\ reader[r].cur = {} /\ reader'[r].cur = {}
  <2>1. CASE Begin(r)
    BY <1>1, <2>1 DEF Begin, CallAge, Reader
  <2>2. CASE Ask(r) \/ AskFails(r) \/ Keep(r)
    BY <1>1, <2>2 DEF Ask, AskFails, Keep, CallAge, Reader
  <2>3. CASE Return(r)
    BY <1>1, <2>3 DEF Return, CallAge, Reader, NoCall
  <2> QED BY <2>1, <2>2, <2>3
<1>3. \A L \in List : InOrder(L)' = InOrder(L)
  BY <1>2 DEF InOrder, FollowsNow, FollowsSnap
<1>4. SUFFICES (cache.valid => InOrder(cache.list))' /\ CallOrder(r)'
  BY <1>2
<1>5. CASE reader'[r].list = cache.list /\ cache' = cache /\ cache.valid /\ reader'[r].pc = "stamp"
  BY <1>1, <1>3, <1>5 DEF CallOrder, Follows, List
<1>6. CASE reader'[r].list.has = {} /\ (reader'[r].pc \notin {"ask", "keep"} \/ ~cache'.valid)
           /\ (cache' = cache \/ ~cache'.valid)
  BY <1>1, <1>3, <1>6 DEF CallOrder, InOrder
<1>7. CASE Begin(r)
  <2>1. CASE Fresh
    BY <1>1, <1>5, <1>7, <2>1 DEF Begin, Fresh, Reader
  <2>2. CASE ~Fresh
    <3>1. ~cache'.valid /\ reader'[r].list = reader[r].list /\ reader[r].pc = "idle"
      BY <1>1, <1>7, <2>2 DEF Begin, NoCache, Reader
    <3> QED BY <1>1, <1>6, <3>1 DEF CallAge, NoList
  <2> QED BY <2>1, <2>2
<1>8. CASE Ask(r)
  <2>1. /\ ~cache.valid /\ cache' = cache
        /\ reader'[r].list = [at |-> now, has |-> mapped, bytes |-> bytes, passed |-> passed]
    BY <1>1, <1>8 DEF Ask, CallOrder, Reader
  <2>2. \A n \in mapped : /\ bytes[n] \in Nat /\ passed[n] \in Nat
                          /\ snap[n].has => Follows(snap[n].bytes, snap[n].passed,
                                                   bytes[n], passed[n])
    OBVIOUS
  <2>3. InOrder(reader[r].list)'
    BY <1>2, <2>1, <2>2 DEF InOrder, FollowsNow, FollowsSnap, Follows
  <2> QED BY <2>1, <2>3 DEF CallOrder
<1>9. CASE AskFails(r)
  <2>1. reader'[r].list = reader[r].list /\ reader'[r].pc = "stamp" /\ cache' = cache /\ reader[r].pc = "ask"
    BY <1>1, <1>9 DEF AskFails, Reader
  <2> QED BY <1>1, <1>6, <2>1 DEF CallAge, NoList
<1>10. CASE Keep(r)
  <2>1. /\ cache'.list = reader[r].list /\ reader'[r].list = NoList /\ reader'[r].pc = "return"
        /\ reader[r].list \in List /\ InOrder(reader[r].list)
    BY <1>1, <1>10 DEF Keep, CallOrder, Reader
  <2> QED BY <1>3, <2>1 DEF CallOrder, InOrder, NoList
<1>11. CASE Return(r)
  <2>1. CASE cache.valid
    BY <1>1, <1>5, <1>11, <2>1 DEF Return, Reader
  <2>2. CASE ~cache.valid
    BY <1>1, <1>6, <1>11, <2>2 DEF Return, NoCall, NoList
  <2> QED BY <2>1, <2>2
<1> QED BY <1>7, <1>8, <1>9, <1>10, <1>11

(* The steps of SpeedTracker.update. *)
LEMMA UpdateOrder ==
    ASSUME NEW r \in Readers, TypeOK, Age, OwnOrder(r),
           Stamp(r) \/ Finish(r) \/ \E n \in Names : Measure(r, n) \/ Store(r, n),
           ~overlapped
    PROVE  OwnOrder(r)'
<1> USE DEF TypeOK, OwnOrder, env, tracker
<1>1. reader[r] \in Reader /\ reader[r].list \in List /\ CallAge(r) /\ CallOrder(r)
  BY DEF Age, Reader
<1>2. UNCHANGED <<bytes, passed, cache>>
  BY DEF Stamp, Finish, Measure, Store
<1>3. CASE Stamp(r)
  <2>1. /\ UNCHANGED <<snap, reported>> /\ reader'[r].list = reader[r].list
        /\ reader'[r].pc = "update" /\ reader'[r].cur = reader[r].cur
    BY <1>1, <1>3 DEF Stamp, Reader
  <2> QED BY <1>1, <1>2, <2>1 DEF CallOrder, InOrder, FollowsNow, FollowsSnap
<1>4. CASE Finish(r)
  <2>1. /\ UNCHANGED <<snap, reported>> /\ reader'[r] = NoCall /\ reader[r].cur = {}
    BY <1>1, <1>4 DEF Finish, CallAge
  <2> QED BY <1>2, <2>1 DEF CallOrder, InOrder, FollowsNow, FollowsSnap, NoCall, NoList
<1>5. ASSUME NEW n \in Names, Measure(r, n)
      PROVE  OwnOrder(r)'
  <2>1. /\ UNCHANGED snap /\ reader'[r].list = reader[r].list
        /\ reader'[r].pc = "store" /\ reader'[r].cur = {n} /\ reader[r].cur = {}
        /\ n \in reader[r].list.has
    BY <1>1, <1>5 DEF Measure, CallAge, Reader
  <2>2. \A m \in Names \ {n} : reported'[m] = reported[m]
    BY <1>5 DEF Measure
  <2>3. CallOrder(r)' /\ (cache.valid => InOrder(cache.list))'
    BY <1>1, <1>2, <2>1 DEF CallOrder, InOrder, FollowsNow, FollowsSnap
  <2>4. ~snap[n].has => reported'[n] = 0
    BY <1>5 DEF Measure
  <2>5. reported'[n] <= reader[r].list.passed[n]
    <3>1. /\ reported[n] \in Nat /\ snap[n] \in Snapshot
          /\ reader[r].list.bytes[n] \in Nat /\ reader[r].list.passed[n] \in Nat
      BY <1>1 DEF List
    <3>2. CASE ~snap[n].has
      BY <2>4, <3>1, <3>2
    <3>3. CASE snap[n].has
      <4>1. reported[n] <= snap[n].passed
        BY <2>1, <3>3
      <4>2. Follows(snap[n].bytes, snap[n].passed,
                    reader[r].list.bytes[n], reader[r].list.passed[n])
        BY <1>1, <2>1, <3>3 DEF CallOrder, InOrder, FollowsSnap
      <4>3. \/ reported'[n] = reported[n]
            \/ reported'[n] = reported[n] + Counted(reader[r].list.bytes[n], snap[n].bytes)
        BY <1>5 DEF Measure
      <4> QED BY <3>1, <4>1, <4>2, <4>3 DEF Follows, Counted, Snapshot
    <3> QED BY <3>2, <3>3
  <2> QED BY <1>2, <2>1, <2>2, <2>3, <2>4, <2>5
<1>6. ASSUME NEW n \in Names, Store(r, n)
      PROVE  OwnOrder(r)'
  <2>1. /\ reader'[r].list = reader[r].list /\ reader'[r].pc = "update"
        /\ reader'[r].cur = {} /\ n \in reader[r].list.has
        /\ UNCHANGED reported
    BY <1>1, <1>6 DEF Store, CallAge, Reader
  <2>2. /\ snap'[n].has /\ snap'[n].bytes = reader[r].list.bytes[n]
        /\ snap'[n].passed = reader[r].list.passed[n]
        /\ \A m \in Names \ {n} : snap'[m] = snap[m]
    BY <1>6 DEF Store
  <2>3. reader[r].list.bytes[n] \in Nat /\ reader[r].list.passed[n] \in Nat
    BY <1>1 DEF List
  <2>4. /\ reader[r].list.has \subseteq Names /\ cache.list.has \subseteq Names
        /\ \A m \in Names \ {n} : m \notin reader[r].cur
    BY <1>1, <1>6 DEF Store, CallAge, List
  <2>5. CallOrder(r)'
    <3>1. ASSUME NEW m \in reader[r].list.has
          PROVE  FollowsNow(reader[r].list, m)' /\ FollowsSnap(reader[r].list, m)'
      <4>1. FollowsNow(reader[r].list, m) /\ FollowsSnap(reader[r].list, m)
        BY <1>1 DEF CallOrder, InOrder
      <4>2. CASE m = n
        BY <1>2, <2>1, <2>2, <2>3, <4>1, <4>2 DEF FollowsNow, FollowsSnap, Follows
      <4>3. CASE m # n
        BY <1>2, <2>1, <2>2, <2>4, <4>1, <4>3 DEF FollowsNow, FollowsSnap
      <4> QED BY <4>2, <4>3
    <3> QED BY <1>1, <1>2, <2>1, <3>1 DEF CallOrder, InOrder
  <2>6. (cache.valid => InOrder(cache.list))'
    <3> SUFFICES ASSUME cache.valid, NEW m \in cache.list.has
                 PROVE  FollowsNow(cache.list, m)' /\ FollowsSnap(cache.list, m)'
      BY <1>2 DEF InOrder
    <3>1. FollowsNow(cache.list, m) /\ FollowsSnap(cache.list, m)
      BY DEF InOrder
    <3>2. CASE m = n
      BY <1>1, <1>2, <2>1, <2>2, <3>1, <3>2 DEF CallOrder, FollowsNow, FollowsSnap
    <3>3. CASE m # n
      BY <1>2, <2>2, <2>4, <3>1, <3>3 DEF FollowsNow, FollowsSnap
    <3> QED BY <3>2, <3>3
  <2>7. /\ Follows(reader[r].list.bytes[n], reader[r].list.passed[n], bytes[n], passed[n])
        /\ reported[n] <= reader[r].list.passed[n]
    BY <1>1, <1>6, <2>1 DEF CallOrder, InOrder, FollowsNow, Store
  <2> QED BY <1>2, <2>1, <2>2, <2>4, <2>5, <2>6, <2>7
<1> QED BY <1>3, <1>4, <1>5, <1>6

LEMMA CallKeepsOrder ==
    ASSUME TypeOK, Age, Age', Order, NEW r \in Readers, Call(r)
    PROVE  Order'
<1> SUFFICES ASSUME ~overlapped' PROVE Order'
  BY DEF Order
<1>1. /\ ~overlapped
      /\ \A q \in Readers \ {r} : /\ reader'[q].pc = "idle" /\ reader'[q].list.has = {}
                                  /\ reader[q].cur = {} /\ reader'[q].cur = {}
  BY OthersIdle
<1>2. OwnOrder(r)
  BY <1>1 DEF Order, OwnOrder, SnapOrder, Storing
<1>3. OwnOrder(r)'
  BY <1>1, <1>2, ListOrder, UpdateOrder DEF Call
<1>4. \A q \in Readers : CallOrder(q)'
  BY <1>1, <1>3 DEF OwnOrder, CallOrder, InOrder
<1>5. \A n \in Names : SnapOrder(n)'
  BY <1>1, <1>3 DEF OwnOrder, SnapOrder, Storing
<1>6. Single'
  BY <1>1 DEF Single
<1> QED BY <1>3, <1>4, <1>5, <1>6 DEF Order, OwnOrder

LEMMA NextOrder == IInv /\ [Next]_vars => Order'
<1> SUFFICES ASSUME IInv, [Next]_vars PROVE Order'
  OBVIOUS
<1>1. TypeOK' /\ Age'
  BY NextType, NextAge DEF IInv
<1>2. \A n \in Names : bytes[n] \in Nat /\ passed[n] \in Nat
  BY DEF IInv, TypeOK
<1>3. CASE GostChanges \/ GostRestarts
  <2>1. UNCHANGED <<cache, snap, reader, reported, overlapped>>
    BY <1>3 DEF GostChanges, GostRestarts, tracker
  <2>2. \A n \in Names : bytes'[n] \in {0, bytes[n]} /\ passed'[n] = passed[n]
    BY <1>3 DEF GostChanges, GostRestarts, IInv, TypeOK
  <2>3. \A n \in Names : Follows(bytes[n], passed[n], bytes'[n], passed'[n])
    BY <1>2, <2>2 DEF Follows
  <2> QED BY <1>1, <2>1, <2>3, GostOrder DEF IInv
<1>4. CASE Invalidate \/ UNCHANGED vars
  <2>1. /\ UNCHANGED <<bytes, passed, snap, reader, reported, overlapped>>
        /\ cache' = cache \/ ~cache'.valid
    BY <1>4 DEF Invalidate, NoCache, vars, env, tracker
  <2>2. \A n \in Names : Follows(bytes[n], passed[n], bytes'[n], passed'[n])
    BY <1>2, <2>1 DEF Follows
  <2> QED BY <1>1, <2>1, <2>2, GostOrder DEF IInv
<1> QED BY <1>1, <1>3, <1>4, TickOrder, CallKeepsOrder DEF Next, IInv

(* No byte is shown twice, and none that did not pass, for any traffic, any    *)
(* changes of the mappings and any starts of GOST.                           *)
THEOREM SpeedsConserved == Spec => []Conserved
<1>1. IInv => Conserved
  <2> SUFFICES ASSUME IInv, ~overlapped, NEW n \in Names PROVE reported[n] <= passed[n]
    BY DEF Conserved
  <2> USE DEF IInv, TypeOK
  <2>1. SnapOrder(n) /\ snap[n] \in Snapshot /\ reported[n] \in Nat /\ passed[n] \in Nat
    BY DEF Order
  <2>2. CASE Storing(n)
    <3>1. PICK r \in Readers : n \in reader[r].cur
      BY <2>2 DEF Storing
    <3>2. n \in reader[r].list.has /\ reader[r].list \in List
      BY <3>1 DEF Age, CallAge, Reader
    <3>3. reader[r].list.passed[n] <= passed[n]
      BY <3>2 DEF Order, CallOrder, InOrder, FollowsNow, Follows
    <3> QED BY <2>1, <3>1, <3>2, <3>3 DEF SnapOrder, List
  <2>3. CASE ~Storing(n)
    BY <2>1, <2>3 DEF SnapOrder, Follows, Snapshot
  <2> QED BY <2>2, <2>3
<1>2. Init => IInv
  BY InitType, InitAge, InitOrder DEF IInv
<1>3. IInv /\ [Next]_vars => IInv'
  BY NextType, NextAge, NextOrder DEF IInv
<1> QED BY <1>1, <1>2, <1>3, PTL DEF Spec
=============================================================================
