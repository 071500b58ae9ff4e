---------------------------- MODULE SpeedTracker ----------------------------
(***************************************************************************)
(* The speeds of the mappings.  Whoever lists the mappings (the collector,    *)
(* the SOAP handlers, the buttons of the WebUI, the lease cleanup) updates    *)
(* the one SpeedTracker of the program on the way: the bytes counted since    *)
(* the list before, over the time since the update before.  The list comes    *)
(* from GOST or from the cache of services, so that the bytes and the time    *)
(* need not belong together; and nothing keeps two updates apart.             *)
(***************************************************************************)
EXTENDS Integers

CONSTANTS
    Names,          \* services
    Readers,        \* threads that list the mappings
    TTL,            \* services_cache_ttl
    ReadsFail,      \* GOST may be unreachable
    MaxCall,        \* bound: what a call of get_port_mappings takes
    MaxChanges,     \* bound: changes of the mappings and starts of GOST
    Traffic,        \* the bytes a service may carry in a unit of time
    MaxTime         \* bound of the clock

ASSUME TimesAssumption ==
    TTL \in Nat \ {0} /\ MaxCall \in Nat /\ MaxTime \in Nat /\ MaxChanges \in Nat
ASSUME TrafficAssumption == Traffic \subseteq Nat
ASSUME FlagAssumption == ReadsFail \in BOOLEAN

VARIABLES
    now,         \* time.time()
    mapped,      \* the services GOST has
    bytes,       \* inputBytes, or outputBytes, of a service's statistics
    passed,      \* what has really passed, its former lives included
    changes,     \* changes so far
    cache,       \* _services_cache and its time
    snap,        \* _snapshots
    lastTime,    \* _last_time
    reader,      \* per thread: its call of get_port_mappings
    reported,    \* the speeds shown, each times its time, until calls overlap
    overlapped   \* two calls have been under way at once

env == <<now, mapped, bytes, passed, changes>>
tracker == <<snap, lastTime, reported>>
vars == <<env, cache, tracker, reader, overlapped>>

(* A list as GOST gave it at a time, with what had passed by then. *)
List == [at : Nat, has : SUBSET Names, bytes : [Names -> Nat], passed : [Names -> Nat]]
NoList == [at |-> 0, has |-> {}, bytes |-> [n \in Names |-> 0], passed |-> [n \in Names |-> 0]]
NoCache == [valid |-> FALSE, ts |-> 0, list |-> NoList]

(* A snapshot, with the time of its list and that of the update that took it. *)
Snapshot == [has : BOOLEAN, bytes : Nat, passed : Nat, at : Nat, stamp : Nat]

Reader == [pc : {"idle", "ask", "keep", "return", "stamp", "update", "store"},
           begun : Nat, list : List, stamp : Nat, elapsed : Int, todo : SUBSET Names,
           cur : SUBSET Names]
NoCall == [pc |-> "idle", begun |-> 0, list |-> NoList, stamp |-> 0, elapsed |-> 0,
           todo |-> {}, cur |-> {}]

TypeOK ==
    /\ now \in Nat
    /\ mapped \in SUBSET Names
    /\ bytes \in [Names -> Nat]
    /\ passed \in [Names -> Nat]
    /\ changes \in 0..MaxChanges
    /\ cache \in [valid : BOOLEAN, ts : Nat, list : List]
    /\ snap \in [Names -> Snapshot]
    /\ lastTime \in Nat
    /\ reader \in [Readers -> Reader]
    /\ reported \in [Names -> Nat]
    /\ overlapped \in BOOLEAN

(* The clock starts above the 0 of a tracker that was never updated. *)
Init ==
    /\ now = 1
    /\ mapped \in SUBSET Names
    /\ bytes = [n \in Names |-> 0]
    /\ passed = [n \in Names |-> 0]
    /\ changes = 0
    /\ cache = NoCache
    /\ snap = [n \in Names |-> [has |-> FALSE, bytes |-> 0, passed |-> 0, at |-> 0, stamp |-> 0]]
    /\ lastTime = 0
    /\ reader = [r \in Readers |-> NoCall]
    /\ reported = [n \in Names |-> 0]
    /\ overlapped = FALSE

-----------------------------------------------------------------------------
(* GOST and its clients                                                     *)

Tick ==
    /\ now < MaxTime
    /\ \A r \in Readers : reader[r].pc # "idle" => now - reader[r].begun < MaxCall
    /\ now' = now + 1
    /\ \E t \in [Names -> Traffic] :
          /\ bytes' = [n \in Names |-> bytes[n] + IF n \in mapped THEN t[n] ELSE 0]
          /\ passed' = [n \in Names |-> passed[n] + IF n \in mapped THEN t[n] ELSE 0]
    /\ UNCHANGED <<mapped, changes, cache, tracker, reader, overlapped>>

AnotherChange == changes < MaxChanges /\ changes' = changes + 1

(* A mapping is added, with its counter at zero, or removed. *)
GostChanges ==
    /\ AnotherChange
    /\ \E n \in Names :
          /\ mapped' = IF n \in mapped THEN mapped \ {n} ELSE mapped \cup {n}
          /\ bytes' = [bytes EXCEPT ![n] = 0]
    /\ UNCHANGED <<now, passed, cache, tracker, reader, overlapped>>

(* GOST is started anew and given its mappings back. *)
GostRestarts ==
    /\ AnotherChange
    /\ bytes' = [n \in Names |-> 0]
    /\ UNCHANGED <<now, mapped, passed, cache, tracker, reader, overlapped>>

(* _invalidate_cache: a change through this program. *)
Invalidate ==
    /\ AnotherChange
    /\ cache' = NoCache
    /\ UNCHANGED <<now, mapped, bytes, passed, tracker, reader, overlapped>>

-----------------------------------------------------------------------------
(* get_services                                                             *)

(* Mutant of Fresh: the list is read once. *)
AlwaysFresh == cache.valid

Fresh == cache.valid /\ now - cache.ts < TTL

Begin(r) ==
    /\ reader[r].pc = "idle"
    /\ IF Fresh
       THEN /\ reader' = [reader EXCEPT ![r].pc = "stamp", ![r].begun = now,
                                        ![r].list = cache.list]
            /\ UNCHANGED cache
       ELSE /\ reader' = [reader EXCEPT ![r].pc = "ask", ![r].begun = now]
            /\ cache' = NoCache
    /\ overlapped' = (overlapped \/ \E q \in Readers \ {r} : reader[q].pc # "idle")
    /\ UNCHANGED <<env, tracker>>

Ask(r) ==
    /\ reader[r].pc = "ask"
    /\ reader' = [reader EXCEPT ![r].pc = "keep",
                     ![r].list = [at |-> now, has |-> mapped, bytes |-> bytes, passed |-> passed]]
    /\ UNCHANGED <<env, cache, tracker, overlapped>>

(* The list is an empty one then, and the tracker is updated with it. *)
AskFails(r) ==
    /\ ReadsFail
    /\ reader[r].pc = "ask"
    /\ reader' = [reader EXCEPT ![r].pc = "stamp"]
    /\ UNCHANGED <<env, cache, tracker, overlapped>>

Keep(r) ==
    /\ reader[r].pc = "keep"
    /\ cache' = [valid |-> TRUE, ts |-> now, list |-> reader[r].list]
    /\ reader' = [reader EXCEPT ![r].pc = "return", ![r].list = NoList]
    /\ UNCHANGED <<env, tracker, overlapped>>

(* What is returned is the cache as it is then: a call that finds it dropped   *)
(* has None for a list, and raises.                                          *)
Return(r) ==
    /\ reader[r].pc = "return"
    /\ reader' = IF cache.valid
                 THEN [reader EXCEPT ![r].pc = "stamp", ![r].list = cache.list]
                 ELSE [reader EXCEPT ![r] = NoCall]
    /\ UNCHANGED <<env, cache, tracker, overlapped>>

-----------------------------------------------------------------------------
(* SpeedTracker.update                                                      *)

Elapsed == IF lastTime > 0 THEN now - lastTime ELSE 0

Stamp(r) ==
    /\ reader[r].pc = "stamp"
    /\ reader' = [reader EXCEPT ![r].pc = "update", ![r].stamp = now, ![r].elapsed = Elapsed,
                                ![r].todo = reader[r].list.has]
    /\ UNCHANGED <<env, cache, tracker, overlapped>>

(* Mutant of Counted: a counter that was set back counts too. *)
Either(cur, prev) == IF cur > prev THEN cur - prev ELSE prev - cur

(* Mutant of Counted: without max(0, ...). *)
Signed(cur, prev) == cur - prev

(* The speed times the time it is for. *)
Counted(cur, prev) == IF cur > prev THEN cur - prev ELSE 0

Measure(r, n) ==
    /\ reader[r].pc = "update" /\ n \in reader[r].todo
    /\ reported' = IF snap[n].has /\ reader[r].elapsed > 0 /\ ~overlapped
                   THEN [reported EXCEPT ![n] = @ + Counted(reader[r].list.bytes[n], snap[n].bytes)]
                   ELSE reported
    /\ reader' = [reader EXCEPT ![r].pc = "store", ![r].cur = {n}]
    /\ UNCHANGED <<env, cache, snap, lastTime, overlapped>>

Store(r, n) ==
    /\ reader[r].pc = "store" /\ n \in reader[r].cur
    /\ snap' = [snap EXCEPT ![n] =
                  [has |-> TRUE, bytes |-> reader[r].list.bytes[n],
                   passed |-> reader[r].list.passed[n],
                   at |-> reader[r].list.at, stamp |-> reader[r].stamp]]
    /\ reader' = [reader EXCEPT ![r].pc = "update", ![r].cur = {}, ![r].todo = @ \ {n}]
    /\ UNCHANGED <<env, cache, lastTime, reported, overlapped>>

Finish(r) ==
    /\ reader[r].pc = "update" /\ reader[r].todo = {}
    /\ lastTime' = reader[r].stamp
    /\ reader' = [reader EXCEPT ![r] = NoCall]
    /\ UNCHANGED <<env, cache, snap, reported, overlapped>>

-----------------------------------------------------------------------------
Call(r) ==
    \/ Begin(r) \/ Ask(r) \/ AskFails(r) \/ Keep(r) \/ Return(r)
    \/ Stamp(r) \/ Finish(r)
    \/ \E n \in Names : Measure(r, n) \/ Store(r, n)

Next ==
    \/ Tick \/ GostChanges \/ GostRestarts \/ Invalidate
    \/ \E r \in Readers : Call(r)

Spec == Init /\ [][Next]_vars

-----------------------------------------------------------------------------
(* Properties                                                               *)

(* The speeds shown for a service never add up to more than has passed,       *)
(* whether its mapping was removed and added again, GOST was started anew, or  *)
(* lists came from the cache or not at all (SpeedTracker.update), as long as   *)
(* no two threads list the mappings at once: two that do may both count the    *)
(* same bytes, or the later list may be replaced by the earlier.              *)
Conserved == ~overlapped => \A n \in Names : reported[n] <= passed[n]

(* The bytes of a speed have passed in no more than the time they are divided  *)
(* by, the life of a cached list and the time of two calls, whatever threads   *)
(* update the tracker: so if the service was in the update before.  (After one  *)
(* that got no list the bytes of any time are divided by the last interval.)   *)
SpanBounded ==
    \A r \in Readers : \A n \in reader[r].todo :
        LET c == reader[r]
        IN  c.pc = "update" /\ snap[n].has /\ c.elapsed > 0 /\ snap[n].stamp = c.stamp - c.elapsed
                => c.list.at - snap[n].at < c.elapsed + TTL + 2 * MaxCall
=============================================================================
