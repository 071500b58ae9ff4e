------------------------------- MODULE Gateway -------------------------------
(***************************************************************************)
(* The port-mapping core of alter_upnpd: SOAP handlers, WebUI callbacks,     *)
(* list readers and the lease-cleanup thread share one PortMappingRepository *)
(* (a list of services cached for TTL) in front of GOST, which holds the     *)
(* mappings.  No lock protects the cache or spans a read and the write that  *)
(* is decided on it, so every thread stops at each line of get_services      *)
(* whose order matters and at each request on the wire.                      *)
(*                                                                          *)
(* Time is whole seconds: created_at is int(time.time()), so comparing it    *)
(* with a float clock is comparing it with the clock's integer part.         *)
(* The upstream IGD is not configured (UPSTREAM_IGD_URL = "", the default).   *)
(***************************************************************************)
EXTENDS Integers, FiniteSets, GostRegistry

CONSTANTS
    Clients,         \* LAN hosts: the requester and NewInternalClient
    SoapThreads,     \* request threads serving the SOAP endpoint
    WebThreads,      \* PyWebIO sessions running WebUI callbacks
    ReaderThreads,   \* collector, health check, SOAP queries: they only list
    CleanerThreads,  \* {} or the one lease-cleanup thread
    TTL,             \* services_cache_ttl
    DefaultLease,    \* LEASE_DURATION
    MaxLease,        \* 604800
    LeaseRequests,   \* NewLeaseDuration as int() reads it, 0 when it is not a number
    WebLeases,       \* lease typed into the WebUI form
    SecureMode,      \* SECURE_MODE
    Retries,         \* retries of GostTransport
    ReadsFail,       \* a GET may fail for good
    WritesFail,      \* an attempt of a write may be lost, or be served late
    Restarts,        \* GOST may restart and forget its services
    Overlap,         \* threads interleave (FALSE: one job at a time)
    MaxCall,         \* bound: seconds one repository call may take
    MaxLate,         \* bound: abandoned attempts GOST may still serve
    MaxTime          \* bound: the last second of a behaviour

Threads == SoapThreads \cup WebThreads \cup ReaderThreads \cup CleanerThreads

Mapping  == [owner : Clients, created : Nat, lease : Int]
Table    == [Ports -> Mapping \cup {None}]
(* A service list and the second GOST produced it; the [] that get_services *)
(* returns when GOST cannot be asked is FailedList, from no second at all.   *)
Snapshot   == [at : Int, m : Table]
EmptyTable == [p \in Ports |-> None]
FailedList == [at |-> -1, m |-> EmptyTable]

Kinds == {"none", "add", "delete", "web", "batch", "list",
          "expire", "reconcile"}
Job   == [kind : Kinds, remote : Clients \cup {None}, client : Clients \cup {None},
          port : Ports \cup {None}, lease : Int]
(* A write on the wire; basis, by and who are ghosts: the age of the list it *)
(* was decided on, the kind of job and the client that asked for it.         *)
Request == [method : {"POST", "PUT", "DELETE"}, port : Ports, body : Mapping \cup {None},
            built : Nat, basis : Int, by : Kinds, who : Clients \cup {None}]

ASSUME NoneAssumption == /\ None \notin Mapping
                         /\ None \notin Snapshot
                         /\ None \notin Request
                         /\ None \notin Clients
                         /\ None \notin Ports
ASSUME LeaseAssumption == /\ MaxLease \in Nat \ {0}
                          /\ DefaultLease \in Int
                          /\ LeaseRequests \subseteq Int
                          /\ WebLeases \subseteq Int
ASSUME BoundAssumption == /\ TTL \in Nat \ {0}
                          /\ MaxCall \in Nat
                          /\ MaxTime \in Nat
                          /\ Retries \in Nat
                          /\ MaxLate \in Nat
ASSUME FlagAssumption == {SecureMode, ReadsFail, WritesFail, Restarts, Overlap} \subseteq BOOLEAN

VARIABLES
    now,       \* time.time(), in whole seconds
    store,     \* GOST's services
    late,      \* abandoned attempts GOST has received and may still serve
    cache,     \* _services_cache; its at is a ghost
    cacheTs,   \* _services_cache_ts
    thread     \* what each thread is doing

vars == <<now, store, late, cache, cacheTs, thread>>

NoJob == [kind |-> "none", remote |-> None, client |-> None, port |-> None, lease |-> 0]

Locals == [pc : {"idle", "check", "hit", "get", "fill", "stamp", "reread",
                 "call", "answered", "clear", "popup", "loop", "dead"},
           job : Job,
           since : Nat,                   \* when the current repository call began
           got : Snapshot \cup {None},    \* the answer of the GET in flight
           req : Request \cup {None},     \* the write in flight
           resp : {"none", "ok", "missing", "refused", "conn"},
           tries : Nat,                   \* attempts of req already lost
           todo : SUBSET Ports,           \* deletions still to send
           basis : Int]                   \* ghost: age of the list todo came from

(* A time stamp of 0 in the code: older than TTL whatever the clock says. *)
Never == -TTL

IdleState == [pc |-> "idle", job |-> NoJob, since |-> 0, got |-> None, req |-> None,
              resp |-> "none", tries |-> 0, todo |-> {}, basis |-> -1]

Init ==
    /\ now = 0
    /\ store = EmptyTable
    /\ late = {}
    /\ cache = None
    /\ cacheTs = Never
    /\ thread = [t \in Threads |-> IdleState]

-----------------------------------------------------------------------------
(* Decisions                                                                *)

(* Mutant of Fresh: no TTL, as before CHANGELOG 125. *)
FreshForever == cache # None

(* get_services: a cached list is used while it is younger than TTL. *)
Fresh == cache # None /\ now - cacheTs < TTL

(* A lease of 0 never expires. *)
Expired(e, when) == e.lease > 0 /\ when >= e.created + e.lease

(* Mutant of ConflictsWith: any client renews. *)
NeverConflicts(seen, client) == FALSE

(* AddPortMapping refuses a port the list shows with another client. *)
ConflictsWith(seen, client) == seen # None /\ seen.owner # client

(* Mutant of MayDelete: existing_client is not compared. *)
AnyoneDeletes(seen, remote) == TRUE

(* check_port_mapping, as AddPortMapping and DeletePortMapping call it. *)
MayMap(remote, client)  == SecureMode => client = remote
MayDelete(seen, remote) == (SecureMode /\ seen # None) => seen.owner = remote

(* Mutant of EffectiveLease: the upper limit is forgotten. *)
LeaseUncapped(l) ==
    LET asked == IF l = 0 THEN DefaultLease ELSE l
    IN  IF asked <= 0 THEN MaxLease ELSE asked

(* The lease granted: 0, or no number, asks for the default; what is not      *)
(* positive or is too long becomes the longest lease.                         *)
EffectiveLease(l) ==
    LET asked == IF l = 0 THEN DefaultLease ELSE l
    IN  IF asked <= 0 \/ asked > MaxLease THEN MaxLease ELSE asked

(* Mutant of Invalidates: update keeps the cache. *)
UpdateKeepsCache(r, resp) == resp = "ok" /\ r.method # "PUT"

(* add and update clear the cache only after a result; delete also after a 404. *)
Invalidates(r, resp) == resp = "ok" \/ (r.method = "DELETE" /\ resp = "missing")

-----------------------------------------------------------------------------
(* Thread bookkeeping                                                       *)

Finish(t) == thread' = [thread EXCEPT ![t] = IdleState]

(* Nothing of the job is under way: it is over, or a popup asks the user. *)
Resting(t) == thread[t].pc \in {"idle", "dead", "popup"}

(* gunicorn's sync worker and each PyWebIO session run one job at a time. *)
Start(t, locals) ==
    /\ Overlap \/ \A u \in Threads : Resting(u)
    /\ thread' = [thread EXCEPT ![t] = locals]

Begin(t, locals) == thread[t].pc = "idle" /\ Start(t, locals)

(* A job that reads the list before it does anything else. *)
Reading(job) == [IdleState EXCEPT !.pc = "check", !.job = job]

(* A job that writes at once. *)
Writing(r) == [IdleState EXCEPT !.pc = "call", !.since = now, !.req = r,
                                !.job = [NoJob EXCEPT !.kind = "web"]]

(* add, update or delete hands a write, built now, to the transport. *)
Send(t, r) ==
    thread' = [thread EXCEPT ![t] = [@ EXCEPT !.pc = "call", !.since = now, !.req = r,
                                              !.got = None]]

(* A deletion of a loop leads back to it; delete_batch's last clearing does not. *)
WriteDone(t) ==
    IF thread[t].job.kind \in {"expire", "batch"} /\ thread[t].req # None
    THEN thread' = [thread EXCEPT ![t] = [@ EXCEPT !.pc = "loop", !.req = None,
                                                   !.resp = "none", !.tries = 0]]
    ELSE Finish(t)

Write(method, p, body, basis, by, who) ==
    [method |-> method, port |-> p, body |-> body, built |-> now,
     basis |-> basis, by |-> by, who |-> who]

-----------------------------------------------------------------------------
(* What a caller of get_services does with the list X it is handed          *)

(* Mutant of AddPortMapping: a renewal keeps the mapping's created_at. *)
RenewalKeepsCreated(t, X) ==
    LET j == thread[t].job
        seen == X.m[j.port]
        body == [owner |-> j.client, lease |-> EffectiveLease(j.lease),
                 created |-> IF seen = None THEN now ELSE seen.created]
    IN  IF ConflictsWith(seen, j.client)
        THEN Finish(t)
        ELSE Send(t, Write(IF seen = None THEN "POST" ELSE "PUT",
                           j.port, body, X.at, "add", j.client))

AddPortMapping(t, X) ==
    LET j == thread[t].job
        seen == X.m[j.port]
        body == [owner |-> j.client, created |-> now, lease |-> EffectiveLease(j.lease)]
    IN  IF ConflictsWith(seen, j.client)
        THEN Finish(t)                                             \* 718
        ELSE Send(t, Write(IF seen = None THEN "POST" ELSE "PUT",
                           j.port, body, X.at, "add", j.client))

DeletePortMapping(t, X) ==
    LET j == thread[t].job
    IN  IF MayDelete(X.m[j.port], j.remote)
        THEN Send(t, Write("DELETE", j.port, None, X.at, "delete", j.remote))
        ELSE Finish(t)                                             \* 714

(* Mutant of CollectExpired: a mapping goes in its last second. *)
CollectEarly(t, X) ==
    LET found == {p \in Ports : X.m[p] # None /\ Expired(X.m[p], thread[t].since + 1)}
    IN  thread' = [thread EXCEPT ![t] = [@ EXCEPT !.pc = "loop", !.todo = found,
                                                  !.basis = X.at, !.got = None]]

(* Mutant of CollectExpired: a mapping that expires this second stays. *)
CollectTardy(t, X) ==
    LET found == {p \in Ports : X.m[p] # None /\ Expired(X.m[p], thread[t].since - 1)}
    IN  thread' = [thread EXCEPT ![t] = [@ EXCEPT !.pc = "loop", !.todo = found,
                                                  !.basis = X.at, !.got = None]]

(* The clock was read before the list, at the start of the call. *)
CollectExpired(t, X) ==
    LET found == {p \in Ports : X.m[p] # None /\ Expired(X.m[p], thread[t].since)}
    IN  thread' = [thread EXCEPT ![t] = [@ EXCEPT !.pc = "loop", !.todo = found,
                                                  !.basis = X.at, !.got = None]]

(* The rows ticked among those listed; a popup asks whether to delete them. *)
DeleteSelected(t, X) ==
    \/ Finish(t)
    \/ \E rows \in (SUBSET {p \in Ports : X.m[p] # None}) \ {{}} :
          thread' = [thread EXCEPT ![t] = [@ EXCEPT !.pc = "popup", !.todo = rows,
                                                    !.got = None]]

(* Iterating over None raises TypeError: a request thread answers 500, the   *)
(* collector and the reconcile step catch it, the cleanup thread dies of it. *)
NoList(t) ==
    IF thread[t].job.kind = "expire"
    THEN thread' = [thread EXCEPT ![t] = [IdleState EXCEPT !.pc = "dead"]]
    ELSE Finish(t)

Deliver(t, X) ==
    \/ X = None /\ NoList(t)
    \/ X # None /\ thread[t].job.kind = "add" /\ AddPortMapping(t, X)
    \/ X # None /\ thread[t].job.kind = "delete" /\ DeletePortMapping(t, X)
    \/ X # None /\ thread[t].job.kind = "expire" /\ CollectExpired(t, X)
    \/ X # None /\ thread[t].job.kind = "batch" /\ DeleteSelected(t, X)
    \/ X # None /\ thread[t].job.kind \in {"list", "reconcile"} /\ Finish(t)

-----------------------------------------------------------------------------
(* Jobs arrive                                                              *)

(* Requests that are malformed, outside the ACL or asking to map another      *)
(* host are answered before anything is read or written, so they take no step. *)
ReceiveAdd(t) ==
    /\ t \in SoapThreads
    /\ \E remote, client \in Clients, p \in Ports, l \in LeaseRequests :
          /\ MayMap(remote, client)
          /\ Begin(t, Reading([kind |-> "add", remote |-> remote, client |-> client,
                               port |-> p, lease |-> l]))
    /\ UNCHANGED <<now, store, late, cache, cacheTs>>

ReceiveDelete(t) ==
    /\ t \in SoapThreads
    /\ \E remote \in Clients, p \in Ports :
          Begin(t, Reading([kind |-> "delete", remote |-> remote, client |-> None,
                            port |-> p, lease |-> 0]))
    /\ UNCHANGED <<now, store, late, cache, cacheTs>>

BeginList(t) ==
    /\ t \in ReaderThreads
    /\ Begin(t, Reading([NoJob EXCEPT !.kind = "list"]))
    /\ UNCHANGED <<now, store, late, cache, cacheTs>>

BeginClean(t) ==
    /\ t \in CleanerThreads
    /\ Begin(t, Reading([NoJob EXCEPT !.kind = "expire"]))
    /\ UNCHANGED <<now, store, late, cache, cacheTs>>

(* The form and the button of a row write without reading the list. *)
WebAdd(t) ==
    /\ t \in WebThreads
    /\ \E client \in Clients, p \in Ports, l \in WebLeases :
          LET body == [owner |-> client, created |-> now, lease |-> l]
          IN  Begin(t, Writing(Write("POST", p, body, -1, "web", None)))
    /\ UNCHANGED <<now, store, late, cache, cacheTs>>

WebDelete(t) ==
    /\ t \in WebThreads
    /\ \E p \in Ports : Begin(t, Writing(Write("DELETE", p, None, -1, "web", None)))
    /\ UNCHANGED <<now, store, late, cache, cacheTs>>

(* The button that deletes the ticked rows lists the mappings first. *)
WebDeleteSelected(t) ==
    /\ t \in WebThreads
    /\ Begin(t, Reading([NoJob EXCEPT !.kind = "batch"]))
    /\ UNCHANGED <<now, store, late, cache, cacheTs>>

(* The user confirms, after whatever time, or does not. *)
Confirm(t) ==
    /\ thread[t].pc = "popup"
    /\ Start(t, [thread[t] EXCEPT !.pc = "loop", !.since = now])
    /\ UNCHANGED <<now, store, late, cache, cacheTs>>

Cancel(t) ==
    /\ thread[t].pc = "popup"
    /\ Finish(t)
    /\ UNCHANGED <<now, store, late, cache, cacheTs>>

-----------------------------------------------------------------------------
(* get_services                                                             *)

(* The two reads of the guard are one step: a list and a time stamp that      *)
(* belong to different fills are also what Hit may find after a single read.  *)
Check(t) ==
    /\ thread[t].pc = "check"
    /\ IF Fresh THEN cache' = cache ELSE cache' = None
    /\ thread' = [thread EXCEPT ![t] = [@ EXCEPT !.pc = IF Fresh THEN "hit" ELSE "get",
                                                  !.since = now]]
    /\ UNCHANGED <<now, store, late, cacheTs>>

(* The cache is read again to be returned. *)
Hit(t) ==
    /\ thread[t].pc = "hit"
    /\ Deliver(t, cache)
    /\ UNCHANGED <<now, store, late, cache, cacheTs>>

ServeGet(t) ==
    /\ thread[t].pc = "get"
    /\ thread' = [thread EXCEPT ![t] = [@ EXCEPT !.pc = "fill",
                                                  !.got = [at |-> now, m |-> store]]]
    /\ UNCHANGED <<now, store, late, cache, cacheTs>>

(* Every attempt was lost or GOST answered with an error: the caller gets []. *)
FailGet(t) ==
    /\ ReadsFail
    /\ thread[t].pc = "get"
    /\ Deliver(t, FailedList)
    /\ UNCHANGED <<now, store, late, cache, cacheTs>>

Fill(t) ==
    /\ thread[t].pc = "fill"
    /\ cache' = thread[t].got
    /\ thread' = [thread EXCEPT ![t] = [@ EXCEPT !.pc = "stamp", !.got = None]]
    /\ UNCHANGED <<now, store, late, cacheTs>>

Stamp(t) ==
    /\ thread[t].pc = "stamp"
    /\ cacheTs' = now
    /\ thread' = [thread EXCEPT ![t] = [@ EXCEPT !.pc = "reread"]]
    /\ UNCHANGED <<now, store, late, cache>>

(* The cache, not the answer, is returned. *)
Reread(t) ==
    /\ thread[t].pc = "reread"
    /\ Deliver(t, cache)
    /\ UNCHANGED <<now, store, late, cache, cacheTs>>

-----------------------------------------------------------------------------
(* A write on the wire                                                      *)

Serve(t) ==
    /\ thread[t].pc = "call"
    /\ store' = After(store, thread[t].req)
    /\ thread' = [thread EXCEPT ![t] = [@ EXCEPT !.pc = "answered",
                                                  !.resp = Answer(store, thread[t].req)]]
    /\ UNCHANGED <<now, late, cache, cacheTs>>

(* An attempt times out or its connection breaks; GOST may have received it  *)
(* all the same and serve it later.  The same body is sent again, writes     *)
(* included, until the retries are used up.                                  *)
Fail(t) ==
    /\ WritesFail
    /\ thread[t].pc = "call"
    /\ \/ late' = late
       \/ Cardinality(late) < MaxLate /\ late' = late \cup {thread[t].req}
    /\ thread' = [thread EXCEPT ![t] =
                    IF thread[t].tries < Retries
                    THEN [@ EXCEPT !.tries = thread[t].tries + 1]
                    ELSE [@ EXCEPT !.pc = "answered", !.resp = "conn"]]
    /\ UNCHANGED <<now, store, cache, cacheTs>>

ServeLate ==
    /\ \E r \in late : late' = late \ {r} /\ store' = After(store, r)
    /\ UNCHANGED <<now, cache, cacheTs, thread>>

DropLate ==
    /\ \E r \in late : late' = late \ {r}
    /\ UNCHANGED <<now, store, cache, cacheTs, thread>>

(* The write is over: the cache is cleared if it has to be, and the loops of   *)
(* the batch and of the cleanup thread go on to the next deletion.            *)
Answered(t) ==
    /\ thread[t].pc = "answered"
    /\ IF Invalidates(thread[t].req, thread[t].resp)
       THEN cache' = None /\ thread' = [thread EXCEPT ![t] = [@ EXCEPT !.pc = "clear"]]
       ELSE cache' = cache /\ WriteDone(t)
    /\ UNCHANGED <<now, store, late, cacheTs>>

(* Mutant of ClearTs: the time stamp is reset to None like the list. *)
ClearTsToNone(t) ==
    /\ thread[t].pc = "clear"
    /\ cacheTs' = None
    /\ WriteDone(t)
    /\ UNCHANGED <<now, store, late, cache>>

(* _invalidate_cache clears the time stamp after the list. *)
ClearTs(t) ==
    /\ thread[t].pc = "clear"
    /\ cacheTs' = Never
    /\ WriteDone(t)
    /\ UNCHANGED <<now, store, late, cache>>

(* Mutant of DeleteNext: the entry stays on the list. *)
DeleteSameAgain(t) ==
    /\ thread[t].pc = "loop"
    /\ \E p \in thread[t].todo :
          thread' = [thread EXCEPT ![t] =
                      [@ EXCEPT !.pc = "call", !.since = now,
                                !.req = Write("DELETE", p, None, thread[t].basis,
                                              thread[t].job.kind, None)]]
    /\ UNCHANGED <<now, store, late, cache, cacheTs>>

(* The loops of _run_lease_cleanup and delete_batch: a failed deletion does   *)
(* not stop the others.                                                      *)
DeleteNext(t) ==
    /\ thread[t].pc = "loop"
    /\ \E p \in thread[t].todo :
          thread' = [thread EXCEPT ![t] =
                      [@ EXCEPT !.pc = "call", !.since = now, !.todo = thread[t].todo \ {p},
                                !.req = Write("DELETE", p, None, thread[t].basis,
                                              thread[t].job.kind, None)]]
    /\ UNCHANGED <<now, store, late, cache, cacheTs>>

(* delete_batch clears the cache once more; the cleanup thread goes on to     *)
(* list the mappings for the upstream reconcile.                              *)
EndLoop(t) ==
    /\ thread[t].pc = "loop"
    /\ thread[t].todo = {}
    /\ IF thread[t].job.kind = "batch"
       THEN cache' = None /\ thread' = [thread EXCEPT ![t] = [@ EXCEPT !.pc = "clear"]]
       ELSE /\ cache' = cache
            /\ thread' = [thread EXCEPT ![t] = Reading([NoJob EXCEPT !.kind = "reconcile"])]
    /\ UNCHANGED <<now, store, late, cacheTs>>

-----------------------------------------------------------------------------
(* GOST keeps services added through its API in memory; its connections go too. *)
GostRestart ==
    /\ Restarts
    /\ store # EmptyTable
    /\ store' = EmptyTable
    /\ late' = {}
    /\ UNCHANGED <<now, cache, cacheTs, thread>>

(* A repository call, its retries included, and an abandoned attempt last at  *)
(* most MaxCall seconds.                                                     *)
InCall(t) == thread[t].pc \notin {"idle", "check", "dead", "popup"}

Tick ==
    /\ now < MaxTime
    /\ \A t \in Threads : InCall(t) => now - thread[t].since < MaxCall
    /\ \A r \in late : now - r.built < MaxCall
    /\ now' = now + 1
    /\ UNCHANGED <<store, late, cache, cacheTs, thread>>

Arrive(t) ==
    \/ ReceiveAdd(t) \/ ReceiveDelete(t) \/ BeginList(t) \/ BeginClean(t)
    \/ WebAdd(t) \/ WebDelete(t) \/ WebDeleteSelected(t) \/ Confirm(t) \/ Cancel(t)

Step(t) ==
    \/ Check(t) \/ Hit(t) \/ ServeGet(t) \/ FailGet(t) \/ Fill(t) \/ Stamp(t) \/ Reread(t)
    \/ Serve(t) \/ Fail(t) \/ Answered(t) \/ ClearTs(t) \/ DeleteNext(t) \/ EndLoop(t)

Next ==
    \/ \E t \in Threads : Arrive(t) \/ Step(t)
    \/ ServeLate \/ DropLate \/ GostRestart \/ Tick

Spec == Init /\ [][Next]_vars

(* A running thread goes on, and an attempt ends: it is answered or it times   *)
(* out.  Nothing says that GOST ever answers, or that jobs arrive.             *)
FairSpec == Spec /\ \A t \in Threads : WF_vars(Step(t))

-----------------------------------------------------------------------------
(* Properties                                                               *)

(* Every variable stays in its domain: the type invariant. *)
TypeOK ==
    /\ now \in Nat
    /\ store \in Table
    /\ late \subseteq Request
    /\ cache \in Snapshot \cup {None}
    /\ cacheTs \in Int
    /\ thread \in [Threads -> Locals]

(* A list get_services may still hand out was produced by GOST less than     *)
(* TTL + 2 * MaxCall ago, although list and time stamp are written apart,    *)
(* by any thread, and the stamp is taken after the answer.                   *)
CacheBounded == Fresh => now - cache.at < TTL + 2 * MaxCall

(* A SOAP write is decided on a list younger than TTL + 3 * MaxCall, or on   *)
(* the [] of a failed read, whatever the other threads do to the cache       *)
(* between the lines of get_services.                                        *)
FreshBasis ==
    \A t \in Threads :
        LET r == thread[t].req
        IN  r # None /\ r.by \in {"add", "delete"} /\ r.basis >= 0
                => r.built - r.basis < TTL + 3 * MaxCall

Pending == {thread[t].req : t \in {u \in Threads : thread[u].pc = "call"}} \cup late

(* The mapping a request finds appeared after the list it was decided on; the  *)
(* list's second and the body's can differ by the length of a call.           *)
Recent(e, r) == e.created >= r.basis - MaxCall

(* Ownership: a renewal or a SOAP deletion about to reach GOST meets a mapping  *)
(* of the client that asked, or one created since the list was read: the check *)
(* of upnp_soap and the write are not one step, and no more than that is lost.  *)
OwnerOrRace ==
    \A r \in Pending :
        LET e == store[r.port]
        IN  /\ e # None
            /\ r.method = "PUT" \/ (r.by = "delete" /\ SecureMode /\ r.basis >= 0)
            => e.owner = r.who \/ Recent(e, r)

(* The cleanup thread deletes a mapping whose lease is over, or one created    *)
(* (renewed included) since the list was read.                                *)
ExpiredOrRace ==
    \A r \in Pending :
        LET e == store[r.port]
        IN  r.by = "expire" /\ e # None => Expired(e, now) \/ Recent(e, r)

(* The cleanup misses nothing: when the loop of _run_lease_cleanup has ended,  *)
(* GOST holds no mapping that had expired a call before the list it worked     *)
(* from was produced, whatever the other threads wrote meanwhile.  A deletion  *)
(* that is lost is not repeated in the same round.                           *)
CleanedUp ==
    ~WritesFail =>
        \A t \in Threads :
            LET L == thread[t]
            IN  L.job.kind = "expire" /\ L.pc = "loop" /\ L.todo = {} =>
                    \A p \in Ports : store[p] # None => ~Expired(store[p], L.basis - MaxCall)

(* A mapping reaches GOST within MaxCall of the second its lease counts from,  *)
(* retried, duplicated or late as the request may be: a lease is never cut     *)
(* short by more, and a deleted mapping never comes back later than that.      *)
LeaseFromRequest ==
    [][\A p \in Ports : store'[p] # None /\ store'[p] # store[p]
                            => now - store'[p].created <= MaxCall]_vars

(* Jobs one after the other, and no write lost: with nobody at work the cached *)
(* list, while it may be used, is what GOST holds.                            *)
Quiet == \A t \in Threads : Resting(t)
CoherentWhenQuiet == Quiet /\ Fresh => cache.m = store

(* A Python list is what get_services is declared to return (-> List), so the  *)
(* cleanup thread, which does not guard the call, keeps running.               *)
CleanerSurvives == \A t \in CleanerThreads : thread[t].pc # "dead"

(* AddPortMapping never renews a port that is another client's.                *)
NoForeignRenewal ==
    \A r \in Pending :
        r.method = "PUT" /\ store[r.port] # None => store[r.port].owner = r.who

(* What is left of a job, in steps of its thread: the lines of get_services, the *)
(* attempts of a write with its answer and the clearing of the cache, and the   *)
(* deletions of a loop; the cleanup lists once more when its loop has ended.    *)
Lines == [check |-> 5, get |-> 4, fill |-> 3, stamp |-> 2, reread |-> 1, hit |-> 1]
WriteSteps == Retries + 3
LoopSteps(deletions, kind) ==
    deletions * (WriteSteps + 1) + (IF kind = "expire" THEN 1 + Lines.check ELSE 2)

StepsBeyond(kind) ==      \* after get_services
    CASE kind \in {"add", "delete"} -> WriteSteps
      [] kind = "expire"            -> LoopSteps(Cardinality(Ports), kind)
      [] OTHER                      -> 0

StepsAround(L) ==         \* in the loop the write belongs to
    IF L.job.kind \in {"expire", "batch"} /\ L.req # None
    THEN LoopSteps(Cardinality(L.todo), L.job.kind)
    ELSE 0

StepsLeft(L) ==
    CASE L.pc \in DOMAIN Lines -> Lines[L.pc] + StepsBeyond(L.job.kind)
      [] L.pc = "call"         -> WriteSteps - L.tries + StepsAround(L)
      [] L.pc = "answered"     -> 2 + StepsAround(L)
      [] L.pc = "clear"        -> 1 + StepsAround(L)
      [] L.pc = "loop"         -> LoopSteps(Cardinality(L.todo), L.job.kind)
      [] OTHER                 -> 0

(* No job goes round in circles: whatever the others do, a thread at work has   *)
(* fewer steps left each time it moves, through retries and loops, and what is   *)
(* left never goes below none.  So a job takes so many steps of its thread.     *)
StepsRunOut ==
    [][\A t \in Threads :
          ~Resting(t) => \/ thread'[t] = thread[t]
                         \/ StepsLeft(thread'[t]) \in 0..(StepsLeft(thread[t]) - 1)]_vars

(* Every job that begins comes to its end, or to the popup: no thread waits for *)
(* another.                                                                  *)
JobsEnd == \A t \in Threads : ~Resting(t) ~> Resting(t)

=============================================================================
