---------------------------- MODULE UpstreamSync ----------------------------
(***************************************************************************)
(* The mirror of the port mappings on an upstream IGD (UPSTREAM_IGD_URL set).*)
(* A SOAP request forwards what it did to GOST; the WebUI and the expiry of   *)
(* leases do not; once per round the lease-cleanup thread restores upstream   *)
(* what its list of GOST's mappings has and the IGD has not.  Both use one    *)
(* miniupnpc object, which only the cleanup thread drops, and one list of     *)
(* services, cached for TTL, which every thread fills, stamps, clears and     *)
(* reads again without a lock: get_services stops at each of these lines.     *)
(*                                                                          *)
(* A mapping is its port: which of the listed leases are over is Gateway's    *)
(* question (CollectExpired), here any of them may be, and the IGD may drop   *)
(* a mapping, its lease over, whenever it likes.  Ages are counted instead    *)
(* of a clock, so that behaviours do not end.                                *)
(***************************************************************************)
EXTENDS Integers

CONSTANTS
    Ports,        \* external ports
    Others,       \* mappings GOST may list too, of which no state is kept
    First(_),     \* the one of a set of mappings that GOST lists first
    None,         \* no list, no port
    Requests,     \* threads of SOAP requests and WebUI sessions, readers of the list
    Cleanup,      \* the lease-cleanup thread
    TTL,          \* services_cache_ttl
    Interval,     \* lease_cleanup_interval
    GostFails,    \* calls of GOST may fail, a write after it was applied or before
    IgdFails,     \* calls of the IGD may fail
    IgdRestarts,  \* the IGD may lose its mappings
    GostRestarts, \* GOST may lose its services
    MaxCall,      \* bound: seconds get_services may take
    MaxRound      \* bound: seconds a cleanup round or a request may take

ASSUME NoneAssumption == None \notin Ports /\ \A P \in SUBSET Ports : P # None
ASSUME OthersAssumption == Ports \cap Others = {}
ASSUME ThreadAssumption == Cleanup \notin Requests
ASSUME FirstAssumption == \A P \in SUBSET (Ports \cup Others) : P # {} => First(P) \in P
ASSUME TimesAssumption == /\ TTL \in Nat \ {0}
                          /\ Interval \in Nat
                          /\ MaxCall \in Nat
                          /\ MaxRound \in Nat

VARIABLES
    store,     \* GOST's services
    cache,     \* _services_cache
    stamp,     \* seconds since _services_cache_ts, TTL when they are as many or more
    up,        \* the upstream IGD's port mappings
    upnp,      \* self._upnp: no object, one that works, one gone stale
    thread,    \* what each thread is doing
    gone       \* ghost: seconds since GOST last had a mapping of the port

vars == <<store, cache, stamp, up, upnp, thread, gone>>

Threads == Requests \cup {Cleanup}
List == SUBSET Ports

(* What GOST has not had for as long as Window can be on nobody's list.        *)
Window == TTL + 2 * MaxCall + MaxRound

InCall(L)  == L.pc \in {"hit", "get", "fill", "stamp", "reread"}
Resting(L) == L.pc \in {"idle", "dead"}

Locals == [pc : {"idle", "hit", "get", "fill", "stamp", "reread", "write", "clear", "clearTs",
                 "ensure", "forward", "loop", "beat", "connect", "query", "restore", "dead"},
           job : {"none", "read", "add", "delete", "webadd", "webdelete", "expire", "reconcile"},
           port : Ports \cup {None},
           call : 0..MaxCall,              \* seconds in get_services
           since : 0..(Interval + MaxRound), \* seconds of the job, or of the wait for it
           got : {None} \cup List,         \* the answer of the GET in flight
           todo : SUBSET (Ports \cup Others)] \* mappings the cleanup's loop has yet to come to

Rest == [pc |-> "idle", job |-> "none", port |-> None, call |-> 0, since |-> 0,
         got |-> None, todo |-> {}]

TypeOK ==
    /\ store \in List
    /\ cache \in {None} \cup List
    /\ stamp \in 0..TTL
    /\ up \in List
    /\ upnp \in {"none", "ready", "stale"}
    /\ thread \in [Threads -> Locals]
    /\ gone \in [Ports -> 0..Window]

(* GOST and the IGD may have mappings from before the gateway was started.     *)
Init ==
    /\ store \in List
    /\ cache = None
    /\ stamp = TTL
    /\ up \in List
    /\ upnp = "none"
    /\ thread = [t \in Threads |-> IF t = Cleanup THEN [Rest EXCEPT !.since = Interval]
                                                 ELSE Rest]  \* the first round is at once
    /\ gone = [p \in Ports |-> IF p \in store THEN 0 ELSE Window]

-----------------------------------------------------------------------------
Goto(t, L) == thread' = [thread EXCEPT ![t] = L]
At(t, pc) == thread[t].pc = pc

(* GOST's services become S.                                                 *)
Becomes(S) ==
    /\ store' = S
    /\ gone' = [p \in Ports |-> IF p \in store \cup S THEN 0 ELSE gone[p]]

-----------------------------------------------------------------------------
(* get_services                                                             *)

(* Mutant of Fresh: the list never gets too old. *)
FreshForever == cache # None

Fresh == cache # None /\ stamp < TTL

(* The call begins: the list is taken from the cache, or the cache is emptied. *)
CallList(t, L) ==
    /\ cache' = IF Fresh THEN cache ELSE None
    /\ Goto(t, [L EXCEPT !.pc = IF Fresh THEN "hit" ELSE "get", !.call = 0])

(* A reader goes its way; a SOAP handler refuses, or writes.                   *)
HandToRequest(t, X) ==
    \/ Goto(t, Rest)
    \/ /\ X # None
       /\ \E job \in {"add", "delete"}, p \in Ports :
             Goto(t, [thread[t] EXCEPT !.pc = "write", !.job = job, !.port = p, !.call = 0])

(* Nothing catches the TypeError of a list that is None.                       *)
HandToExpire(t, X) ==
    \/ X = None /\ Goto(t, [Rest EXCEPT !.pc = "dead"])
    \/ /\ X # None
       /\ \E over \in SUBSET X :
             Goto(t, [thread[t] EXCEPT !.pc = "loop", !.todo = over, !.call = 0])

(* Here it is caught, and the round is over.                                  *)
HandToReconcile(t, X) ==
    \/ X = None /\ Goto(t, Rest)
    \/ /\ X # None
       /\ \E others \in SUBSET Others :
             Goto(t, [thread[t] EXCEPT !.pc = "beat", !.todo = X \cup others, !.call = 0])

Deliver(t, X) ==
    \/ thread[t].job = "read" /\ HandToRequest(t, X)
    \/ thread[t].job = "expire" /\ HandToExpire(t, X)
    \/ thread[t].job = "reconcile" /\ HandToReconcile(t, X)

ServeGet(t) ==
    /\ At(t, "get")
    /\ Goto(t, [thread[t] EXCEPT !.pc = "fill", !.got = store])
    /\ UNCHANGED <<store, cache, stamp, up, upnp, gone>>

(* GOST cannot be asked, or answers with an error: an empty list.              *)
FailGet(t) ==
    /\ GostFails
    /\ At(t, "get")
    /\ Deliver(t, {})
    /\ UNCHANGED <<store, cache, stamp, up, upnp, gone>>

(* The answer is stored, whatever was written and cleared since it was given.   *)
Fill(t) ==
    /\ At(t, "fill")
    /\ cache' = thread[t].got
    /\ Goto(t, [thread[t] EXCEPT !.pc = "stamp", !.got = None])
    /\ UNCHANGED <<store, stamp, up, upnp, gone>>

(* The stamp vouches for the list that is there by now.                       *)
Stamp(t) ==
    /\ At(t, "stamp")
    /\ stamp' = 0
    /\ Goto(t, [thread[t] EXCEPT !.pc = "reread"])
    /\ UNCHANGED <<store, cache, up, upnp, gone>>

(* The cache is read again to be returned: it may be empty, or another's list. *)
Return(t) ==
    /\ thread[t].pc \in {"hit", "reread"}
    /\ Deliver(t, cache)
    /\ UNCHANGED <<store, cache, stamp, up, upnp, gone>>

-----------------------------------------------------------------------------
(* Writes                                                                   *)

AfterWrite(L) ==
    IF L.job \in {"add", "webadd"} THEN store \cup {L.port} ELSE store \ {L.port}

ReceiveRequest(t) ==
    /\ t \in Requests /\ At(t, "idle")
    /\ CallList(t, [Rest EXCEPT !.job = "read"])
    /\ UNCHANGED <<store, stamp, up, upnp, gone>>

(* The WebUI's owner check is none: what a session read before is a request of  *)
(* its own that came to nothing.                                             *)
WebWrite(t) ==
    /\ t \in Requests /\ At(t, "idle")
    /\ \E job \in {"webadd", "webdelete"}, p \in Ports :
          Goto(t, [Rest EXCEPT !.pc = "write", !.job = job, !.port = p])
    /\ UNCHANGED <<store, cache, stamp, up, upnp, gone>>

(* A deletion is done whether GOST had the mapping or not.                     *)
WriteDone(t) ==
    /\ At(t, "write")
    /\ Becomes(AfterWrite(thread[t]))
    /\ Goto(t, [thread[t] EXCEPT !.pc = "clear"])
    /\ UNCHANGED <<cache, stamp, up, upnp>>

(* Refused, or lost, maybe after it was applied: nothing is cleared, nothing   *)
(* forwarded; only delete_batch clears the cache in the end all the same.      *)
WriteFails(t) ==
    /\ At(t, "write")
    /\ \/ Becomes(store)
       \/ GostFails /\ Becomes(AfterWrite(thread[t]))
    /\ \/ Goto(t, Rest)
       \/ thread[t].job = "webdelete" /\ Goto(t, [thread[t] EXCEPT !.pc = "clear"])
    /\ UNCHANGED <<cache, stamp, up, upnp>>

(* _invalidate_cache: the list, then the time stamp.                           *)
Clear(t) ==
    /\ At(t, "clear")
    /\ cache' = None
    /\ Goto(t, [thread[t] EXCEPT !.pc = "clearTs"])
    /\ UNCHANGED <<store, stamp, up, upnp, gone>>

AfterClearing(L) ==
    IF L.job = "expire" THEN [L EXCEPT !.pc = "loop"]
    ELSE IF L.job \in {"add", "delete"} THEN [L EXCEPT !.pc = "ensure"] ELSE Rest

(* Mutant of ClearTs: the time stamp is reset to None like the list. *)
ClearTsToNone(t) ==
    /\ At(t, "clearTs")
    /\ stamp' = None
    /\ Goto(t, AfterClearing(thread[t]))
    /\ UNCHANGED <<store, cache, up, upnp, gone>>

ClearTs(t) ==
    /\ At(t, "clearTs")
    /\ stamp' = TTL
    /\ Goto(t, AfterClearing(thread[t]))
    /\ UNCHANGED <<store, cache, up, upnp, gone>>

-----------------------------------------------------------------------------
(* The forwarding of a SOAP request                                          *)

(* The forwarder makes sure of an object, connecting to the IGD if there is none. *)
SoapEnsure(t) ==
    /\ At(t, "ensure")
    /\ \/ upnp # "none" /\ Goto(t, [thread[t] EXCEPT !.pc = "forward"]) /\ upnp' = upnp
       \/ upnp = "none" /\ Goto(t, [thread[t] EXCEPT !.pc = "forward"]) /\ upnp' = "ready"
       \/ upnp = "none" /\ IgdFails /\ Goto(t, Rest) /\ upnp' = upnp
    /\ UNCHANGED <<store, cache, stamp, up, gone>>

(* The object may be gone or stale by now; whatever is raised is only logged. *)
SoapForward(t) ==
    /\ At(t, "forward")
    /\ \/ /\ upnp = "ready"
          /\ up' = IF thread[t].job = "add" THEN up \cup {thread[t].port}
                                            ELSE up \ {thread[t].port}
       \/ (upnp # "ready" \/ IgdFails) /\ up' = up
    /\ Goto(t, Rest)
    /\ UNCHANGED <<store, cache, stamp, upnp, gone>>

-----------------------------------------------------------------------------
(* A round of the lease-cleanup thread                                      *)

Wake ==
    /\ At(Cleanup, "idle") /\ thread[Cleanup].since >= Interval
    /\ CallList(Cleanup, [Rest EXCEPT !.job = "expire"])
    /\ UNCHANGED <<store, stamp, up, upnp, gone>>

(* An expired mapping goes at GOST only: the IGD counts its own lease. *)
DeleteExpired ==
    /\ At(Cleanup, "loop")
    /\ \E p \in thread[Cleanup].todo :
          /\ Becomes(store \ {p})
          /\ Goto(Cleanup, [thread[Cleanup] EXCEPT !.pc = "clear", !.todo = @ \ {p}])
    /\ UNCHANGED <<cache, stamp, up, upnp>>

(* A deletion that fails is only logged, applied or not; the loop goes on.      *)
DeletionFails ==
    /\ GostFails
    /\ At(Cleanup, "loop")
    /\ \E p \in thread[Cleanup].todo :
          /\ Becomes(store) \/ Becomes(store \ {p})
          /\ Goto(Cleanup, [thread[Cleanup] EXCEPT !.todo = @ \ {p}])
    /\ UNCHANGED <<cache, stamp, up, upnp>>

(* The mappings are listed again, for the reconcile step. *)
ListMappings ==
    /\ At(Cleanup, "loop") /\ thread[Cleanup].todo = {}
    /\ CallList(Cleanup, [thread[Cleanup] EXCEPT !.job = "reconcile"])
    /\ UNCHANGED <<store, stamp, up, upnp, gone>>

EndRound == Goto(Cleanup, Rest)

StartQueries == Goto(Cleanup, [thread[Cleanup] EXCEPT !.pc = "query"])

(* _ensure_upnp_connected: the object is tried, and dropped if it fails. *)
HeartbeatOk ==
    /\ At(Cleanup, "beat") /\ upnp = "ready"
    /\ StartQueries
    /\ UNCHANGED <<store, cache, stamp, up, upnp, gone>>

HeartbeatLost ==
    /\ At(Cleanup, "beat")
    /\ upnp # "ready" \/ IgdFails
    /\ upnp' = "none"
    /\ Goto(Cleanup, [thread[Cleanup] EXCEPT !.pc = "connect"])
    /\ UNCHANGED <<store, cache, stamp, up, gone>>

(* A SOAP request may have connected meanwhile; its object is taken as it is. *)
ConnectOk ==
    /\ At(Cleanup, "connect")
    /\ upnp' = IF upnp = "none" THEN "ready" ELSE upnp
    /\ StartQueries
    /\ UNCHANGED <<store, cache, stamp, up, gone>>

ConnectFails ==
    /\ At(Cleanup, "connect") /\ upnp = "none" /\ IgdFails
    /\ EndRound
    /\ UNCHANGED <<store, cache, stamp, up, upnp, gone>>

Asked == First(thread[Cleanup].todo)

(* The loop goes on; what it has passed is not looked at again. *)
NextMapping == Goto(Cleanup, [thread[Cleanup] EXCEPT !.pc = "query", !.todo = @ \ {Asked}])

QueryOk ==
    /\ At(Cleanup, "query") /\ thread[Cleanup].todo # {} /\ upnp = "ready"
    /\ \/ Asked \in up \cup Others /\ NextMapping
       \/ Asked \notin up /\ Goto(Cleanup, [thread[Cleanup] EXCEPT !.pc = "restore"])
    /\ UNCHANGED <<store, cache, stamp, up, upnp, gone>>

(* Mutant of QueryFails: the round is given up. *)
QueryFailureEndsRound ==
    /\ At(Cleanup, "query") /\ thread[Cleanup].todo # {}
    /\ upnp # "ready" \/ IgdFails
    /\ EndRound
    /\ UNCHANGED <<store, cache, stamp, up, upnp, gone>>

(* A mapping that cannot be looked up is skipped, the others are not. *)
QueryFails ==
    /\ At(Cleanup, "query") /\ thread[Cleanup].todo # {}
    /\ upnp # "ready" \/ IgdFails
    /\ NextMapping
    /\ UNCHANGED <<store, cache, stamp, up, upnp, gone>>

RestoreOk ==
    /\ At(Cleanup, "restore") /\ upnp = "ready"
    /\ up' = up \cup ({Asked} \cap Ports)
    /\ NextMapping
    /\ UNCHANGED <<store, cache, stamp, upnp, gone>>

RestoreFails ==
    /\ At(Cleanup, "restore")
    /\ upnp # "ready" \/ IgdFails
    /\ NextMapping
    /\ UNCHANGED <<store, cache, stamp, up, upnp, gone>>

(* Nothing was listed, or nothing is left. *)
EndQueries ==
    /\ At(Cleanup, "query") /\ thread[Cleanup].todo = {}
    /\ EndRound
    /\ UNCHANGED <<store, cache, stamp, up, upnp, gone>>

-----------------------------------------------------------------------------
(* The surroundings                                                         *)

IgdExpires ==
    /\ \E p \in up : up' = up \ {p}
    /\ UNCHANGED <<store, cache, stamp, upnp, thread, gone>>

IgdRestart ==
    /\ IgdRestarts
    /\ up' = {}
    /\ upnp' \in IF upnp = "none" THEN {"none"} ELSE {upnp, "stale"}
    /\ UNCHANGED <<store, cache, stamp, thread, gone>>

GostRestart ==
    /\ GostRestarts
    /\ Becomes({})
    /\ UNCHANGED <<cache, stamp, up, upnp, thread>>

(* An abandoned attempt of a write is served late.                            *)
LateWrite ==
    /\ GostFails
    /\ \E p \in Ports : Becomes(store \cup {p}) \/ Becomes(store \ {p})
    /\ UNCHANGED <<cache, stamp, up, upnp, thread>>

Later(n, most) == IF n < most THEN n + 1 ELSE most

(* The cleanup thread waits its interval out; a dead one waits for nothing.     *)
LaterIn(L, t) ==
    [L EXCEPT !.call = IF InCall(L) THEN @ + 1 ELSE @,
              !.since = IF ~Resting(L) THEN @ + 1
                        ELSE IF t = Cleanup /\ L.pc = "idle" /\ @ < Interval THEN @ + 1
                        ELSE @]

Tick ==
    /\ \A t \in Threads : /\ InCall(thread[t]) => thread[t].call < MaxCall
                          /\ ~Resting(thread[t]) => thread[t].since < MaxRound
    /\ stamp' = Later(stamp, TTL)
    /\ thread' = [t \in Threads |-> LaterIn(thread[t], t)]
    /\ gone' = [p \in Ports |-> IF p \in store THEN 0 ELSE Later(gone[p], Window)]
    /\ UNCHANGED <<store, cache, up, upnp>>

-----------------------------------------------------------------------------
Step(t) ==
    \/ ServeGet(t) \/ FailGet(t) \/ Fill(t) \/ Stamp(t) \/ Return(t)
    \/ WriteDone(t) \/ WriteFails(t) \/ Clear(t) \/ ClearTs(t)
    \/ SoapEnsure(t) \/ SoapForward(t)

Round ==
    \/ Wake \/ DeleteExpired \/ DeletionFails \/ ListMappings
    \/ HeartbeatOk \/ HeartbeatLost \/ ConnectOk \/ ConnectFails
    \/ QueryOk \/ QueryFails \/ RestoreOk \/ RestoreFails \/ EndQueries

Next ==
    \/ \E t \in Threads : ReceiveRequest(t) \/ WebWrite(t) \/ Step(t)
    \/ Round
    \/ IgdExpires \/ IgdRestart \/ GostRestart \/ LateWrite
    \/ Tick

Spec == Init /\ [][Next]_vars

(* Threads run and time passes.  Nothing says that GOST or the IGD answers.    *)
FairSpec ==
    /\ Spec
    /\ \A t \in Requests : WF_vars(Step(t))
    /\ WF_vars(Step(Cleanup) \/ Round)
    /\ WF_vars(Tick)

-----------------------------------------------------------------------------
(* Properties                                                               *)

(* Nothing appears on the IGD that GOST has not had for as long as Window: a   *)
(* cached list, its stamp two calls late, and then a round.  Reconcile brings  *)
(* back what was just deleted, never an old mapping, though a list may be      *)
(* stored after the deletion that cleared the cache.                          *)
NothingOldReturns ==
    [][\A p \in Ports : p \in up' \ up /\ p \notin store => gone[p] < Window]_vars

(* The IGD lets itself be connected to, and answers about a port, if it is     *)
(* asked again and again.                                                   *)
Answers(p) ==
    /\ SF_vars(ConnectOk /\ p \in thread[Cleanup].todo)
    /\ SF_vars(QueryOk /\ Asked = p)
    /\ SF_vars(RestoreOk /\ Asked = p)

(* Reconcile is handed a list of GOST's, not None and not the empty list of a  *)
(* failed read.                                                             *)
ReconcileListed == thread[Cleanup].job = "reconcile" /\ cache # None /\ Return(Cleanup)

(* A mapping is on the IGD at last, or no longer at GOST, if reconcile gets a  *)
(* list again and again, so that the cleanup thread has not died of a None at  *)
(* lifecycle.py:120, and if the IGD answers about that port and restarts only  *)
(* so many times.  What it does with the other ports is no hindrance (the      *)
(* `continue` of reconcile), nor are deletions that fail or lists that are old. *)
Mirrored ==
    \A p \in Ports :
        Answers(p) /\ []<><<ReconcileListed>>_vars /\ <>[][~IgdRestart]_vars =>
            (p \in store ~> p \in up \/ p \notin store)

-----------------------------------------------------------------------------
(* Why nothing old returns: whoever may yet bring a mapping to the IGD knows   *)
(* it from GOST, and since when it may be gone there is bounded by how long    *)
(* its knowledge has been kept.                                              *)
KnownSince(P, seconds) == \A p \in P : p \notin store => gone[p] <= seconds

(* The stamp is taken up to a call after the answer it was meant for, and may  *)
(* stand beside one that is a call older.                                    *)
CacheRecent == Fresh => KnownSince(cache, stamp + 2 * MaxCall)

(* A thread that found the cache too old has emptied it: what is there by now  *)
(* was filled during its call, with an answer at most a call older.            *)
Missed(L) == L.pc \in {"get", "fill", "stamp", "reread"}

CallKnows(L) ==
    /\ L.pc = "fill" => L.got # None /\ KnownSince(L.got, L.call)
    /\ Missed(L) /\ cache # None => KnownSince(cache, L.call + MaxCall)
    /\ L.pc = "hit" /\ cache # None => KnownSince(cache, TTL - 1 + 2 * MaxCall + L.call)

CallRecent == \A t \in Threads : CallKnows(thread[t])

(* The list of a round is one that a call returned, and the round goes on.     *)
HasList(L) == L.pc \in {"beat", "connect", "query", "restore"}

RoundKnows(L) ==
    /\ InCall(L) => L.call <= L.since
    /\ HasList(L) => KnownSince(L.todo \cap Ports, TTL - 1 + 2 * MaxCall + L.since)
    /\ L.pc = "restore" => L.todo # {}

RoundRecent == RoundKnows(thread[Cleanup])

(* What a request has yet to forward it has put at GOST itself.                *)
Written(L) == L.pc \in {"clear", "clearTs", "ensure", "forward"}

WriterKnows(L) ==
    /\ ~Resting(L) => L.since <= MaxRound
    /\ L.job \in {"add", "webadd"} => L.port # None
    /\ L.pc = "loop" => L.job = "expire"
    /\ Written(L) /\ L.job = "add" => KnownSince({L.port}, L.since)

ForwardRecent == \A t \in Threads : WriterKnows(thread[t])

IInv == TypeOK /\ CacheRecent /\ CallRecent /\ RoundRecent /\ ForwardRecent
=============================================================================
