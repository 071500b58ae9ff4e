-------------------------- MODULE GatewayInvariant --------------------------
(***************************************************************************)
(* Why CacheBounded, OwnerOrRace and ExpiredOrRace hold: the inductive        *)
(* invariant behind them.                                                    *)
(*   - every list, cached or in flight, says of each port what GOST holds, or *)
(*     GOST holds nothing there, or something built later than a call before  *)
(*     the list (Shows);                                                     *)
(*   - a list is hardly older than the time stamp, the job or the answer that *)
(*     vouches for it (the clock parts);                                     *)
(*   - so a write decided on a list keeps its justification while it is       *)
(*     under way, whatever the other threads write meanwhile (Justified).     *)
(***************************************************************************)
EXTENDS GatewayTable

(* A job that reaches the list carries what its handler needs, and a write is  *)
(* there while it is sent and answered.                                       *)
Fits(L) ==
    /\ L.job.kind = "add" => L.job.client \in Clients /\ L.job.port \in Ports
    /\ L.job.kind = "delete" => L.job.remote \in Clients /\ L.job.port \in Ports
    /\ L.pc \in {"call", "answered"} => L.req # None
    /\ L.pc = "fill" => L.got # None
    /\ L.pc = "loop" => L.job.kind \in {"expire", "batch"}
    /\ L.pc = "popup" => L.job.kind = "batch"

JobShape == \A t \in Threads : Fits(thread[t])

TypeInv == TypeOK /\ JobShape

(* Nothing but a mapping built after X.at - MaxCall has appeared since list X. *)
Shows(X) ==
    X # None => \A p \in Ports : \/ store[p] = X.m[p]
                                 \/ store[p] = None
                                 \/ store[p].created >= X.at - MaxCall

(* A write on the wire was built at most MaxCall ago and its lease counts from *)
(* that second.                                                              *)
Timed(r) ==
    /\ r.built <= now
    /\ now - r.built <= MaxCall
    /\ r.basis <= now
    /\ r.body # None => r.body.created = r.built

(* What OwnerOrRace and ExpiredOrRace say of one request. *)
Justified(r) ==
    LET e == store[r.port]
    IN  e # None =>
          /\ r.method = "PUT" \/ (r.by = "delete" /\ SecureMode /\ r.basis >= 0)
                => e.owner = r.who \/ Recent(e, r)
          /\ r.by = "expire" => Expired(e, now) \/ Recent(e, r)

SharedInv ==
    /\ cacheTs <= now
    /\ cache # None => /\ cache.at \in 0..now
                       /\ cache.at >= cacheTs - 2 * MaxCall
    /\ Shows(cache)
    /\ \A r \in late : Timed(r) /\ Justified(r)

(* The cached list, seen by a thread in the middle of get_services. *)
ListAge(L) ==
    cache # None =>
        /\ L.pc \in {"stamp", "reread"} => cache.at >= L.since - MaxCall
        /\ L.pc = "hit" => cache.at > L.since - TTL - 2 * MaxCall

InFlight(L) ==
    /\ L.got # None => L.got.at \in 0..now
    /\ L.pc = "fill" => L.got.at >= L.since
    /\ Shows(L.got)

OnWire(L) ==
    /\ L.pc = "call" => L.req.built = L.since /\ Timed(L.req) /\ Justified(L.req)
    /\ L.req # None /\ L.req.by \in {"add", "delete"} /\ L.req.basis >= 0
          => L.req.built - L.req.basis < TTL + 3 * MaxCall

(* The deletions still to send: expired, gone, or renewed since the list. *)
Remaining(L) ==
    /\ L.basis <= now
    /\ L.job.kind = "expire" =>
          \A p \in L.todo : \/ store[p] = None
                            \/ Expired(store[p], now)
                            \/ store[p].created >= L.basis - MaxCall

LocalInv(t) ==
    LET L == thread[t]
    IN  /\ InCall(t) => L.since <= now /\ now - L.since <= MaxCall
        /\ ListAge(L)
        /\ InFlight(L)
        /\ OnWire(L)
        /\ Remaining(L)

IInv == TypeInv /\ SharedInv /\ \A t \in Threads : LocalInv(t)

=============================================================================
