---------------------------- MODULE GatewayTable ----------------------------
(***************************************************************************)
(* The gateway as an implementation of PortTable: GOST's services are the    *)
(* table, and the writes on their way to GOST are the wishes.                *)
(***************************************************************************)
EXTENDS Gateway

(* What a write is about, and at whose wish. *)
WishOf(r) ==
    [op |-> IF r.method = "DELETE" THEN "release" ELSE "grant",
     by |-> CASE r.by \in {"add", "delete"} -> "client"
              [] r.by \in {"web", "batch"}  -> "user"
              [] r.by = "expire"            -> "cleanup",
     who |-> r.who, port |-> r.port]

Wishes == {WishOf(r) : r \in Pending}

(* One job at a time and no failed call: every check is exact. *)
Exact == INSTANCE PortTable WITH
            held <- store, clock <- now, wishes <- Wishes,
            Lag <- MaxCall, Guarded <- SecureMode,
            Window <- -1, ExpireWindow <- -1

(* The gateway grants, releases and expires mappings exactly as the table      *)
(* does: a renewal or a release by the owner, a removal when the lease is over. *)
ExactTable == Exact!TableSpec

(* Jobs interleave: a decision is at most TTL + 3 calls old when its write is  *)
(* built, the write is at most a call old when it is served, and a mapping may *)
(* have been built a call before the list missed it.  The deletions of one     *)
(* cleanup share a list.                                                     *)
Window == TTL + 5 * MaxCall - 1
Windowed == INSTANCE PortTable WITH
            held <- store, clock <- now, wishes <- Wishes,
            Lag <- MaxCall, Guarded <- SecureMode,
            ExpireWindow <- Window + Cardinality(Ports) * MaxCall

(* Interleaved, retried and late writes included, a renewal, a release or an   *)
(* expiry only ever misses mappings younger than the window.                  *)
WindowedTable == Windowed!TableSpec

(* When the loop of _run_lease_cleanup has ended, on a list that GOST produced, *)
(* no mapping is left that expired longer ago than the list may be old and the  *)
(* deletions of the round take.                                              *)
CleanedInTime ==
    ~WritesFail =>
        \A t \in Threads :
            LET L == thread[t]
                bound == TTL + (4 + Cardinality(Ports)) * MaxCall
            IN  L.job.kind = "expire" /\ L.pc = "loop" /\ L.todo = {} /\ L.basis >= 0 =>
                    \A p \in Ports : store[p] # None => ~Expired(store[p], now - bound + 1)

=============================================================================
