------------------------------ MODULE PortTable ------------------------------
(***************************************************************************)
(* What alter_upnpd promises its clients, without the repository, its cache *)
(* or its threads: a table of port mappings with owners and leases, which    *)
(* changes at somebody's wish only.  A client's wish gets it a free port or   *)
(* renews its mapping, or releases it; the user of the web page may add and   *)
(* release any; and what is over may be removed.                             *)
(*                                                                          *)
(* The code checks before it writes and holds no lock, so the promise is     *)
(* exact only for mappings old enough to be in the list it looked at: the    *)
(* other mappings are the Young ones.  With a window of -1 none is.          *)
(***************************************************************************)
EXTENDS Integers

CONSTANTS Ports, Clients, None, MaxLease,
          WebLeases,     \* leases the user may give
          Lag,           \* seconds from building a mapping to GOST holding it
          Window,        \* age up to which a renewal or a release may miss a mapping
          ExpireWindow,  \* the same for the cleanup thread
          Guarded,       \* only the owner releases (SECURE_MODE)
          Restarts       \* the table may be lost

VARIABLES held, clock, wishes

tableVars == <<held, clock, wishes>>

(* The wish of a client, of the user or of the cleanup, not yet fulfilled. *)
Wish(op, by, who, p) == [op |-> op, by |-> by, who |-> who, port |-> p]

Young(e, window) == clock - e.created <= window

Over(e) == e.lease > 0 /\ clock >= e.created + e.lease

Start == held = [p \in Ports |-> None] /\ clock = 0 /\ wishes = {}

(* A lease counts from the second the mapping was built, at most Lag ago.    *)
Give(p, client, leases) ==
    \E age \in 0..Lag, l \in leases :
        /\ clock - age \in Nat
        /\ held' = [held EXCEPT ![p] = [owner |-> client, created |-> clock - age, lease |-> l]]

Take(p) == held[p] # None /\ held' = [held EXCEPT ![p] = None]

(* A grant or a renewal, with a lease of at most MaxLease. *)
Grant(p, client) ==
    /\ Wish("grant", "client", client, p) \in wishes
    /\ held[p] = None \/ held[p].owner = client \/ Young(held[p], Window)
    /\ Give(p, client, 1..MaxLease)

Release(p, client) ==
    /\ Wish("release", "client", client, p) \in wishes
    /\ Take(p)
    /\ Guarded => held[p].owner = client \/ Young(held[p], Window)

UserGrant(p, client) ==
    /\ Wish("grant", "user", None, p) \in wishes
    /\ held[p] = None
    /\ Give(p, client, WebLeases)

UserRelease(p) == Wish("release", "user", None, p) \in wishes /\ Take(p)

Expire(p) ==
    /\ Wish("release", "cleanup", None, p) \in wishes
    /\ Take(p)
    /\ Over(held[p]) \/ Young(held[p], ExpireWindow)

Lose == Restarts /\ held' = [p \in Ports |-> None]

Advance == clock' = clock + 1 /\ UNCHANGED <<held, wishes>>

Ask == UNCHANGED <<held, clock>>

(* A wish that is fulfilled, or lost, is no longer there. *)
Change ==
    \/ /\ \/ \E p \in Ports, client \in Clients :
                Grant(p, client) \/ Release(p, client) \/ UserGrant(p, client)
          \/ \E p \in Ports : UserRelease(p) \/ Expire(p)
          \/ Lose
       /\ wishes' \subseteq wishes
       /\ UNCHANGED clock
    \/ Advance
    \/ Ask

TableSpec == Start /\ [][Change]_tableVars

=============================================================================
