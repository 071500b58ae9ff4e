---------------------------- MODULE GostRegistry ----------------------------
(***************************************************************************)
(* The /config/services resource of the GOST API, as src/app/gost_client.py *)
(* uses it: one service per external port (its name is built from the port  *)
(* and the protocol; here a port stands for the pair), created by POST,     *)
(* replaced by PUT, removed by DELETE.  GOST is another program; this       *)
(* module is what the repository expects of it.                             *)
(***************************************************************************)
CONSTANTS Ports,      \* (external port, protocol) pairs
          None        \* the absence of a service, a list or a request

(* POST creates a service that does not exist; PUT and DELETE need one that does. *)
Applies(table, r) ==
    IF r.method = "POST" THEN table[r.port] = None ELSE table[r.port] # None

(* The table after a request: the body of a DELETE is None. *)
After(table, r) ==
    IF Applies(table, r) THEN [table EXCEPT ![r.port] = r.body] ELSE table

(* What the transport makes of the HTTP status: a result, a 404, another error. *)
Answer(table, r) ==
    IF Applies(table, r) THEN "ok"
    ELSE IF r.method = "POST" THEN "refused" ELSE "missing"

=============================================================================
