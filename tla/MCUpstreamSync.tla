--------------------------- MODULE MCUpstreamSync ---------------------------
(* Instances of UpstreamSync for TLC.                                       *)
EXTENDS UpstreamSync, FiniteSetsExt

(* Ports are numbers, listed in their order. *)
Least(P) == Min(P)
=============================================================================
