---------------------------- MODULE MCLifecycle ----------------------------
(* Instances of Lifecycle for TLC.                                          *)
EXTENDS Lifecycle

(* Every signal but Ctrl-C on the directly run program. *)
ServiceSignals == (Servers \X {"TERM", "INT"}) \ {<<"direct", "INT">>}

=============================================================================
