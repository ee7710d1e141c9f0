---------------------------- MODULE MCLifecycle ----------------------------
(* Main, the network thread and one function thread on a queue of three    *)
(* places: each of them may find it full.                                  *)
EXTENDS Lifecycle

MCText == [p \in Producers |-> IF p = Main THEN "shutting down" ELSE "report"]
=============================================================================
