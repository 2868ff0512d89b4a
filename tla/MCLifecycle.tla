----------------------------- MODULE MCLifecycle -----------------------------
(* Instances of Lifecycle for TLC. *)
EXTENDS Lifecycle

OneCall == 1
OneRound == 1
Capacity == 1
=============================================================================
