------------------------------ MODULE MCLifecycle -----------------------------
(* An instance of Lifecycle for TLC: its constant is a number. *)
EXTENDS Lifecycle
=============================================================================
