----------------------------- MODULE MCRingMemory -----------------------------
(* Instances of RingMemory for TLC. *)
EXTENDS RingMemory
=============================================================================
