------------------------------ MODULE MCAccessLog -----------------------------
(* An instance of AccessLog for TLC: CPUs are model values, the rest numbers. *)
EXTENDS AccessLog
=============================================================================
