------------------------------ MODULE MCLocals ------------------------------
(* Instances of LocalTracking for TLC. *)
EXTENDS LocalTracking
=============================================================================
