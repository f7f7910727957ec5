---------------------------- MODULE MCEventDedup ----------------------------
(* Instances of EventDedup for TLC: all graphs and weights of a size. *)
EXTENDS EventDedup
=============================================================================
