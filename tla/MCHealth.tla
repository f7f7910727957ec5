------------------------------- MODULE MCHealth -------------------------------
(* Instances of Health for TLC: a tick is fifteen minutes, one tier fires  *)
(* every tick and the other every second one.                              *)
EXTENDS Health

CONSTANTS leading, hn

MCInterval == (leading :> 1) @@ (hn :> 2)
=============================================================================
