---------------------------- MODULE MCTokenClient ----------------------------
(* Instances of TokenClient for TLC: its callers are model values. *)
EXTENDS TokenClient
=============================================================================
