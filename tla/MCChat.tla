-------------------------------- MODULE MCChat --------------------------------
(* Instances of Chat for TLC.                                              *)
EXTENDS Chat

MCItems == 1..4
MCRecent == {2, 4}
MCOnTopic == {1, 2, 4}
=============================================================================
