-------------------------------- MODULE MCLLM --------------------------------
(* Instances of LLMClassifier for TLC: its calls are model values. *)
EXTENDS LLMClassifier
=============================================================================
