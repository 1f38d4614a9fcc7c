-------------------------- MODULE MC_FallbackModel --------------------------
(* Instances of FallbackModel for TLC. *)
EXTENDS FallbackModel
=============================================================================
