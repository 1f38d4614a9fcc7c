--------------------------- MODULE MC_ToolRuntime ---------------------------
(* Instances of ToolRuntime for TLC. *)
EXTENDS ToolRuntime, TLC

(* Names, implementations and call slots are interchangeable. *)
Symmetry == Permutations(Names) \cup Permutations(Impls) \cup Permutations(Calls)
=============================================================================
