--------------------------- MODULE MC_LocalMemory ---------------------------
(* Instances of LocalMemory for TLC. *)
EXTENDS LocalMemory, TLC

(* Tasks, ids, topics and connections are interchangeable. *)
Symmetry == Permutations(Tasks) \cup Permutations(Ids) \cup Permutations(Topics)
                \cup Permutations(Conns)
=============================================================================
