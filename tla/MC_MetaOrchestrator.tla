------------------------ MODULE MC_MetaOrchestrator ------------------------
EXTENDS MetaOrchestrator

(* The planner answers with nothing, one subtask, or one more than the bound. *)
Short == {<<>>} \cup [1..1 -> Names] \cup {<<n, n>> : n \in Names}
=============================================================================
