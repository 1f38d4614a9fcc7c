--------------------------- MODULE MC_PlanStream ---------------------------
EXTENDS PlanStream

CONSTANTS task, subtask, gone

(* A slow handler before or after the buffer. *)
BothOrders == {<<"slow", "buffer">>, <<"buffer", "slow">>}

(* A task, and the id of a subtask that it does not have. *)
Tasks == [i \in {task, subtask, gone} |-> task]
=============================================================================
