--------------------------- MODULE GoalExecution ---------------------------
(***************************************************************************)
(* What MetaOrchestrator.solve (orqest/autonomy/meta.py) promises, without *)
(* agents, hooks and memory: a goal gets a plan, every subtask of the plan *)
(* gets exactly one result in order, and a plan is rewritten only behind   *)
(* the last result, after a success, and only so many times.               *)
(***************************************************************************)
EXTENDS Integers, Sequences

CONSTANTS
    Tasks,                \* concurrent calls of solve
    Names,                \* subtask names
    MaxSubtasks,          \* max_subtasks
    MaxRedecompositions   \* metacognition.max_redecompositions; 0 without one

VARIABLES
    phase,     \* per task: "idle", "planning", "working", "done", "failed", "cancelled"
    plan,      \* per task: the names of its subtasks
    results,   \* per task: the results so far
    replans    \* per task: how often the plan was rewritten

vars == <<phase, plan, results, replans>>

Result == [name : Names, ok : BOOLEAN]

(* A piece of plan as long as one decomposition may be.  The plan as a     *)
(* whole is as long as one piece per decomposition.                        *)
IsPiece(p) == p \in Seq(Names) /\ Len(p) <= MaxSubtasks

Init ==
    /\ phase = [t \in Tasks |-> "idle"]
    /\ plan = [t \in Tasks |-> <<>>]
    /\ results = [t \in Tasks |-> <<>>]
    /\ replans = [t \in Tasks |-> 0]

Begin(t) ==
    /\ phase[t] \in {"idle", "done", "failed", "cancelled"}
    /\ phase' = [phase EXCEPT ![t] = "planning"]
    /\ plan' = [plan EXCEPT ![t] = <<>>]
    /\ results' = [results EXCEPT ![t] = <<>>]
    /\ replans' = [replans EXCEPT ![t] = 0]

Plan(t) ==
    /\ phase[t] = "planning"
    /\ phase' = [phase EXCEPT ![t] = "working"]
    /\ IsPiece(plan'[t]) /\ plan' = [plan EXCEPT ![t] = plan'[t]]
    /\ UNCHANGED <<results, replans>>

Work(t) ==
    /\ phase[t] = "working"
    /\ Len(results[t]) < Len(plan[t])
    /\ \E ok \in BOOLEAN :
          results' = [results EXCEPT ![t] =
                        Append(@, [name |-> plan[t][Len(@) + 1], ok |-> ok])]
    /\ UNCHANGED <<phase, plan, replans>>

Replan(t) ==
    LET n == Len(results[t])
    IN  /\ phase[t] = "working"
        /\ n > 0 /\ results[t][n].ok
        /\ replans[t] < MaxRedecompositions
        /\ replans' = [replans EXCEPT ![t] = @ + 1]
        /\ plan' = [plan EXCEPT ![t] = plan'[t]]
        /\ SubSeq(plan'[t], 1, n) = SubSeq(plan[t], 1, n)
        /\ IsPiece(SubSeq(plan'[t], n + 1, Len(plan'[t])))
        /\ UNCHANGED <<phase, results>>

Finish(t) ==
    /\ phase[t] = "working"
    /\ Len(results[t]) = Len(plan[t])
    /\ phase' = [phase EXCEPT ![t] = "done"]
    /\ UNCHANGED <<plan, results, replans>>

(* A goal is given up while it is planned or over a subtask under way, and *)
(* neither between two subtasks nor when its plan is to be rewritten after *)
(* the last one.                                                           *)
GiveUp(t) ==
    /\ \/ phase[t] = "planning"
       \/ phase[t] = "working" /\ Len(results[t]) < Len(plan[t])
    /\ phase' = [phase EXCEPT ![t] = "failed"]
    /\ UNCHANGED <<plan, results, replans>>

Cancel(t) ==
    /\ phase[t] \in {"planning", "working"}
    /\ phase' = [phase EXCEPT ![t] = "cancelled"]
    /\ UNCHANGED <<plan, results, replans>>

Next ==
    \E t \in Tasks :
        Begin(t) \/ Plan(t) \/ Work(t) \/ Replan(t)
        \/ Finish(t) \/ GiveUp(t) \/ Cancel(t)

Spec == Init /\ [][Next]_vars
=============================================================================
