-------------------------- MODULE MetaOrchestrator --------------------------
(***************************************************************************)
(* The meta orchestrator (orqest/autonomy/meta.py): solve decomposes a     *)
(* goal, finds or spawns an agent per subtask, runs it between hooks with  *)
(* one redirected retry, and lets the planner rewrite the remaining        *)
(* subtasks after a result of low confidence.  Several calls of solve      *)
(* share the cache of spawned agents and interleave at every await: the    *)
(* planner, the memory, the hooks and the agents.  Names that the module   *)
(* Toolbox has as well are prefixed with Solve, so that AutonomyProofs can *)
(* extend both.                                                            *)
(***************************************************************************)
EXTENDS Integers, Sequences, FiniteSets

CONSTANTS
    Tasks,                 \* concurrent calls of solve
    Names,                 \* subtask names
    Decompositions,        \* what the planner may answer: sequences of names
    MaxSubtasks,           \* max_subtasks
    MaxRedecompositions,   \* metacognition.max_redecompositions; 0 without one
    MaxSpawns              \* bound: spawns counted per name

ASSUME MaxAssumption == MaxSubtasks \in Nat /\ MaxRedecompositions \in Nat
ASSUME DecompositionsAssumption == Decompositions \subseteq Seq(Names)
ASSUME MaxSpawnsAssumption == MaxSpawns \in Nat \ {0}

VARIABLES
    pc,         \* per task: where it is
    plan,       \* per task: subtasks
    results,    \* per task: results
    replans,    \* per task: redecomposition_count
    runs,       \* history per task: runs of the agent of this subtask, up to 3
    hasAgent,   \* per task: whether the subtask's agent was found
    cache,      \* the names in _spawned_agents
    spawns,     \* history: how often factory.spawn succeeded for a name
    raced       \* history: names two tasks looked for at the same time

goalVars == <<pc, plan, results, replans, runs, hasAgent, cache, spawns, raced>>
shared == <<cache, spawns, raced>>
ofGoal == <<plan, results, replans>>
ofSubtask == <<runs, hasAgent>>

Ended == {"idle", "done", "raised", "cancelled"}
Executing == {"recalling", "storing", "before", "running", "after", "error",
              "retrying", "retry_after"}

SolveTypeOK ==
    /\ pc \in [Tasks -> Ended \cup Executing \cup {"planning", "next", "replanning"}]
    /\ plan \in [Tasks -> Seq(Names)]
    /\ results \in [Tasks -> Seq([name : Names, ok : BOOLEAN])]
    /\ replans \in [Tasks -> 0..MaxRedecompositions]
    /\ runs \in [Tasks -> 0..3]
    /\ hasAgent \in [Tasks -> BOOLEAN]
    /\ cache \subseteq Names
    /\ spawns \in [Names -> 0..MaxSpawns]
    /\ raced \subseteq Names

SolveInit ==
    /\ pc = [t \in Tasks |-> "idle"]
    /\ plan = [t \in Tasks |-> <<>>]
    /\ results = [t \in Tasks |-> <<>>]
    /\ replans = [t \in Tasks |-> 0]
    /\ runs = [t \in Tasks |-> 0]
    /\ hasAgent = [t \in Tasks |-> FALSE]
    /\ cache = {}
    /\ spawns = [n \in Names |-> 0]
    /\ raced = {}

Goto(t, s) == pc' = [pc EXCEPT ![t] = s]

(* The subtask at the loop variable i, which is len(results) while it runs. *)
Current(t) == plan[t][Len(results[t]) + 1]

(* subtasks[: max_subtasks] *)
Sliced(d) == IF Len(d) > MaxSubtasks THEN SubSeq(d, 1, MaxSubtasks) ELSE d

-----------------------------------------------------------------------------
Solve(t) ==
    /\ pc[t] \in Ended
    /\ Goto(t, "planning")
    /\ plan' = [plan EXCEPT ![t] = <<>>]
    /\ results' = [results EXCEPT ![t] = <<>>]
    /\ replans' = [replans EXCEPT ![t] = 0]
    /\ UNCHANGED <<ofSubtask, shared>>

Decompose(t) ==
    /\ pc[t] = "planning"
    /\ \E d \in Decompositions : plan' = [plan EXCEPT ![t] = Sliced(d)]
    /\ Goto(t, "next")
    /\ UNCHANGED <<results, replans, ofSubtask, shared>>

(* The local variables of _execute_subtask are gone. *)
EndSubtask(t) ==
    /\ runs' = [runs EXCEPT ![t] = 0]
    /\ hasAgent' = [hasAgent EXCEPT ![t] = FALSE]

(* solve is left: the result, an exception or a cancellation. *)
Leave(t, s) ==
    /\ Goto(t, s)
    /\ EndSubtask(t)
    /\ UNCHANGED <<ofGoal, shared>>

(* An exception of the planner leaves solve. *)
DecomposeRaises(t) == pc[t] = "planning" /\ Leave(t, "raised")

(* Head of the loop, and the cache lookup of _find_or_spawn: nothing is    *)
(* awaited before it.                                                      *)
Lookup(t) ==
    /\ pc[t] = "next"
    /\ Len(results[t]) < Len(plan[t])
    /\ IF Current(t) \in cache
       THEN /\ hasAgent' = [hasAgent EXCEPT ![t] = TRUE]
            /\ Goto(t, "before")
            /\ UNCHANGED raced
       ELSE /\ Goto(t, "recalling")
            /\ UNCHANGED hasAgent
            /\ raced' = IF \E u \in Tasks : pc[u] = "recalling" /\ Current(u) = Current(t)
                        THEN raced \cup {Current(t)} ELSE raced
    /\ UNCHANGED <<ofGoal, runs, cache, spawns>>

(* Mutant of Spawned: the agent is not kept. *)
SpawnedUncached(t) ==
    /\ spawns[Current(t)] < MaxSpawns
    /\ spawns' = [spawns EXCEPT ![Current(t)] = @ + 1]
    /\ hasAgent' = [hasAgent EXCEPT ![t] = TRUE]
    /\ UNCHANGED <<cache, raced, runs>>

(* factory.spawn returned: the agent is cached under the subtask's name. *)
Spawned(t) ==
    /\ spawns[Current(t)] < MaxSpawns
    /\ spawns' = [spawns EXCEPT ![Current(t)] = @ + 1]
    /\ cache' = cache \cup {Current(t)}
    /\ hasAgent' = [hasAgent EXCEPT ![t] = TRUE]
    /\ UNCHANGED <<raced, runs>>

(* The memory (external: any MemoryStore) had a usable spec, or it missed  *)
(* or raised and a generic agent is spawned and stored, best effort.       *)
Recalled(t) ==
    /\ pc[t] = "recalling"
    /\ Spawned(t)
    /\ Goto(t, "before") \/ Goto(t, "storing")
    /\ UNCHANGED ofGoal

SpawnRaises(t) ==
    /\ pc[t] = "recalling"
    /\ Goto(t, "error")
    /\ UNCHANGED <<ofGoal, ofSubtask, shared>>

Stored(t) ==
    /\ pc[t] = "storing"
    /\ Goto(t, "before")
    /\ UNCHANGED <<ofGoal, ofSubtask, shared>>

-----------------------------------------------------------------------------
(* Mutant of Complete: a failed subtask is tried again, without bound. *)
CompleteTriesAgain(t, ok) ==
    /\ IF ok THEN results' = [results EXCEPT ![t] = Append(@, [name |-> Current(t), ok |-> ok])]
       ELSE UNCHANGED results
    /\ \/ Goto(t, "next")
       \/ ok /\ replans[t] < MaxRedecompositions /\ Goto(t, "replanning")
    /\ EndSubtask(t)
    /\ UNCHANGED <<plan, replans, shared>>

(* _execute_subtask returns: the result is appended, and after a success   *)
(* whose output reports low confidence the planner is asked again.         *)
Complete(t, ok) ==
    /\ results' = [results EXCEPT ![t] = Append(@, [name |-> Current(t), ok |-> ok])]
    /\ \/ Goto(t, "next")
       \/ ok /\ replans[t] < MaxRedecompositions /\ Goto(t, "replanning")
    /\ EndSubtask(t)
    /\ UNCHANGED <<plan, replans, shared>>

(* agent.run is called. *)
Run(t, s) ==
    /\ runs' = [runs EXCEPT ![t] = IF @ < 3 THEN @ + 1 ELSE @]
    /\ Goto(t, s)
    /\ UNCHANGED <<ofGoal, hasAgent, shared>>

(* The before hooks decide: run (a redirect changes the prompt), skip with *)
(* a stub, or abort.                                                       *)
Before(t) ==
    /\ pc[t] = "before"
    /\ \/ Run(t, "running")
       \/ Goto(t, "after") /\ UNCHANGED <<ofGoal, ofSubtask, shared>>
       \/ Complete(t, FALSE)

(* The agent answers or raises; HookAbortError from hooks of its own fails *)
(* the subtask at once.                                                    *)
Running(t) ==
    /\ pc[t] = "running"
    /\ \/ /\ Goto(t, "after") \/ Goto(t, "error")
          /\ UNCHANGED <<ofGoal, ofSubtask, shared>>
       \/ Complete(t, FALSE)

(* The after hooks return, or one of them aborts. *)
After(t) ==
    /\ pc[t] = "after"
    /\ \E ok \in BOOLEAN : Complete(t, ok)

(* The error hooks: a redirect retries the agent, if there is one; any     *)
(* other decision, an abort included, fails the subtask.                   *)
Error(t) ==
    /\ pc[t] = "error"
    /\ \/ hasAgent[t] /\ Run(t, "retrying")
       \/ Complete(t, FALSE)

(* The retry answers, or raises and the original failure is reported. *)
Retrying(t) ==
    /\ pc[t] = "retrying"
    /\ \/ Goto(t, "retry_after") /\ UNCHANGED <<ofGoal, ofSubtask, shared>>
       \/ Complete(t, FALSE)

(* The after hooks of a retry run outside every try block: an abort there  *)
(* leaves solve.                                                           *)
RetryAfter(t) ==
    /\ pc[t] = "retry_after"
    /\ \/ Complete(t, TRUE)
       \/ Leave(t, "raised")

-----------------------------------------------------------------------------
(* Mutant of Rest: one subtask too many is replaced. *)
RestFromLast(t, d) == SubSeq(plan[t], 1, Len(results[t]) - 1) \o Sliced(d)

(* subtasks[: i + 1] + new_remaining *)
Rest(t, d) == SubSeq(plan[t], 1, Len(results[t])) \o Sliced(d)

(* _redecompose: the planner rewrites what remains, or fails and what      *)
(* remains is kept; the attempt counts either way.                         *)
Redecompose(t) ==
    /\ pc[t] = "replanning"
    /\ \/ \E d \in Decompositions : plan' = [plan EXCEPT ![t] = Rest(t, d)]
       \/ UNCHANGED plan
    /\ replans' = [replans EXCEPT ![t] = @ + 1]
    /\ Goto(t, "next")
    /\ UNCHANGED <<results, ofSubtask, shared>>

Return(t) ==
    /\ pc[t] = "next"
    /\ Len(results[t]) = Len(plan[t])
    /\ Leave(t, "done")

(* The task that awaits solve is cancelled. *)
Cancel(t) == pc[t] \notin Ended /\ Leave(t, "cancelled")

Step(t) ==
    \/ Decompose(t) \/ DecomposeRaises(t)
    \/ Lookup(t) \/ Recalled(t) \/ SpawnRaises(t) \/ Stored(t)
    \/ Before(t) \/ Running(t) \/ After(t)
    \/ Error(t) \/ Retrying(t) \/ RetryAfter(t)
    \/ Redecompose(t)
    \/ Return(t)

SolveNext == \E t \in Tasks : Solve(t) \/ Step(t) \/ Cancel(t)

SolveSpec == SolveInit /\ [][SolveNext]_goalVars

(* Planner, memory, hooks and agents answer or raise. *)
FairSolveSpec == SolveSpec /\ \A t \in Tasks : WF_goalVars(Step(t))

-----------------------------------------------------------------------------
Phase(s) ==
    CASE s \in {"idle", "planning", "done", "cancelled"} -> s
      [] s = "raised" -> "failed"
      [] OTHER -> "working"

Goals == INSTANCE GoalExecution WITH phase <- [t \in Tasks |-> Phase(pc[t])]

(* solve keeps what it promises: one result per planned subtask, in order, *)
(* the plan rewritten only behind the last result and only after a success, *)
(* by at most max_subtasks each time; and a goal is given up only while it *)
(* is planned or over the subtask under way (the abort of a retry).  The   *)
(* docstring calls max_subtasks the "Upper bound on subtasks per goal",    *)
(* which it is not: each re-decomposition may add as many again.           *)
ImplementsGoals == Goals!Spec

(* "one bounded agent retry": whatever the hooks answer, the agent of a    *)
(* subtask runs at most twice.                                             *)
RunsBounded == \A t \in Tasks : runs[t] <= 2

(* One agent per subtask name, kept for later goals: a second one is       *)
(* spawned only when two tasks looked for the name at the same time.       *)
SpawnedOnce == \A n \in Names \ raced : spawns[n] <= 1

(* Every goal is answered or raises, however often it is re-planned. *)
SolveEnds == \A t \in Tasks : pc[t] = "planning" ~> pc[t] \in Ended

(* The work done for a goal is bounded: two runs of the agent per subtask, *)
(* one agent per name, and no more re-decompositions than allowed.         *)
WorkIsBounded == SolveTypeOK /\ RunsBounded /\ SpawnedOnce
=============================================================================
