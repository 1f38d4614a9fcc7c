--------------------------- MODULE AutonomyProofs ---------------------------
(***************************************************************************)
(* Proofs about orqest/autonomy.  MetaOrchestrator, for any number of      *)
(* tasks and names, any decompositions and any bounds: the work done for a *)
(* goal is bounded, and solve implements GoalExecution.  Toolbox, for any  *)
(* tools, servers, requesters and answers of the registry endpoints: no    *)
(* open connection is lost but to a name taken twice or a racing           *)
(* disconnect_all, stale tools are refused, nothing unapproved is held,    *)
(* and a run has the tools its agent has.                                  *)
(***************************************************************************)
EXTENDS MetaOrchestrator, Toolbox, FiniteSetTheorems, SequenceTheorems, TLAPS

-----------------------------------------------------------------------------
(* The meta orchestrator.                                                  *)

Placed == Ended \cup Executing \cup {"planning", "next", "replanning"}

(* What a task knows of its goal: results never outgrow the plan, the plan *)
(* goes at most one piece beyond them, a subtask is executed only if there *)
(* is one left, and the planner is asked again only behind a success.      *)
GoalInv(t) ==
    LET n == Len(results[t])
    IN  /\ n <= Len(plan[t]) /\ Len(plan[t]) <= n + MaxSubtasks
        /\ pc[t] = "planning" => n = 0
        /\ pc[t] \in Executing => n < Len(plan[t])
        /\ pc[t] = "replanning" => n > 0 /\ results[t][n].ok /\ replans[t] < MaxRedecompositions

(* How often the agent can have run where the subtask is. *)
RunsInv(t) ==
    /\ pc[t] \notin {"running", "after", "error", "retrying", "retry_after"} => runs[t] = 0
    /\ pc[t] \in {"running", "after", "error"} => runs[t] <= 1
    /\ runs[t] <= 2

TasksInv == \A t \in Tasks : GoalInv(t) /\ RunsInv(t)

(* A name nobody raced for is spawned once, and then it is in the cache.   *)
SpawnInv == \A n \in Names \ raced : spawns[n] <= 1 /\ (n \notin cache => spawns[n] = 0)

(* Who looks for such a name is alone, and it is not in the cache.         *)
RecallInv ==
    \A t, u \in Tasks :
        pc[t] = "recalling" /\ Current(t) \notin raced =>
            /\ Current(t) \notin cache
            /\ pc[u] = "recalling" /\ Current(u) = Current(t) => u = t

SolveInv == SolveTypeOK /\ TasksInv /\ SpawnInv /\ RecallInv

(* All that a step of task t leaves alone.                                 *)
OnlyOf(t) ==
    \A u \in Tasks \ {t} :
        /\ pc'[u] = pc[u] /\ plan'[u] = plan[u] /\ results'[u] = results[u]
        /\ replans'[u] = replans[u] /\ runs'[u] = runs[u]

-----------------------------------------------------------------------------
(* One decomposition is a piece of a plan. *)
LEMMA SlicedIsPiece ==
  ASSUME NEW d \in Decompositions
  PROVE  Sliced(d) \in Seq(Names) /\ Len(Sliced(d)) \in Nat /\ Len(Sliced(d)) <= MaxSubtasks
<1>1. d \in Seq(Names)
  BY DecompositionsAssumption
<1>2. Len(d) \in Nat /\ \A i \in 1..Len(d) : d[i] \in Names
  BY <1>1, ElementOfSeq, LenProperties
<1>3. MaxSubtasks \in Nat
  BY MaxAssumption
<1>4. CASE Len(d) > MaxSubtasks
  <2>1. \A i \in 1..MaxSubtasks : d[i] \in Names
    BY <1>2, <1>3, <1>4
  <2>2. /\ SubSeq(d, 1, MaxSubtasks) \in Seq(Names)
        /\ Len(SubSeq(d, 1, MaxSubtasks)) = IF 1 <= MaxSubtasks THEN MaxSubtasks - 1 + 1 ELSE 0
    BY <1>3, <2>1, SubSeqProperties
  <2>. QED
    BY <1>3, <1>4, <2>2 DEF Sliced
<1>5. CASE ~(Len(d) > MaxSubtasks)
  BY <1>1, <1>2, <1>3, <1>5 DEF Sliced
<1>. QED
  BY <1>4, <1>5

LEMMA TaskFacts ==
  ASSUME SolveTypeOK, NEW t \in Tasks
  PROVE  /\ Len(plan[t]) \in Nat /\ Len(results[t]) \in Nat
         /\ plan[t] \in Seq(Names) /\ results[t] \in Seq([name : Names, ok : BOOLEAN])
         /\ Len(results[t]) < Len(plan[t]) => Current(t) \in Names
         /\ MaxSubtasks \in Nat /\ MaxRedecompositions \in Nat
         /\ replans[t] \in 0..MaxRedecompositions /\ runs[t] \in 0..3
<1>1. /\ plan[t] \in Seq(Names) /\ results[t] \in Seq([name : Names, ok : BOOLEAN])
      /\ replans[t] \in 0..MaxRedecompositions /\ runs[t] \in 0..3
  BY DEF SolveTypeOK
<1>2. Len(plan[t]) \in Nat /\ Len(results[t]) \in Nat
  BY <1>1, LenProperties
<1>3. ASSUME Len(results[t]) < Len(plan[t]) PROVE Current(t) \in Names
  <2>1. Len(results[t]) + 1 \in 1..Len(plan[t])
    BY <1>2, <1>3
  <2>. QED
    BY <1>1, <2>1, ElementOfSeq DEF Current
<1>. QED
  BY <1>1, <1>2, <1>3, MaxAssumption

(* A rewritten plan: what was done, and one new piece behind it.           *)
LEMMA RestFacts ==
  ASSUME SolveTypeOK, NEW t \in Tasks, NEW d \in Decompositions, Len(results[t]) <= Len(plan[t])
  PROVE  LET n == Len(results[t])
         IN  /\ Rest(t, d) \in Seq(Names) /\ Len(Rest(t, d)) = n + Len(Sliced(d))
             /\ SubSeq(Rest(t, d), 1, n) = SubSeq(plan[t], 1, n)
             /\ SubSeq(Rest(t, d), n + 1, Len(Rest(t, d))) = Sliced(d)
<1> DEFINE n == Len(results[t])
           done == SubSeq(plan[t], 1, n)
           piece == Sliced(d)
<1>1. n \in Nat /\ plan[t] \in Seq(Names) /\ Len(plan[t]) \in Nat /\ n <= Len(plan[t])
  BY TaskFacts
<1>2. piece \in Seq(Names) /\ Len(piece) \in Nat
  BY SlicedIsPiece
<1>3. \A i \in 1..n : plan[t][i] \in Names
  BY <1>1, ElementOfSeq
<1>4. done \in Seq(Names) /\ Len(done) = n
  <2>1. done \in Seq(Names) /\ Len(done) = IF 1 <= n THEN n - 1 + 1 ELSE 0
    BY <1>1, <1>3, SubSeqProperties
  <2>. QED
    BY <1>1, <2>1
<1> HIDE DEF done, piece, n
<1>5. /\ done \o piece \in Seq(Names) /\ Len(done \o piece) = n + Len(piece)
      /\ \A i \in 1..(n + Len(piece)) :
            (done \o piece)[i] = IF i <= n THEN done[i] ELSE piece[i - n]
  BY <1>2, <1>4, ConcatProperties
<1> DEFINE new == done \o piece
<1> HIDE DEF new
<1>6. \A i \in 1..(n + Len(piece)) : new[i] \in Names
  BY <1>5, ElementOfSeq DEF new
<1>7. SubSeq(new, 1, n) = done
  <2>1. \A i \in 1..n : new[i] \in Names
    BY <1>1, <1>2, <1>6
  <2>2. /\ SubSeq(new, 1, n) \in Seq(Names) /\ Len(SubSeq(new, 1, n)) = n
        /\ \A i \in 1..n : SubSeq(new, 1, n)[i] = new[i]
    <3>1. /\ SubSeq(new, 1, n) \in Seq(Names)
          /\ Len(SubSeq(new, 1, n)) = IF 1 <= n THEN n - 1 + 1 ELSE 0
          /\ \A i \in 1..(n - 1 + 1) : SubSeq(new, 1, n)[i] = new[1 + i - 1]
      BY <1>1, <2>1, SubSeqProperties
    <3>. QED
      BY <1>1, <3>1
  <2>3. \A i \in 1..n : SubSeq(new, 1, n)[i] = done[i]
    BY <1>1, <1>2, <1>5, <2>2 DEF new
  <2>. QED
    BY <1>4, <2>2, <2>3, SeqEqual
<1>8. SubSeq(new, n + 1, n + Len(piece)) = piece
  <2> DEFINE from == n + 1
             to == n + Len(piece)
             tail == SubSeq(new, from, to)
  <2>1. from \in Int /\ to \in Int /\ \A i \in from..to : new[i] \in Names
    BY <1>1, <1>2, <1>6
  <2>2. /\ tail \in Seq(Names) /\ Len(tail) = Len(piece)
        /\ \A i \in 1..Len(piece) : tail[i] = new[n + i]
    <3> HIDE DEF from, to
    <3>1. /\ tail \in Seq(Names)
          /\ Len(tail) = IF from <= to THEN to - from + 1 ELSE 0
          /\ \A i \in 1..(to - from + 1) : tail[i] = new[from + i - 1]
      BY <2>1, SubSeqProperties
    <3> HIDE DEF tail
    <3>. QED
      BY <1>1, <1>2, <3>1 DEF from, to
  <2>3. \A i \in 1..Len(piece) : new[n + i] = piece[i]
    <3> SUFFICES ASSUME NEW i \in 1..Len(piece) PROVE new[n + i] = piece[i]
      OBVIOUS
    <3>1. n + i \in 1..(n + Len(piece)) /\ ~(n + i <= n) /\ (n + i) - n = i
      BY <1>1, <1>2
    <3>. QED
      BY <1>5, <3>1 DEF new
  <2> HIDE DEF tail
  <2>4. tail = piece
    BY <1>2, <2>2, <2>3, SeqEqual
  <2>. QED
    BY <2>4 DEF tail
<1>. QED
  BY <1>5, <1>7, <1>8 DEF Rest, new, done, piece, n

(* A step of task t that looks for no agent keeps the invariant, if it     *)
(* keeps the types and what t knows of its own goal.                       *)
LEMMA Frame ==
  ASSUME SolveInv, NEW t \in Tasks, SolveTypeOK', OnlyOf(t), UNCHANGED shared,
         pc'[t] # "recalling", GoalInv(t)', RunsInv(t)'
  PROVE  SolveInv'
<1>1. TasksInv'
  <2> SUFFICES ASSUME NEW u \in Tasks \ {t} PROVE GoalInv(u)' /\ RunsInv(u)'
    BY DEF TasksInv
  <2>. QED
    BY DEF SolveInv, TasksInv, OnlyOf, GoalInv, RunsInv
<1>2. SpawnInv'
  BY DEF SolveInv, SpawnInv, shared
<1>3. RecallInv'
  <2> SUFFICES ASSUME NEW u \in Tasks, NEW w \in Tasks,
                      pc'[u] = "recalling", Current(u)' \notin raced
               PROVE  /\ Current(u)' \notin cache
                      /\ pc'[w] = "recalling" /\ Current(w)' = Current(u)' => w = u
    BY DEF RecallInv, shared
  <2>1. u # t /\ pc[u] = "recalling" /\ Current(u)' = Current(u)
    BY DEF OnlyOf, Current
  <2>2. pc'[w] = "recalling" => pc[w] = "recalling" /\ Current(w)' = Current(w)
    BY DEF OnlyOf, Current
  <2>. QED
    BY <2>1, <2>2 DEF SolveInv, RecallInv
<1>. QED
  BY <1>1, <1>2, <1>3 DEF SolveInv

-----------------------------------------------------------------------------
(* How the phases of the goals follow the places of the tasks.             *)
LEMMA PhaseSame ==
  ASSUME NEW t \in Tasks, OnlyOf(t), Phase(pc'[t]) = Phase(pc[t])
  PROVE  [u \in Tasks |-> Phase(pc[u])]' = [u \in Tasks |-> Phase(pc[u])]
<1>1. \A u \in Tasks : Phase(pc'[u]) = Phase(pc[u])
  BY DEF OnlyOf
<1>. QED
  BY <1>1

LEMMA PhaseBecomes ==
  ASSUME NEW t \in Tasks, OnlyOf(t), NEW p, Phase(pc'[t]) = p
  PROVE  [u \in Tasks |-> Phase(pc[u])]' = [[u \in Tasks |-> Phase(pc[u])] EXCEPT ![t] = p]
<1>1. \A u \in Tasks \ {t} : Phase(pc'[u]) = Phase(pc[u])
  BY DEF OnlyOf
<1>. QED
  BY <1>1

LEMMA PhaseOf ==
  ASSUME NEW p \in Placed
  PROVE  /\ p \in Executing \cup {"next", "replanning"} => Phase(p) = "working"
         /\ p \in {"idle", "planning", "done", "cancelled"} => Phase(p) = p
         /\ p = "raised" => Phase(p) = "failed"
BY DEF Placed, Phase, Executing, Ended

-----------------------------------------------------------------------------
LEMMA InitSolveInv == SolveInit => SolveInv
<1> SUFFICES ASSUME SolveInit PROVE SolveInv
  OBVIOUS
<1>1. /\ \A S : <<>> \in Seq(S)
      /\ Len(<<>>) = 0
  BY EmptySeq
<1>2. SolveTypeOK
  BY <1>1, MaxAssumption, MaxSpawnsAssumption DEF SolveInit, SolveTypeOK, Ended
<1>3. TasksInv
  BY <1>1, MaxAssumption DEF SolveInit, TasksInv, GoalInv, RunsInv, Executing
<1>4. SpawnInv /\ RecallInv
  BY DEF SolveInit, SpawnInv, RecallInv
<1>. QED
  BY <1>2, <1>3, <1>4 DEF SolveInv

LEMMA SolveStep ==
  ASSUME SolveInv, NEW t \in Tasks, Solve(t)
  PROVE  SolveInv' /\ Goals!Begin(t)
<1>1. /\ pc[t] \in Ended /\ pc' = [pc EXCEPT ![t] = "planning"]
      /\ plan' = [plan EXCEPT ![t] = <<>>] /\ results' = [results EXCEPT ![t] = <<>>]
      /\ replans' = [replans EXCEPT ![t] = 0]
      /\ runs' = runs /\ hasAgent' = hasAgent /\ UNCHANGED shared
  BY DEF Solve, Goto, ofSubtask
<1>2. SolveTypeOK /\ GoalInv(t) /\ RunsInv(t) /\ \A S : <<>> \in Seq(S) /\ Len(<<>>) = 0
  BY EmptySeq DEF SolveInv, TasksInv
<1>3. /\ pc'[t] = "planning" /\ plan'[t] = <<>> /\ results'[t] = <<>> /\ replans'[t] = 0
      /\ runs'[t] = runs[t] /\ OnlyOf(t)
  BY <1>1, <1>2 DEF OnlyOf, SolveTypeOK
<1>4. SolveTypeOK'
  <2>1. plan' \in [Tasks -> Seq(Names)]
    BY <1>1, <1>2 DEF SolveTypeOK
  <2>2. results' \in [Tasks -> Seq([name : Names, ok : BOOLEAN])]
    <3> DEFINE R == [name : Names, ok : BOOLEAN]
    <3> HIDE DEF R
    <3>1. results \in [Tasks -> Seq(R)] /\ <<>> \in Seq(R)
      BY <1>2 DEF SolveTypeOK, R
    <3>. QED
      BY <1>1, <3>1 DEF R
  <2>3. replans' \in [Tasks -> 0..MaxRedecompositions]
    BY <1>1, <1>2, MaxAssumption DEF SolveTypeOK
  <2>. QED
    BY <1>1, <1>2, <2>1, <2>2, <2>3 DEF SolveTypeOK, shared
<1>5. GoalInv(t)' /\ RunsInv(t)'
  BY <1>1, <1>2, <1>3, MaxAssumption DEF GoalInv, RunsInv, Executing, Ended
<1>6. SolveInv'
  BY <1>1, <1>3, <1>4, <1>5, Frame
<1>7. Phase(pc[t]) \in {"idle", "done", "failed", "cancelled"} /\ Phase(pc'[t]) = "planning"
  BY <1>1, <1>3 DEF Phase, Ended
<1>8. Goals!Begin(t)
  BY <1>1, <1>3, <1>7, PhaseBecomes DEF Goals!Begin
<1>. QED
  BY <1>6, <1>8

LEMMA DecomposeStep ==
  ASSUME SolveInv, NEW t \in Tasks, Decompose(t)
  PROVE  SolveInv' /\ Goals!Plan(t)
<1>1. PICK d \in Decompositions : plan' = [plan EXCEPT ![t] = Sliced(d)]
  BY DEF Decompose
<1>2. /\ pc[t] = "planning" /\ pc' = [pc EXCEPT ![t] = "next"]
      /\ results' = results /\ replans' = replans
      /\ runs' = runs /\ hasAgent' = hasAgent /\ UNCHANGED shared
  BY DEF Decompose, Goto, ofSubtask
<1>3. SolveTypeOK /\ GoalInv(t) /\ RunsInv(t)
  BY DEF SolveInv, TasksInv
<1>4. Sliced(d) \in Seq(Names) /\ Len(Sliced(d)) \in Nat /\ Len(Sliced(d)) <= MaxSubtasks
  BY SlicedIsPiece
<1> DEFINE piece == Sliced(d)
<1> HIDE DEF piece
<1>5. pc'[t] = "next" /\ plan'[t] = piece /\ OnlyOf(t)
  BY <1>1, <1>2, <1>3 DEF OnlyOf, SolveTypeOK, piece
<1>6. SolveTypeOK'
  BY <1>1, <1>2, <1>3, <1>4 DEF SolveTypeOK, shared
<1>7. GoalInv(t)' /\ RunsInv(t)'
  BY <1>2, <1>3, <1>4, <1>5, MaxAssumption DEF GoalInv, RunsInv, Executing, Ended, piece
<1>8. SolveInv'
  BY <1>2, <1>5, <1>6, <1>7, Frame
<1>9. Phase(pc[t]) = "planning" /\ Phase(pc'[t]) = "working"
  BY <1>2, <1>5 DEF Phase
<1>10. Goals!Plan(t)
  BY <1>1, <1>2, <1>4, <1>5, <1>9, PhaseBecomes DEF Goals!Plan, Goals!IsPiece, piece
<1>. QED
  BY <1>8, <1>10

(* solve is left: the goal is finished, given up or cancelled.             *)
LEMMA LeaveStep ==
  ASSUME SolveInv, NEW t \in Tasks, NEW s \in {"done", "raised", "cancelled"}, pc[t] \notin Ended,
         s = "done" => pc[t] = "next" /\ Len(results[t]) = Len(plan[t]),
         s = "raised" => pc[t] \in {"planning"} \cup Executing,
         Leave(t, s)
  PROVE  SolveInv' /\ (Goals!Finish(t) \/ Goals!GiveUp(t) \/ Goals!Cancel(t))
<1>1. /\ pc' = [pc EXCEPT ![t] = s] /\ runs' = [runs EXCEPT ![t] = 0]
      /\ hasAgent' = [hasAgent EXCEPT ![t] = FALSE]
      /\ plan' = plan /\ results' = results /\ replans' = replans /\ UNCHANGED shared
  BY DEF Leave, Goto, EndSubtask, ofGoal
<1>2. SolveTypeOK /\ GoalInv(t) /\ RunsInv(t) /\ pc[t] \in Placed
  BY DEF SolveInv, TasksInv, SolveTypeOK, Placed
<1>3. pc'[t] = s /\ runs'[t] = 0 /\ OnlyOf(t)
  BY <1>1, <1>2 DEF OnlyOf, SolveTypeOK
<1>4. SolveTypeOK'
  <2>1. s \in Ended
    BY DEF Ended
  <2>2. pc' \in [Tasks -> Ended \cup Executing \cup {"planning", "next", "replanning"}]
    BY <1>1, <1>2, <2>1 DEF SolveTypeOK
  <2>3. runs' \in [Tasks -> 0..3] /\ hasAgent' \in [Tasks -> BOOLEAN]
    BY <1>1, <1>2 DEF SolveTypeOK
  <2>. QED
    BY <1>1, <1>2, <2>2, <2>3 DEF SolveTypeOK, shared
<1>5. GoalInv(t)' /\ RunsInv(t)'
  BY <1>1, <1>2, <1>3 DEF GoalInv, RunsInv, Executing
<1>6. SolveInv'
  BY <1>1, <1>3, <1>4, <1>5, Frame
<1>7. CASE s = "done"
  <2>1. Phase(pc[t]) = "working" /\ Phase(pc'[t]) = "done"
    BY <1>3, <1>7 DEF Phase
  <2>. QED
    BY <1>1, <1>3, <1>6, <1>7, <2>1, PhaseBecomes DEF Goals!Finish
<1>8. CASE s = "raised"
  <2>1. \/ Phase(pc[t]) = "planning"
        \/ Phase(pc[t]) = "working" /\ Len(results[t]) < Len(plan[t])
    BY <1>2, <1>8, PhaseOf DEF GoalInv, Executing
  <2>2. Phase(pc'[t]) = "failed"
    BY <1>3, <1>8 DEF Phase
  <2>. QED
    BY <1>1, <1>3, <1>6, <2>1, <2>2, PhaseBecomes DEF Goals!GiveUp
<1>9. CASE s = "cancelled"
  <2>1. Phase(pc[t]) \in {"planning", "working"} /\ Phase(pc'[t]) = "cancelled"
    BY <1>2, <1>3, <1>9, PhaseOf DEF Phase, Placed, Ended
  <2>. QED
    BY <1>1, <1>3, <1>6, <2>1, PhaseBecomes DEF Goals!Cancel
<1>. QED
  BY <1>7, <1>8, <1>9

-----------------------------------------------------------------------------
(* The goal's own state stands still, and so does its abstract goal.       *)
LEMMA Stutter ==
  ASSUME NEW t \in Tasks, OnlyOf(t), UNCHANGED ofGoal, pc[t] \in Placed, pc'[t] \in Placed,
         Phase(pc'[t]) = Phase(pc[t])
  PROVE  UNCHANGED Goals!vars
BY PhaseSame DEF ofGoal, Goals!vars

(* Without a run of the agent: the hooks, the agent or the memory answer.  *)
LEMMA MoveStep ==
  ASSUME SolveInv, NEW t \in Tasks, NEW s \in {"before", "after", "error", "retry_after"},
         \/ pc[t] = "recalling" /\ s = "error"
         \/ pc[t] = "storing" /\ s = "before"
         \/ pc[t] = "before" /\ s = "after"
         \/ pc[t] = "running" /\ s \in {"after", "error"}
         \/ pc[t] = "retrying" /\ s = "retry_after",
         Goto(t, s), UNCHANGED <<ofGoal, ofSubtask, shared>>
  PROVE  SolveInv' /\ UNCHANGED Goals!vars
<1>1. /\ pc' = [pc EXCEPT ![t] = s]
      /\ plan' = plan /\ results' = results /\ replans' = replans
      /\ runs' = runs /\ hasAgent' = hasAgent /\ UNCHANGED shared
  BY DEF Goto, ofGoal, ofSubtask
<1>2. SolveTypeOK /\ GoalInv(t) /\ RunsInv(t)
  BY DEF SolveInv, TasksInv
<1>3. /\ pc'[t] = s /\ s \in Executing /\ pc[t] \in Executing
      /\ s \in Placed /\ pc[t] \in Placed /\ OnlyOf(t)
  BY <1>1, <1>2 DEF OnlyOf, SolveTypeOK, Executing, Placed
<1>4. SolveTypeOK'
  BY <1>1, <1>2, <1>3 DEF SolveTypeOK, shared
<1>5. GoalInv(t)'
  BY <1>1, <1>2, <1>3 DEF GoalInv, Executing
<1>6. RunsInv(t)'
  BY <1>1, <1>2, <1>3, TaskFacts DEF RunsInv
<1>7. SolveInv'
  BY <1>1, <1>3, <1>4, <1>5, <1>6, Frame
<1>8. Phase(pc'[t]) = Phase(pc[t])
  BY <1>3, PhaseOf
<1>. QED
  BY <1>3, <1>7, <1>8, Stutter

(* The agent is called, for the first or the second time.                  *)
LEMMA RunStep ==
  ASSUME SolveInv, NEW t \in Tasks, NEW s \in {"running", "retrying"},
         pc[t] = IF s = "running" THEN "before" ELSE "error",
         Run(t, s)
  PROVE  SolveInv' /\ UNCHANGED Goals!vars
<1>1. /\ pc' = [pc EXCEPT ![t] = s]
      /\ runs' = [runs EXCEPT ![t] = IF @ < 3 THEN @ + 1 ELSE @]
      /\ plan' = plan /\ results' = results /\ replans' = replans
      /\ hasAgent' = hasAgent /\ UNCHANGED shared
  BY DEF Run, Goto, ofGoal
<1>2. SolveTypeOK /\ GoalInv(t) /\ RunsInv(t) /\ runs[t] \in 0..3
  BY DEF SolveInv, TasksInv, SolveTypeOK
<1>3. /\ pc'[t] = s /\ s \in Executing /\ pc[t] \in Executing
      /\ s \in Placed /\ pc[t] \in Placed /\ OnlyOf(t)
      /\ runs'[t] = IF runs[t] < 3 THEN runs[t] + 1 ELSE runs[t]
  BY <1>1, <1>2 DEF OnlyOf, SolveTypeOK, Executing, Placed
<1>4. SolveTypeOK'
  <2>1. pc' \in [Tasks -> Ended \cup Executing \cup {"planning", "next", "replanning"}]
    BY <1>1, <1>2, <1>3 DEF SolveTypeOK
  <2>2. runs' \in [Tasks -> 0..3]
    BY <1>1, <1>2 DEF SolveTypeOK
  <2>. QED
    BY <1>1, <1>2, <2>1, <2>2 DEF SolveTypeOK, shared
<1>5. GoalInv(t)'
  BY <1>1, <1>2, <1>3 DEF GoalInv, Executing
<1>6. RunsInv(t)'
  BY <1>2, <1>3 DEF RunsInv
<1>7. SolveInv'
  BY <1>1, <1>3, <1>4, <1>5, <1>6, Frame
<1>8. Phase(pc'[t]) = Phase(pc[t])
  BY <1>3, PhaseOf
<1>. QED
  BY <1>1, <1>3, <1>7, <1>8, Stutter DEF ofGoal

(* A subtask ends with a result, whatever became of it.                    *)
LEMMA CompleteStep ==
  ASSUME SolveInv, NEW t \in Tasks, NEW ok \in BOOLEAN, pc[t] \in Executing, Complete(t, ok)
  PROVE  SolveInv' /\ Goals!Work(t)
<1> DEFINE R == [name : Names, ok : BOOLEAN]
           result == [name |-> Current(t), ok |-> ok]
           old == results[t]
           n == Len(old)
<1>1. PICK s \in {"next", "replanning"} :
          /\ pc' = [pc EXCEPT ![t] = s]
          /\ s = "replanning" => ok /\ replans[t] < MaxRedecompositions
  BY DEF Complete, Goto
<1>2. /\ results' = [results EXCEPT ![t] = Append(@, result)]
      /\ runs' = [runs EXCEPT ![t] = 0] /\ hasAgent' = [hasAgent EXCEPT ![t] = FALSE]
      /\ plan' = plan /\ replans' = replans /\ UNCHANGED shared
  BY DEF Complete, EndSubtask
<1>3. SolveTypeOK /\ GoalInv(t) /\ RunsInv(t) /\ pc[t] \in Placed
  BY DEF SolveInv, TasksInv, SolveTypeOK, Placed
<1>4. /\ n \in Nat /\ Len(plan[t]) \in Nat /\ n < Len(plan[t]) /\ Len(plan[t]) <= n + MaxSubtasks
      /\ old \in Seq(R) /\ result \in R /\ MaxSubtasks \in Nat
  BY <1>3, TaskFacts DEF GoalInv
<1>5. result.ok = ok
  OBVIOUS
<1>6. /\ pc'[t] = s /\ s \in Placed /\ runs'[t] = 0 /\ results'[t] = Append(old, result)
      /\ OnlyOf(t)
  BY <1>1, <1>2, <1>3 DEF OnlyOf, SolveTypeOK, Placed
<1>7. results \in [Tasks -> Seq(R)]
  BY <1>3 DEF SolveTypeOK
<1>8. Goals!Work(t)
  <2>1. Phase(pc[t]) = "working" /\ Phase(pc'[t]) = "working"
    BY <1>3, <1>6, PhaseOf
  <2>2. [u \in Tasks |-> Phase(pc[u])]' = [u \in Tasks |-> Phase(pc[u])]
    BY <1>6, <2>1, PhaseSame
  <2>3. results' = [results EXCEPT ![t] =
                      Append(@, [name |-> plan[t][Len(@) + 1], ok |-> ok])]
    BY <1>2, <1>3 DEF Current, SolveTypeOK
  <2>. QED
    BY <1>2, <1>4, <2>1, <2>2, <2>3 DEF Goals!Work
<1> HIDE DEF R, result
<1>9. /\ Append(old, result) \in Seq(R) /\ Len(Append(old, result)) = n + 1
      /\ Append(old, result)[n + 1] = result
  BY <1>4, AppendProperties
<1> DEFINE new == Append(old, result)
<1>10. SolveTypeOK'
  <2> HIDE DEF new
  <2>1. pc' \in [Tasks -> Ended \cup Executing \cup {"planning", "next", "replanning"}]
    BY <1>1, <1>3 DEF SolveTypeOK
  <2>2. runs' \in [Tasks -> 0..3] /\ hasAgent' \in [Tasks -> BOOLEAN]
    BY <1>2, <1>3 DEF SolveTypeOK
  <2>3. results' = [results EXCEPT ![t] = new]
    BY <1>2, <1>7 DEF new
  <2>4. results' \in [Tasks -> Seq(R)]
    BY <1>7, <1>9, <2>3 DEF new
  <2>. QED
    BY <1>2, <1>3, <2>1, <2>2, <2>4 DEF SolveTypeOK, shared, R
<1>11. GoalInv(t)'
  <2>1. results'[t] = new /\ Len(new) = n + 1 /\ new[n + 1].ok = ok
    BY <1>5, <1>6, <1>9
  <2> HIDE DEF new, n
  <2>2. plan'[t] = plan[t] /\ replans'[t] = replans[t]
    BY <1>2
  <2>. QED
    BY <1>1, <1>4, <1>6, <2>1, <2>2 DEF GoalInv, Executing
<1>12. RunsInv(t)'
  BY <1>6 DEF RunsInv
<1>13. SolveInv'
  BY <1>1, <1>2, <1>6, <1>10, <1>11, <1>12, Frame
<1>. QED
  BY <1>8, <1>13

(* The planner is asked again: its answer replaces what is not done, or    *)
(* what was planned stays.                                                 *)
LEMMA RedecomposeStep ==
  ASSUME SolveInv, NEW t \in Tasks, Redecompose(t)
  PROVE  SolveInv' /\ Goals!Replan(t)
<1> DEFINE n == Len(results[t])
<1>1. /\ pc[t] = "replanning" /\ pc' = [pc EXCEPT ![t] = "next"]
      /\ replans' = [replans EXCEPT ![t] = @ + 1] /\ results' = results
      /\ runs' = runs /\ hasAgent' = hasAgent /\ UNCHANGED shared
  BY DEF Redecompose, Goto, ofSubtask
<1>2. SolveTypeOK /\ GoalInv(t) /\ RunsInv(t)
  BY DEF SolveInv, TasksInv
<1>3. /\ n \in Nat /\ n > 0 /\ results[t][n].ok /\ replans[t] < MaxRedecompositions
      /\ n <= Len(plan[t]) /\ Len(plan[t]) <= n + MaxSubtasks
      /\ MaxSubtasks \in Nat /\ replans[t] \in 0..MaxRedecompositions /\ MaxRedecompositions \in Nat
      /\ plan[t] \in Seq(Names) /\ Len(plan[t]) \in Nat /\ n \in Nat
  BY <1>1, <1>2, TaskFacts DEF GoalInv
<1> DEFINE Rewrites(new) ==
              /\ plan' = [plan EXCEPT ![t] = new] /\ Len(new) \in Nat
              /\ n <= Len(new) /\ Len(new) <= n + MaxSubtasks
              /\ SubSeq(new, 1, n) = SubSeq(plan[t], 1, n)
              /\ SubSeq(new, n + 1, Len(new)) \in Seq(Names)
              /\ Len(SubSeq(new, n + 1, Len(new))) <= MaxSubtasks
<1>4. PICK new \in Seq(Names) : Rewrites(new)
  <2>1. ASSUME NEW d \in Decompositions, plan' = [plan EXCEPT ![t] = Rest(t, d)]
        PROVE  \E new \in Seq(Names) : Rewrites(new)
    <3>1. Sliced(d) \in Seq(Names) /\ Len(Sliced(d)) \in Nat /\ Len(Sliced(d)) <= MaxSubtasks
      BY SlicedIsPiece
    <3>2. /\ Rest(t, d) \in Seq(Names) /\ Len(Rest(t, d)) = n + Len(Sliced(d))
          /\ SubSeq(Rest(t, d), 1, n) = SubSeq(plan[t], 1, n)
          /\ SubSeq(Rest(t, d), n + 1, Len(Rest(t, d))) = Sliced(d)
      BY <1>2, <1>3, RestFacts
    <3> DEFINE new == Rest(t, d)
               piece == Sliced(d)
    <3>3. /\ plan' = [plan EXCEPT ![t] = new] /\ Len(new) = n + Len(piece)
          /\ SubSeq(new, n + 1, Len(new)) = piece /\ new \in Seq(Names)
          /\ SubSeq(new, 1, n) = SubSeq(plan[t], 1, n)
          /\ piece \in Seq(Names) /\ Len(piece) \in Nat /\ Len(piece) <= MaxSubtasks
      BY <2>1, <3>1, <3>2
    <3> HIDE DEF new, piece
    <3>4. Rewrites(new)
      BY <1>3, <3>3
    <3>. QED
      BY <3>3, <3>4
  <2>2. ASSUME plan' = plan
        PROVE  \E new \in Seq(Names) : Rewrites(new)
    <3> DEFINE from == n + 1
               to == Len(plan[t])
               tail == SubSeq(plan[t], from, to)
    <3>1. /\ \A i \in from..to : plan[t][i] \in Names
          /\ from \in Int /\ to \in Int
      BY <1>3, ElementOfSeq
    <3> HIDE DEF from, to
    <3>2. /\ tail \in Seq(Names)
          /\ Len(tail) = IF from <= to THEN to - from + 1 ELSE 0
      BY <3>1, SubSeqProperties
    <3> HIDE DEF tail
    <3>3. Len(tail) <= MaxSubtasks
      BY <1>3, <3>2 DEF from, to
    <3>4. tail = SubSeq(plan[t], n + 1, Len(plan[t]))
      BY DEF tail, from, to
    <3>5. plan' = [plan EXCEPT ![t] = plan[t]]
      BY <1>2, <2>2 DEF SolveTypeOK
    <3>. QED
      BY <1>3, <3>2, <3>3, <3>4, <3>5
  <2>. QED
    BY <2>1, <2>2 DEF Redecompose
<1>5. /\ pc'[t] = "next" /\ plan'[t] = new /\ replans'[t] = replans[t] + 1 /\ OnlyOf(t)
  BY <1>1, <1>2, <1>4 DEF OnlyOf, SolveTypeOK
<1>6. SolveTypeOK'
  <2>1. plan' \in [Tasks -> Seq(Names)]
    BY <1>2, <1>4 DEF SolveTypeOK
  <2>2. replans' \in [Tasks -> 0..MaxRedecompositions]
    BY <1>1, <1>2, <1>3 DEF SolveTypeOK
  <2>3. pc' \in [Tasks -> Ended \cup Executing \cup {"planning", "next", "replanning"}]
    BY <1>1, <1>2 DEF SolveTypeOK
  <2>. QED
    BY <1>1, <1>2, <2>1, <2>2, <2>3 DEF SolveTypeOK, shared
<1>7. GoalInv(t)' /\ RunsInv(t)'
  BY <1>1, <1>2, <1>3, <1>4, <1>5 DEF GoalInv, RunsInv, Executing
<1>8. SolveInv'
  BY <1>1, <1>5, <1>6, <1>7, Frame
<1>9. Phase(pc[t]) = "working" /\ Phase(pc'[t]) = "working"
  BY <1>1, <1>5 DEF Phase
<1>10. [u \in Tasks |-> Phase(pc[u])]' = [u \in Tasks |-> Phase(pc[u])]
  BY <1>5, <1>9, PhaseSame
<1>11. Goals!Replan(t)
  BY <1>1, <1>3, <1>4, <1>5, <1>9, <1>10 DEF Goals!Replan, Goals!IsPiece
<1>. QED
  BY <1>8, <1>11

-----------------------------------------------------------------------------
(* The cache knows the name, or the task goes and looks for an agent: if   *)
(* another one already does so for that name, the name is raced for.       *)
LEMMA LookupStep ==
  ASSUME SolveInv, NEW t \in Tasks, Lookup(t)
  PROVE  SolveInv' /\ UNCHANGED Goals!vars
<1>1. /\ pc[t] = "next" /\ Len(results[t]) < Len(plan[t])
      /\ plan' = plan /\ results' = results /\ replans' = replans /\ runs' = runs
      /\ cache' = cache /\ spawns' = spawns
  BY DEF Lookup, ofGoal
<1>2. SolveTypeOK /\ GoalInv(t) /\ RunsInv(t) /\ Current(t) \in Names
  BY <1>1, TaskFacts DEF SolveInv, TasksInv
<1>3. CASE Current(t) \in cache
  <2>1. /\ pc' = [pc EXCEPT ![t] = "before"] /\ hasAgent' = [hasAgent EXCEPT ![t] = TRUE]
        /\ raced' = raced
    BY <1>3 DEF Lookup, Goto
  <2>2. pc'[t] = "before" /\ OnlyOf(t)
    BY <1>1, <1>2, <2>1 DEF OnlyOf, SolveTypeOK
  <2>3. SolveTypeOK'
    <3>1. pc' \in [Tasks -> Ended \cup Executing \cup {"planning", "next", "replanning"}]
      BY <1>2, <2>1 DEF SolveTypeOK, Executing
    <3>2. hasAgent' \in [Tasks -> BOOLEAN]
      BY <1>2, <2>1 DEF SolveTypeOK
    <3>. QED
      BY <1>1, <1>2, <2>1, <3>1, <3>2 DEF SolveTypeOK
  <2>4. GoalInv(t)' /\ RunsInv(t)'
    BY <1>1, <1>2, <2>2 DEF GoalInv, RunsInv
  <2>5. SolveInv'
    BY <1>1, <2>1, <2>2, <2>3, <2>4, Frame DEF shared
  <2>6. pc[t] \in Placed /\ pc'[t] \in Placed /\ Phase(pc'[t]) = Phase(pc[t])
    BY <1>1, <2>2 DEF Placed, Executing, Phase
  <2>. QED
    BY <1>1, <2>2, <2>5, <2>6, Stutter DEF ofGoal
<1>4. CASE Current(t) \notin cache
  <2>1. /\ pc' = [pc EXCEPT ![t] = "recalling"] /\ hasAgent' = hasAgent
        /\ raced \subseteq raced' /\ raced' \subseteq raced \cup {Current(t)}
        /\ (\E u \in Tasks : pc[u] = "recalling" /\ Current(u) = Current(t)) =>
              Current(t) \in raced'
    BY <1>4 DEF Lookup, Goto
  <2>2. pc'[t] = "recalling" /\ OnlyOf(t)
    BY <1>1, <1>2, <2>1 DEF OnlyOf, SolveTypeOK
  <2>3. SolveTypeOK'
    <3>1. pc' \in [Tasks -> Ended \cup Executing \cup {"planning", "next", "replanning"}]
      BY <1>2, <2>1 DEF SolveTypeOK, Executing
    <3>2. raced' \subseteq Names
      BY <1>2, <2>1 DEF SolveTypeOK
    <3>. QED
      BY <1>1, <1>2, <2>1, <3>1, <3>2 DEF SolveTypeOK
  <2>4. TasksInv'
    <3>1. GoalInv(t)' /\ RunsInv(t)'
      BY <1>1, <1>2, <2>2 DEF GoalInv, RunsInv
    <3>2. ASSUME NEW u \in Tasks \ {t} PROVE GoalInv(u)' /\ RunsInv(u)'
      BY <1>1, <2>2 DEF SolveInv, TasksInv, OnlyOf, GoalInv, RunsInv
    <3>. QED
      BY <3>1, <3>2 DEF TasksInv
  <2>5. SpawnInv'
    BY <1>1, <2>1 DEF SolveInv, SpawnInv
  <2>6. RecallInv'
    <3> SUFFICES ASSUME NEW u \in Tasks, NEW w \in Tasks,
                        pc'[u] = "recalling", Current(u)' \notin raced'
                 PROVE  /\ Current(u)' \notin cache'
                        /\ pc'[w] = "recalling" /\ Current(w)' = Current(u)' => w = u
      BY DEF RecallInv
    <3>1. \A v \in Tasks : Current(v)' = Current(v)
      BY <1>1 DEF Current
    <3>2. CASE u = t
      BY <1>1, <1>4, <2>1, <2>2, <3>1, <3>2 DEF OnlyOf
    <3>3. CASE u # t
      <4>1. pc[u] = "recalling" /\ Current(u) \notin raced
        BY <2>1, <2>2, <3>1, <3>3 DEF OnlyOf
      <4>2. w = t => Current(w) # Current(u)
        BY <2>1, <3>1, <4>1
      <4>. QED
        BY <1>1, <2>2, <3>1, <4>1, <4>2 DEF SolveInv, RecallInv, OnlyOf
    <3>. QED
      BY <3>2, <3>3
  <2>7. pc[t] \in Placed /\ pc'[t] \in Placed /\ Phase(pc'[t]) = Phase(pc[t])
    BY <1>1, <2>2 DEF Placed, Executing, Phase
  <2>. QED
    BY <1>1, <2>2, <2>3, <2>4, <2>5, <2>6, <2>7, Stutter DEF ofGoal, SolveInv
<1>. QED
  BY <1>3, <1>4

(* An agent is spawned: the first of its name, or the name was raced for.  *)
LEMMA RecalledStep ==
  ASSUME SolveInv, NEW t \in Tasks, Recalled(t)
  PROVE  SolveInv' /\ UNCHANGED Goals!vars
<1> DEFINE m == Current(t)
<1>1. PICK s \in {"before", "storing"} : pc' = [pc EXCEPT ![t] = s]
  BY DEF Recalled, Goto
<1>2. /\ pc[t] = "recalling"
      /\ plan' = plan /\ results' = results /\ replans' = replans /\ runs' = runs
      /\ cache' = cache \cup {m} /\ raced' = raced
      /\ spawns[m] < MaxSpawns /\ spawns' = [spawns EXCEPT ![m] = @ + 1]
      /\ hasAgent' = [hasAgent EXCEPT ![t] = TRUE]
  BY DEF Recalled, Spawned, ofGoal
<1>3. SolveTypeOK /\ GoalInv(t) /\ RunsInv(t)
  BY DEF SolveInv, TasksInv
<1>4. m \in Names
  BY <1>2, <1>3, TaskFacts DEF GoalInv, Executing
<1>5. \A v \in Tasks : Current(v)' = Current(v)
  BY <1>2 DEF Current
<1>6. m \notin raced => m \notin cache /\ \A u \in Tasks \ {t} :
                                            pc[u] = "recalling" => Current(u) # m
  BY <1>2 DEF SolveInv, RecallInv
<1> HIDE DEF m
<1>7. pc'[t] = s /\ OnlyOf(t)
  BY <1>1, <1>2, <1>3 DEF OnlyOf, SolveTypeOK
<1>8. SolveTypeOK'
  <2>1. pc' \in [Tasks -> Ended \cup Executing \cup {"planning", "next", "replanning"}]
    BY <1>1, <1>3 DEF SolveTypeOK, Executing
  <2>2. hasAgent' \in [Tasks -> BOOLEAN]
    BY <1>2, <1>3 DEF SolveTypeOK
  <2>3. spawns' \in [Names -> 0..MaxSpawns]
    BY <1>2, <1>3, <1>4, MaxSpawnsAssumption DEF SolveTypeOK
  <2>4. cache' \subseteq Names
    BY <1>2, <1>3, <1>4 DEF SolveTypeOK
  <2>. QED
    BY <1>2, <1>3, <2>1, <2>2, <2>3, <2>4 DEF SolveTypeOK
<1>9. TasksInv'
  <2>1. GoalInv(t)' /\ RunsInv(t)'
    BY <1>1, <1>2, <1>3, <1>7 DEF GoalInv, RunsInv, Executing
  <2>2. ASSUME NEW u \in Tasks \ {t} PROVE GoalInv(u)' /\ RunsInv(u)'
    BY <1>2, <1>7 DEF SolveInv, TasksInv, OnlyOf, GoalInv, RunsInv
  <2>. QED
    BY <2>1, <2>2 DEF TasksInv
<1>10. SpawnInv'
  <2> SUFFICES ASSUME NEW k \in Names \ raced
               PROVE  spawns'[k] <= 1 /\ (k \notin cache' => spawns'[k] = 0)
    BY <1>2 DEF SpawnInv
  <2>1. spawns[k] <= 1 /\ (k \notin cache => spawns[k] = 0) /\ spawns \in [Names -> 0..MaxSpawns]
    BY DEF SolveInv, SpawnInv, SolveTypeOK
  <2>2. CASE k = m
    BY <1>2, <1>4, <1>6, <2>1, <2>2
  <2>3. CASE k # m
    BY <1>2, <1>4, <2>1, <2>3
  <2>. QED
    BY <2>2, <2>3
<1>11. RecallInv'
  <2> SUFFICES ASSUME NEW u \in Tasks, NEW w \in Tasks,
                      pc'[u] = "recalling", Current(u) \notin raced
               PROVE  /\ Current(u) \notin cache'
                      /\ pc'[w] = "recalling" /\ Current(w) = Current(u) => w = u
    BY <1>2, <1>5 DEF RecallInv
  <2>1. u # t /\ pc[u] = "recalling" /\ (pc'[w] = "recalling" => pc[w] = "recalling")
    BY <1>1, <1>7 DEF OnlyOf
  <2>2. Current(u) # m
    BY <1>6, <2>1
  <2>. QED
    BY <1>2, <2>1, <2>2 DEF SolveInv, RecallInv
<1>12. pc[t] \in Placed /\ pc'[t] \in Placed /\ Phase(pc'[t]) = Phase(pc[t])
  BY <1>1, <1>2, <1>7 DEF Placed, Executing, Phase
<1>. QED
  BY <1>2, <1>7, <1>8, <1>9, <1>10, <1>11, <1>12, Stutter DEF ofGoal, SolveInv

-----------------------------------------------------------------------------
(* Every step of a task keeps the invariant, and is a step of its goal or  *)
(* none.                                                                   *)
LEMMA TaskStep ==
  ASSUME SolveInv, NEW t \in Tasks, Solve(t) \/ Step(t) \/ Cancel(t)
  PROVE  SolveInv' /\ (Goals!Next \/ UNCHANGED Goals!vars)
<1>1. CASE Solve(t)
  BY <1>1, SolveStep DEF Goals!Next
<1>2. CASE Cancel(t)
  <2>1. pc[t] \notin Ended /\ Leave(t, "cancelled")
    BY <1>2 DEF Cancel
  <2>. QED
    BY <2>1, LeaveStep DEF Goals!Next
<1>3. CASE Decompose(t)
  BY <1>3, DecomposeStep DEF Goals!Next
<1>4. ASSUME DecomposeRaises(t) \/ (RetryAfter(t) /\ Leave(t, "raised"))
      PROVE  SolveInv' /\ Goals!Next
  <2>1. pc[t] \in {"planning"} \cup Executing /\ pc[t] \notin Ended /\ Leave(t, "raised")
    BY <1>4 DEF DecomposeRaises, RetryAfter, Ended, Executing
  <2>. QED
    BY <2>1, LeaveStep DEF Goals!Next
<1>5. CASE Return(t)
  <2>1. pc[t] = "next" /\ pc[t] \notin Ended /\ Len(results[t]) = Len(plan[t]) /\ Leave(t, "done")
    BY <1>5 DEF Return, Ended
  <2>. QED
    BY <2>1, LeaveStep DEF Goals!Next
<1>6. CASE Lookup(t)
  BY <1>6, LookupStep
<1>7. CASE Recalled(t)
  BY <1>7, RecalledStep
<1>8. CASE Redecompose(t)
  BY <1>8, RedecomposeStep DEF Goals!Next
<1>9. CASE SpawnRaises(t) \/ Stored(t)
  BY <1>9, MoveStep DEF SpawnRaises, Stored
<1>10. ASSUME NEW ok \in BOOLEAN, pc[t] \in Executing, Complete(t, ok)
       PROVE  SolveInv' /\ Goals!Next
  BY <1>10, CompleteStep DEF Goals!Next
<1>11. CASE Before(t)
  <2>1. CASE Run(t, "running")
    BY <1>11, <2>1, RunStep DEF Before
  <2>2. CASE Goto(t, "after") /\ UNCHANGED <<ofGoal, ofSubtask, shared>>
    BY <1>11, <2>2, MoveStep DEF Before
  <2>3. CASE Complete(t, FALSE)
    BY <1>10, <1>11, <2>3 DEF Before, Executing
  <2>. QED
    BY <1>11, <2>1, <2>2, <2>3 DEF Before
<1>12. CASE Running(t)
  <2>1. CASE (Goto(t, "after") \/ Goto(t, "error")) /\ UNCHANGED <<ofGoal, ofSubtask, shared>>
    BY <1>12, <2>1, MoveStep DEF Running
  <2>2. CASE Complete(t, FALSE)
    BY <1>10, <1>12, <2>2 DEF Running, Executing
  <2>. QED
    BY <1>12, <2>1, <2>2 DEF Running
<1>13. CASE After(t)
  BY <1>10, <1>13 DEF After, Executing
<1>14. CASE Error(t)
  <2>1. CASE Run(t, "retrying")
    BY <1>14, <2>1, RunStep DEF Error
  <2>2. CASE Complete(t, FALSE)
    BY <1>10, <1>14, <2>2 DEF Error, Executing
  <2>. QED
    BY <1>14, <2>1, <2>2 DEF Error
<1>15. CASE Retrying(t)
  <2>1. CASE Goto(t, "retry_after") /\ UNCHANGED <<ofGoal, ofSubtask, shared>>
    BY <1>15, <2>1, MoveStep DEF Retrying
  <2>2. CASE Complete(t, FALSE)
    BY <1>10, <1>15, <2>2 DEF Retrying, Executing
  <2>. QED
    BY <1>15, <2>1, <2>2 DEF Retrying
<1>16. CASE RetryAfter(t)
  <2>1. CASE Complete(t, TRUE)
    BY <1>10, <1>16, <2>1 DEF RetryAfter, Executing
  <2>. QED
    BY <1>4, <1>16, <2>1 DEF RetryAfter
<1>. QED
  BY <1>1, <1>2, <1>3, <1>4, <1>5, <1>6, <1>7, <1>8, <1>9, <1>11, <1>12, <1>13, <1>14, <1>15, <1>16
     DEF Step

LEMMA NextSolveInv == SolveInv /\ [SolveNext]_goalVars => SolveInv'
<1> SUFFICES ASSUME SolveInv, [SolveNext]_goalVars PROVE SolveInv'
  OBVIOUS
<1>1. CASE SolveNext
  BY <1>1, TaskStep DEF SolveNext
<1>2. CASE UNCHANGED goalVars
  BY <1>2 DEF goalVars, SolveInv, SolveTypeOK, TasksInv, GoalInv, RunsInv, SpawnInv, RecallInv, Current
<1>. QED
  BY <1>1, <1>2

LEMMA AlwaysSolveInv == SolveSpec => []SolveInv
  BY InitSolveInv, NextSolveInv, PTL DEF SolveSpec

(* Whatever hooks, memory and planner answer: the agent of a subtask runs  *)
(* at most twice, an agent is spawned once per name unless two tasks looked*)
(* for it together, and the planner is asked again no more often than      *)
(* allowed.                                                                *)
THEOREM WorkStaysBounded == SolveSpec => []WorkIsBounded
<1>1. SolveInv => WorkIsBounded
  BY DEF SolveInv, TasksInv, RunsInv, SpawnInv, WorkIsBounded, RunsBounded, SpawnedOnce
<1>. QED
  BY <1>1, AlwaysSolveInv, PTL

(* solve, with its agents, hooks, memory and cache, does what GoalExecution*)
(* promises: one result per subtask in the order of the plan, which is     *)
(* rewritten only behind the results, after a success, piece by piece.     *)
THEOREM SolveImplementsGoals == SolveSpec => ImplementsGoals
<1>1. SolveInit => Goals!Init
  <2> SUFFICES ASSUME SolveInit PROVE Goals!Init
    OBVIOUS
  <2>1. [t \in Tasks |-> Phase(pc[t])] = [t \in Tasks |-> "idle"]
    BY DEF SolveInit, Phase
  <2>. QED
    BY <2>1 DEF SolveInit, Goals!Init
<1>2. SolveInv /\ [SolveNext]_goalVars => [Goals!Next]_Goals!vars
  <2> SUFFICES ASSUME SolveInv, [SolveNext]_goalVars PROVE Goals!Next \/ UNCHANGED Goals!vars
    OBVIOUS
  <2>1. CASE SolveNext
    BY <2>1, TaskStep DEF SolveNext
  <2>2. CASE UNCHANGED goalVars
    BY <2>2 DEF goalVars, Goals!vars
  <2>. QED
    BY <2>1, <2>2
<1>. QED
  BY <1>1, <1>2, AlwaysSolveInv, PTL DEF SolveSpec, ImplementsGoals, Goals!Spec
-----------------------------------------------------------------------------
(* The tool registry and the connections behind it.                        *)

(* A connection in the making belongs to one request. *)
OpeningInv ==
    /\ \A r \in DOMAIN Requesters :
          request[r].pc = "connecting" =>
             request[r].conn \in Conns /\ conns[request[r].conn].pc = "opening"
    /\ \A q, r \in DOMAIN Requesters :
          /\ q # r
          /\ request[q].pc = "connecting" /\ request[r].pc = "connecting"
          => request[q].conn # request[r].conn

(* A session is there from the end of the handshakes until it is closed. *)
SessionInv ==
    \A c \in Conns : conns[c].session => conns[c].pc \in {"open", "closing"}

(* What disconnect_all has passed is being closed, or was connected since. *)
CloserInv ==
    closer.pos > 0 =>
        \A i \in DOMAIN entries :
            i < closer.pos /\ entries[i].conn # None =>
                conns[entries[i].conn].pc # "open" \/ conns[entries[i].conn].raced

(* The approval travels from the gate to the connection and the registry;  *)
(* a connection that is not in use yet has none.                           *)
ApprovalInv ==
    /\ \A r \in DOMAIN Requesters :
          Requesters[r] = "registry" /\ request[r].pc \in {"search", "next", "connecting", "register"} =>
             request[r].approved
    /\ \A r \in DOMAIN Requesters :
          /\ request[r].pc = "connecting" => conns[request[r].conn].approved = request[r].approved
          /\ request[r].pc = "register" =>
                request[r].conn \in Conns /\ conns[request[r].conn].approved
    /\ \A c \in Conns : conns[c].pc = "unused" => ~conns[c].approved

AgentInv == agent.cached => agent.inner = agent.own

(* What the registry and the agent hold came from an approved request. *)
Approved(p) == p \in Conns => conns[p].approved
HeldInv ==
    /\ \A t \in Tools : Approved(registry[t])
    /\ \A t \in AgentTools : Approved(agent.own[t]) /\ Approved(agent.inner[t])

(* Entries of one name are one entry. *)
NamesUnique ==
    \A i, j \in DOMAIN entries :
        /\ entries[i].conn # None /\ entries[j].conn # None
        /\ entries[i].server = entries[j].server
        => i = j

Types ==
    /\ conns \in [Conns -> Connections]
    /\ entries \in Seq(Slots)
    /\ closer \in [pos : Nat, size : Nat] /\ closer.pos <= Len(entries) + 1
    /\ registry \in [Tools -> {None} \cup Providers]
    /\ request \in [DOMAIN Requesters -> Requests]
    /\ agent \in [own : Toolset, cached : BOOLEAN, inner : Toolset]

IInv ==
    /\ Types /\ NamesUnique /\ OpeningInv /\ SessionInv /\ CloserInv /\ ApprovalInv
    /\ AgentInv /\ HeldInv /\ OpenIsListed

-----------------------------------------------------------------------------
(* A set of at most one element. *)
LEMMA AtMostOne ==
  ASSUME NEW S, IsFiniteSet(S), \A x, y \in S : x = y
  PROVE  Cardinality(S) <= 1
<1>1. CASE S = {}
  BY <1>1, FS_EmptySet
<1>2. ASSUME NEW x \in S PROVE Cardinality(S) <= 1
  <2>1. S = {x}
    BY <1>2
  <2>. QED
    BY <2>1, FS_Singleton
<1>. QED
  BY <1>1, <1>2

LEMMA EntryFacts ==
  ASSUME Types
  PROVE  /\ Len(entries) \in Nat /\ DOMAIN entries = 1..Len(entries)
         /\ \A i \in DOMAIN entries : entries[i] \in Slots
BY ElementOfSeq, LenProperties DEF Types

LEMMA IInvTypeOK == IInv => TypeOK
<1> SUFFICES ASSUME IInv PROVE TypeOK
  OBVIOUS
<1>1. ASSUME NEW s \in Servers PROVE Cardinality(Entry(s)) <= 1
  <2>1. Entry(s) \subseteq 1..Len(entries) /\ Len(entries) \in Nat
    BY DEF Entry, IInv, Types
  <2>2. IsFiniteSet(Entry(s))
    <3>1. IsFiniteSet(1..Len(entries))
      BY <2>1, FS_Interval
    <3>. QED
      BY <2>1, <3>1, FS_Subset
  <2>3. \A i, j \in Entry(s) : i = j
    BY DEF Entry, IInv, NamesUnique
  <2>. QED
    BY <2>2, <2>3, AtMostOne
<1>. QED
  BY <1>1 DEF IInv, Types, TypeOK

LEMMA SizeType ==
  ASSUME Types
  PROVE  Size \in Nat
<1>1. Listed \subseteq 1..MaxConns
  <2>1. \A i \in DOMAIN entries : entries[i].conn \in {None} \cup Conns
    BY EntryFacts DEF Slots
  <2>. QED
    BY <2>1 DEF Listed, Conns
<1>2. IsFiniteSet(Listed)
  <2>1. IsFiniteSet(1..MaxConns)
    BY MaxConnsAssumption, FS_Interval
  <2>. QED
    BY <1>1, <2>1, FS_Subset
<1>. QED
  BY <1>2, FS_CardinalityType DEF Size

LEMMA InitIInv == Init => IInv
<1> SUFFICES ASSUME Init PROVE IInv
  OBVIOUS
<1>1. Types
  <2>1. Unused \in Connections /\ Idle \in Requests
    BY ToolsAssumption, ServersAssumption DEF Unused, Connections, Idle, Requests, None
  <2>2. NoTools \in Toolset
    BY DEF NoTools, Toolset
  <2>3. registry \in [Tools -> {None} \cup Providers]
    BY DEF Init, Providers
  <2>4. closer \in [pos : Nat, size : Nat] /\ closer.pos <= Len(entries) + 1
    BY DEF Init
  <2>. QED
    BY <2>1, <2>2, <2>3, <2>4 DEF Init, Types
<1>2. NamesUnique /\ OpeningInv /\ SessionInv /\ CloserInv /\ AgentInv /\ OpenIsListed
  BY DEF Init, NamesUnique, OpeningInv, SessionInv, CloserInv, AgentInv, OpenIsListed, Unused, Idle
<1>3. ApprovalInv
  BY DEF Init, ApprovalInv, Unused, Idle
<1>4. HeldInv
  <2>1. None \notin Conns /\ Local \notin Conns
    BY MaxConnsAssumption DEF Conns, Local, None
  <2>. QED
    BY <2>1 DEF Init, HeldInv, Approved, NoTools
<1>. QED
  BY <1>1, <1>2, <1>3, <1>4 DEF IInv

-----------------------------------------------------------------------------
(* Steps of the registry and the agent: what they hold changes, and nothing*)
(* about connections and requests.                                         *)
LEMMA HoldingSteps ==
  ASSUME IInv,
         \/ \E t \in Tools : Remove(t)
         \/ \E t \in AgentTools : AddTool(t)
         \/ \E G \in SUBSET AgentTools : Spawn(G)
         \/ StartRun
  PROVE  IInv'
<1> USE DEF IInv
<1>1. UNCHANGED <<conns, entries, closer, request>>
  BY DEF Remove, AddTool, Spawn, StartRun
<1>2. NamesUnique' /\ OpeningInv' /\ SessionInv' /\ CloserInv' /\ ApprovalInv' /\ OpenIsListed'
  BY <1>1 DEF NamesUnique, OpeningInv, SessionInv, CloserInv, ApprovalInv, OpenIsListed, Listed
<1>3. None \notin Conns /\ Generated \notin Conns /\ {None, Generated} \subseteq {None} \cup Providers
  BY MaxConnsAssumption DEF Conns, Generated, None, Providers
<1>4. Types' /\ AgentInv' /\ HeldInv'
  <2>1. ASSUME NEW t \in Tools, Remove(t) PROVE Types' /\ AgentInv' /\ HeldInv'
    BY <1>1, <1>3, <2>1 DEF Remove, Types, AgentInv, HeldInv, Approved
  <2>2. ASSUME NEW t \in AgentTools, AddTool(t) PROVE Types' /\ AgentInv' /\ HeldInv'
    <3>1. registry[t] \in {None} \cup Providers /\ Approved(registry[t]) /\ Approved(None)
      BY <1>3, ToolsAssumption DEF Types, HeldInv, Approved
    <3>2. [agent.own EXCEPT ![t] = registry[t]] \in Toolset /\ NoTools \in Toolset
      BY <3>1 DEF Types, Toolset, NoTools
    <3>3. /\ agent' = [own |-> [agent.own EXCEPT ![t] = registry[t]], cached |-> FALSE, inner |-> NoTools]
          /\ registry' = registry
      BY <2>2 DEF AddTool, Types
    <3>4. Types'
      BY <1>1, <3>2, <3>3 DEF Types
    <3>5. \A u \in AgentTools : Approved(agent'.own[u]) /\ Approved(agent'.inner[u])
      BY <3>1, <3>3 DEF Types, Toolset, NoTools, HeldInv
    <3>. QED
      BY <1>1, <3>3, <3>4, <3>5 DEF AgentInv, HeldInv, Approved
  <2>3. ASSUME NEW G \in SUBSET AgentTools, Spawn(G) PROVE Types' /\ AgentInv' /\ HeldInv'
    <3>1. PICK own \in Toolset :
             /\ \A t \in AgentTools : own[t] \in {Generated, None, registry[t]}
             /\ agent' = [own |-> own, cached |-> FALSE, inner |-> NoTools]
      BY <2>3 DEF Spawn, Resolve, GeneratedTool
    <3>2. registry' = registry /\ NoTools \in Toolset
      BY <2>3 DEF Spawn, Toolset, NoTools
    <3>3. \A u \in AgentTools : Approved(own[u]) /\ Approved(NoTools[u])
      BY <1>3, <3>1, ToolsAssumption DEF HeldInv, Approved, NoTools
    <3>. QED
      BY <1>1, <3>1, <3>2, <3>3 DEF Types, AgentInv, HeldInv, Approved
  <2>4. CASE StartRun
    <3>1. agent' = [own |-> agent.own, cached |-> TRUE, inner |-> agent.own] /\ registry' = registry
      BY <2>4 DEF StartRun, Types
    <3>. QED
      BY <1>1, <3>1 DEF Types, AgentInv, HeldInv, Approved
  <2>. QED
    BY <2>1, <2>2, <2>3, <2>4
<1>. QED
  BY <1>2, <1>4

(* Steps of a request that leave the connections alone.                    *)
LEMMA RequestSteps ==
  ASSUME IInv, NEW r \in DOMAIN Requesters,
         \/ \E t \in Tools : Ask(r, t)
         \/ Gate(r) \/ Search(r) \/ CheckFound(r) \/ GiveUp(r)
  PROVE  IInv'
<1> USE DEF IInv
<1>1. UNCHANGED <<conns, entries, closer, registry, agent>>
  BY DEF Ask, Gate, Search, CheckFound, GiveUp
<1>2. NamesUnique' /\ SessionInv' /\ CloserInv' /\ AgentInv' /\ HeldInv' /\ OpenIsListed'
  BY <1>1 DEF NamesUnique, SessionInv, CloserInv, AgentInv, HeldInv, Approved, OpenIsListed, Listed
<1>3. PICK q \in Requests :
         /\ request' = [request EXCEPT ![r] = q]
         /\ q.pc \notin {"connecting", "register"}
         /\ Requesters[r] = "registry" /\ q.pc \in {"search", "next"} => q.approved
  <2> DEFINE Moves(q) == /\ request' = [request EXCEPT ![r] = q]
                         /\ q.pc \notin {"connecting", "register"}
                         /\ Requesters[r] = "registry" /\ q.pc \in {"search", "next"} => q.approved
  <2>1. Idle \in Requests /\ Idle.pc = "idle" /\ Idle = [Idle EXCEPT !.pc = "idle"]
    BY ToolsAssumption DEF Idle, Requests, None
  <2>2. request[r] \in Requests
    BY DEF Types
  <2>3. ASSUME NEW t \in Tools, Ask(r, t) PROVE \E q \in Requests : Moves(q)
    <3>1. CASE Requesters[r] = "registry"
      <4>1. [Idle EXCEPT !.pc = "gate", !.tool = t] \in Requests
        BY <2>1 DEF Requests
      <4>2. Moves([Idle EXCEPT !.pc = "gate", !.tool = t])
        BY <2>1, <2>3, <3>1 DEF Ask, Requests
      <4>. QED
        BY <4>1, <4>2
    <3>2. CASE Requesters[r] # "registry"
      <4>1. [Idle EXCEPT !.pc = "search"] \in Requests
        BY <2>1 DEF Requests
      <4>2. Moves([Idle EXCEPT !.pc = "search"])
        BY <2>1, <2>3, <3>2 DEF Ask, Requests
      <4>. QED
        BY <4>1, <4>2
    <3>. QED
      BY <3>1, <3>2
  <2>4. ASSUME Gate(r) PROVE \E q \in Requests : Moves(q)
    <3>1. CASE request' = [request EXCEPT ![r].pc = "search", ![r].approved = TRUE]
      <4>1. [request[r] EXCEPT !.pc = "search", !.approved = TRUE] \in Requests
        BY <2>2 DEF Requests
      <4>2. Moves([request[r] EXCEPT !.pc = "search", !.approved = TRUE])
        BY <2>2, <3>1 DEF Requests, Types
      <4>. QED
        BY <4>1, <4>2
    <3>2. CASE End(r)
      BY <2>1, <3>2 DEF End
    <3>. QED
      BY <2>4, <3>1, <3>2 DEF Gate
  <2>5. ASSUME Search(r) PROVE \E q \in Requests : Moves(q)
    <3>1. PICK found \in QueryRegistry :
             request' = [request EXCEPT ![r].pc = "next", ![r].servers = found]
      BY <2>5 DEF Search
    <3>2. found \in Seq(Servers)
      BY FoundAssumption, EmptySeq DEF QueryRegistry
    <3>3. [request[r] EXCEPT !.pc = "next", !.servers = found] \in Requests
      BY <2>2, <3>2 DEF Requests
    <3>4. Moves([request[r] EXCEPT !.pc = "next", !.servers = found])
      BY <2>2, <2>5, <3>1 DEF Requests, Types, Search, ApprovalInv
    <3>. QED
      BY <3>3, <3>4
  <2>6. ASSUME CheckFound(r) PROVE \E q \in Requests : Moves(q)
    <3>1. [request[r] EXCEPT !.pc = "next"] \in Requests
      BY <2>2 DEF Requests
    <3>2. CASE To(r, "next")
      <4>1. Moves([request[r] EXCEPT !.pc = "next"])
        BY <2>2, <2>6, <3>2 DEF Requests, Types, CheckFound, To, ApprovalInv
      <4>. QED
        BY <3>1, <4>1
    <3>3. CASE End(r)
      BY <2>1, <3>3 DEF End
    <3>. QED
      BY <2>6, <3>2, <3>3 DEF CheckFound
  <2>7. ASSUME GiveUp(r) PROVE \E q \in Requests : Moves(q)
    BY <2>1, <2>7 DEF GiveUp, End
  <2>. QED
    BY <2>3, <2>4, <2>5, <2>6, <2>7
<1>4. Types'
  BY <1>1, <1>3 DEF Types
<1>5. OpeningInv' /\ ApprovalInv'
  BY <1>1, <1>3 DEF Types, OpeningInv, ApprovalInv
<1>. QED
  BY <1>2, <1>4, <1>5

LEMMA FreshFacts ==
  ASSUME CanConnect
  PROVE  Fresh \in Conns /\ conns[Fresh].pc = "unused"
BY DEF CanConnect, Fresh

LEMMA TryServerStep ==
  ASSUME IInv, NEW r \in DOMAIN Requesters, TryServer(r)
  PROVE  IInv'
<1> USE DEF IInv
<1> DEFINE q == request[r]
<1>1. /\ UNCHANGED <<entries, closer, registry, agent>>
      /\ q.pc = "next" /\ q.servers # <<>> /\ q \in Requests
  BY DEF TryServer, Types
<1>2. Head(q.servers) \in Servers /\ Tail(q.servers) \in Seq(Servers)
  BY <1>1, HeadTailProperties DEF Requests
<1>3. NamesUnique' /\ AgentInv'
  BY <1>1 DEF NamesUnique, AgentInv
<1>4. CASE request' = [request EXCEPT ![r].servers = Tail(@)] /\ UNCHANGED conns
  <2>1. request' = [request EXCEPT ![r] = [q EXCEPT !.servers = Tail(q.servers)]]
    BY <1>4 DEF Types
  <2>2. [q EXCEPT !.servers = Tail(q.servers)] \in Requests
    BY <1>1, <1>2 DEF Requests
  <2>3. Types'
    BY <1>1, <1>4, <2>1, <2>2 DEF Types
  <2>4. \A p \in DOMAIN Requesters :
           /\ request'[p].pc = request[p].pc /\ request'[p].conn = request[p].conn
           /\ request'[p].approved = request[p].approved
    BY <1>1, <2>1 DEF Types, Requests
  <2>5. OpeningInv' /\ ApprovalInv'
    BY <1>4, <2>4 DEF OpeningInv, ApprovalInv
  <2>6. SessionInv' /\ CloserInv' /\ HeldInv' /\ OpenIsListed'
    BY <1>1, <1>4 DEF SessionInv, CloserInv, HeldInv, Approved, OpenIsListed, Listed
  <2>. QED
    BY <1>3, <2>3, <2>5, <2>6
<1>5. CASE /\ CanConnect
           /\ Opening(Head(q.servers), q.approved)
           /\ request' = [request EXCEPT ![r].pc = "connecting", ![r].conn = Fresh,
                                         ![r].servers = Tail(@)]
  <2> DEFINE c == Fresh
             new == [Unused EXCEPT !.server = Head(q.servers), !.pc = "opening",
                                   !.approved = q.approved]
             asked == [q EXCEPT !.pc = "connecting", !.conn = c, !.servers = Tail(q.servers)]
  <2>1. c \in Conns /\ conns[c].pc = "unused"
    BY <1>5, FreshFacts
  <2>2. /\ conns' = [conns EXCEPT ![c] = new] /\ request' = [request EXCEPT ![r] = asked]
    BY <1>5 DEF Opening, Types
  <2>3. /\ new \in Connections /\ new.pc = "opening" /\ ~new.session /\ new.approved = q.approved
    BY <1>1, <1>2 DEF Unused, Connections, Requests
  <2>4. asked \in Requests /\ asked.pc = "connecting" /\ asked.conn = c /\ asked.approved = q.approved
    BY <1>1, <1>2, <2>1 DEF Requests
  <2> HIDE DEF c, new, asked
  <2>5. Types'
    BY <1>1, <2>1, <2>2, <2>3, <2>4 DEF Types
  <2>6. /\ conns'[c] = new /\ \A d \in Conns \ {c} : conns'[d] = conns[d]
        /\ request'[r] = asked /\ \A p \in DOMAIN Requesters \ {r} : request'[p] = request[p]
    BY <2>1, <2>2 DEF Types
  <2>7. OpeningInv'
    BY <2>1, <2>3, <2>4, <2>6 DEF OpeningInv
  <2>8. SessionInv' /\ OpenIsListed'
    BY <1>1, <2>1, <2>3, <2>6 DEF SessionInv, OpenIsListed, Listed
  <2>9. CloserInv'
    BY <1>1, <2>1, <2>3, <2>6, EntryFacts DEF CloserInv, Slots
  <2>10. ApprovalInv'
    BY <1>1, <2>1, <2>3, <2>4, <2>6 DEF ApprovalInv, OpeningInv
  <2>11. HeldInv'
    BY <1>1, <2>1, <2>6 DEF HeldInv, Approved, ApprovalInv
  <2>. QED
    BY <1>3, <2>5, <2>7, <2>8, <2>9, <2>10, <2>11
<1>. QED
  BY <1>1, <1>4, <1>5 DEF TryServer

LEMMA ConnectFailsStep ==
  ASSUME IInv, NEW r \in DOMAIN Requesters, ConnectFails(r)
  PROVE  IInv'
<1> USE DEF IInv
<1> DEFINE c == request[r].conn
           new == [conns[c] EXCEPT !.pc = "failed"]
           asked == [request[r] EXCEPT !.pc = "next"]
<1>1. /\ UNCHANGED <<entries, closer, registry, agent>>
      /\ request[r].pc = "connecting" /\ request[r] \in Requests
      /\ c \in Conns /\ conns[c].pc = "opening" /\ conns[c] \in Connections
  BY DEF ConnectFails, Types, OpeningInv
<1>2. conns' = [conns EXCEPT ![c] = new] /\ request' = [request EXCEPT ![r] = asked]
  BY DEF ConnectFails, To, Types
<1>3. /\ new \in Connections /\ new.pc = "failed" /\ ~new.session
      /\ new.approved = conns[c].approved
  BY <1>1 DEF Connections, SessionInv
<1>4. asked \in Requests /\ asked.pc = "next" /\ asked.approved = request[r].approved
  BY <1>1 DEF Requests
<1>5. /\ conns'[c] = new /\ \A d \in Conns \ {c} : conns'[d] = conns[d]
      /\ request'[r] = asked /\ \A p \in DOMAIN Requesters \ {r} : request'[p] = request[p]
  BY <1>1, <1>2 DEF Types
<1>6. Types'
  BY <1>1, <1>2, <1>3, <1>4 DEF Types
<1> HIDE DEF new, asked
<1>7. OpeningInv'
  BY <1>1, <1>4, <1>5 DEF OpeningInv
<1>8. SessionInv' /\ OpenIsListed' /\ NamesUnique' /\ AgentInv'
  BY <1>1, <1>3, <1>5 DEF SessionInv, OpenIsListed, Listed, NamesUnique, AgentInv
<1>9. CloserInv'
  BY <1>1, <1>3, <1>5, EntryFacts DEF CloserInv, Slots
<1>10. ApprovalInv'
  BY <1>1, <1>3, <1>4, <1>5 DEF ApprovalInv, OpeningInv
<1>11. HeldInv'
  BY <1>1, <1>3, <1>5 DEF HeldInv, Approved
<1>. QED
  BY <1>6, <1>7, <1>8, <1>9, <1>10, <1>11

LEMMA RegisterFoundStep ==
  ASSUME IInv, NEW r \in DOMAIN Requesters, RegisterFound(r)
  PROVE  IInv'
<1> USE DEF IInv
<1>1. /\ UNCHANGED <<conns, entries, closer, agent>>
      /\ request[r].pc = "register" /\ request[r] \in Requests
      /\ request[r].conn \in Conns /\ conns[request[r].conn].approved
  BY DEF RegisterFound, Types, ApprovalInv
<1>2. PICK t \in request[r].todo :
         /\ registry' = [registry EXCEPT ![t] = request[r].conn]
         /\ request' = [request EXCEPT ![r] = [request[r] EXCEPT !.todo = request[r].todo \ {t}]]
  BY DEF RegisterFound, Register, Types
<1>3. [request[r] EXCEPT !.todo = request[r].todo \ {t}] \in Requests
  BY <1>1 DEF Requests
<1>4. Types'
  BY <1>1, <1>2, <1>3 DEF Types, Providers
<1>5. \A p \in DOMAIN Requesters :
         /\ request'[p].pc = request[p].pc /\ request'[p].conn = request[p].conn
         /\ request'[p].approved = request[p].approved
  BY <1>1, <1>2 DEF Types, Requests
<1>6. OpeningInv' /\ ApprovalInv'
  BY <1>1, <1>5 DEF OpeningInv, ApprovalInv
<1>7. SessionInv' /\ CloserInv' /\ OpenIsListed' /\ NamesUnique' /\ AgentInv'
  BY <1>1 DEF SessionInv, CloserInv, OpenIsListed, Listed, NamesUnique, AgentInv
<1>8. HeldInv'
  BY <1>1, <1>2 DEF HeldInv, Approved, Types
<1>. QED
  BY <1>4, <1>6, <1>7, <1>8

-----------------------------------------------------------------------------
(* Closing connections concerns neither those in the making nor approvals. *)
LEMMA ClosingKeeps ==
  ASSUME IInv, UNCHANGED <<request, registry, agent>>,
         \A d \in Conns :
            /\ conns'[d].approved = conns[d].approved
            /\ conns'[d].pc = "opening" <=> conns[d].pc = "opening"
            /\ conns'[d].pc = "unused" => conns[d].pc = "unused"
            /\ conns'[d].session => conns'[d].pc \in {"open", "closing"}
  PROVE  OpeningInv' /\ SessionInv' /\ ApprovalInv' /\ HeldInv' /\ AgentInv'
<1> USE DEF IInv
<1>1. OpeningInv' /\ SessionInv' /\ AgentInv'
  BY DEF OpeningInv, SessionInv, AgentInv
<1>2. ApprovalInv'
  BY DEF ApprovalInv, OpeningInv
<1>3. HeldInv'
  BY DEF HeldInv, Approved
<1>. QED
  BY <1>1, <1>2, <1>3

(* What one statement closes: at most the open connection c. *)
LEMMA CloseOne ==
  ASSUME IInv, NEW c \in Conns, UNCHANGED <<request, registry, agent>>,
         conns' = [conns EXCEPT ![c].pc = IF @ = "open" THEN "closing" ELSE @]
  PROVE  /\ conns' \in [Conns -> Connections]
         /\ conns'[c].pc # "open" /\ \A d \in Conns \ {c} : conns'[d] = conns[d]
         /\ conns'[c].raced = conns[c].raced
         /\ OpeningInv' /\ SessionInv' /\ ApprovalInv' /\ HeldInv' /\ AgentInv'
<1> USE DEF IInv
<1> DEFINE new == [conns[c] EXCEPT !.pc = IF conns[c].pc = "open" THEN "closing" ELSE conns[c].pc]
<1>1. conns[c] \in Connections /\ conns' = [conns EXCEPT ![c] = new]
  BY DEF Types
<1>2. /\ new \in Connections /\ new.approved = conns[c].approved /\ new.raced = conns[c].raced
      /\ new.session = conns[c].session
      /\ new.pc = IF conns[c].pc = "open" THEN "closing" ELSE conns[c].pc
  BY <1>1 DEF Connections
<1>3. /\ conns' \in [Conns -> Connections]
      /\ conns'[c] = new /\ \A d \in Conns \ {c} : conns'[d] = conns[d]
  BY <1>1, <1>2 DEF Types
<1> HIDE DEF new
<1>4. \A d \in Conns :
            /\ conns'[d].approved = conns[d].approved
            /\ conns'[d].pc = "opening" <=> conns[d].pc = "opening"
            /\ conns'[d].pc = "unused" => conns[d].pc = "unused"
            /\ conns'[d].session => conns'[d].pc \in {"open", "closing"}
  BY <1>2, <1>3 DEF SessionInv
<1>. QED
  BY <1>2, <1>3, <1>4, ClosingKeeps

LEMMA ClosedStep ==
  ASSUME IInv, NEW c \in Conns, Closed(c)
  PROVE  IInv'
<1> USE DEF IInv
<1> DEFINE new == [conns[c] EXCEPT !.pc = "closed", !.session = FALSE]
<1>1. /\ UNCHANGED <<entries, closer, request, registry, agent>>
      /\ conns[c].pc = "closing" /\ conns[c] \in Connections
      /\ conns' = [conns EXCEPT ![c] = new]
  BY DEF Closed, Types
<1>2. new \in Connections /\ new.pc = "closed" /\ ~new.session /\ new.approved = conns[c].approved
  BY <1>1 DEF Connections
<1>3. conns'[c] = new /\ \A d \in Conns \ {c} : conns'[d] = conns[d]
  BY <1>1 DEF Types
<1>4. Types'
  BY <1>1, <1>2 DEF Types
<1> HIDE DEF new
<1>5. OpeningInv' /\ SessionInv' /\ ApprovalInv' /\ HeldInv' /\ AgentInv'
  BY <1>1, <1>2, <1>3, ClosingKeeps DEF SessionInv
<1>6. NamesUnique' /\ OpenIsListed'
  BY <1>1, <1>2, <1>3 DEF NamesUnique, OpenIsListed, Listed
<1>7. CloserInv'
  BY <1>1, <1>2, <1>3, EntryFacts DEF CloserInv, Slots
<1>. QED
  BY <1>4, <1>5, <1>6, <1>7

LEMMA DisconnectStep ==
  ASSUME IInv, NEW s \in Servers, Disconnect(s)
  PROVE  IInv'
<1> USE DEF IInv
<1>1. PICK i \in DOMAIN entries :
         /\ entries[i].conn # None
         /\ entries' = [entries EXCEPT ![i].conn = None]
         /\ conns' = [conns EXCEPT ![entries[i].conn].pc = IF @ = "open" THEN "closing" ELSE @]
  BY DEF Disconnect, Entry
<1> DEFINE c == entries[i].conn
           slot == [entries[i] EXCEPT !.conn = None]
<1>2. UNCHANGED <<closer, request, registry, agent>>
  BY DEF Disconnect
<1>3. entries[i] \in Slots /\ c \in Conns /\ i \in 1..Len(entries)
  BY <1>1, EntryFacts DEF Slots
<1>4. slot \in Slots /\ slot.conn = None
  BY <1>3 DEF Slots
<1>5. entries' = [entries EXCEPT ![i] = slot]
  BY <1>1
<1>6. /\ entries' \in Seq(Slots) /\ Len(entries') = Len(entries)
      /\ \A j \in 1..Len(entries) : entries'[j] = IF j = i THEN slot ELSE entries[j]
      /\ DOMAIN entries' = 1..Len(entries) /\ DOMAIN entries = 1..Len(entries)
  BY <1>3, <1>4, <1>5, ExceptSeq, LenProperties DEF Types
<1>7. /\ conns' \in [Conns -> Connections]
      /\ conns'[c].pc # "open" /\ \A d \in Conns \ {c} : conns'[d] = conns[d]
      /\ OpeningInv' /\ SessionInv' /\ ApprovalInv' /\ HeldInv' /\ AgentInv'
  BY <1>1, <1>2, <1>3, CloseOne
<1> HIDE DEF c, slot
<1>8. Types'
  BY <1>2, <1>6, <1>7 DEF Types
<1>9. NamesUnique'
  BY <1>4, <1>6 DEF NamesUnique
<1>10. OpenIsListed'
  <2> SUFFICES ASSUME NEW d \in Conns, conns'[d].pc = "open", ~(conns'[d].raced \/ conns'[d].superseded)
               PROVE  d \in Listed'
    BY DEF OpenIsListed
  <2>1. d # c /\ conns'[d] = conns[d]
    BY <1>7
  <2>2. PICK j \in DOMAIN entries : entries[j].conn = d
    BY <2>1 DEF OpenIsListed, Listed
  <2>3. j # i
    BY <2>1, <2>2 DEF c
  <2>. QED
    BY <1>6, <2>2, <2>3 DEF Listed, Conns, None
<1>11. CloserInv'
  <2> SUFFICES ASSUME closer.pos > 0, NEW j \in DOMAIN entries, j < closer.pos, entries'[j].conn # None
               PROVE  conns'[entries'[j].conn].pc # "open" \/ conns'[entries'[j].conn].raced
    BY <1>2, <1>6 DEF CloserInv
  <2>1. j # i /\ entries'[j] = entries[j] /\ entries[j].conn \in Conns
    BY <1>4, <1>6, EntryFacts DEF Slots
  <2>. QED
    BY <1>7, <2>1 DEF CloserInv
<1>. QED
  BY <1>7, <1>8, <1>9, <1>10, <1>11

LEMMA DisconnectAllStep ==
  ASSUME IInv, DisconnectAll
  PROVE  IInv'
<1> USE DEF IInv
<1>1. UNCHANGED <<conns, entries, request, registry, agent>> /\ closer' = [pos |-> 1, size |-> Size]
  BY DEF DisconnectAll
<1>2. Types'
  <2>1. Size \in Nat /\ Len(entries) \in Nat
    BY SizeType, EntryFacts
  <2>. QED
    BY <1>1, <2>1 DEF Types
<1>3. CloserInv'
  BY <1>1, EntryFacts DEF CloserInv
<1>4. NamesUnique' /\ OpeningInv' /\ SessionInv' /\ ApprovalInv' /\ AgentInv' /\ HeldInv' /\ OpenIsListed'
  BY <1>1 DEF NamesUnique, OpeningInv, SessionInv, ApprovalInv, AgentInv, HeldInv, Approved,
     OpenIsListed, Listed
<1>. QED
  BY <1>2, <1>3, <1>4

LEMMA CloserStepStep ==
  ASSUME IInv, CloserStep
  PROVE  IInv'
<1> USE DEF IInv
<1>1. /\ UNCHANGED <<request, registry, agent>> /\ closer.pos > 0
      /\ closer \in [pos : Nat, size : Nat] /\ Len(entries) \in Nat
  BY EntryFacts DEF CloserStep, Types
<1>2. OpeningInv /\ SessionInv /\ ApprovalInv /\ HeldInv /\ AgentInv
  OBVIOUS
<1>3. CASE closer' = [pos |-> 0, size |-> 0] /\ UNCHANGED <<conns, entries>>
  <2>1. Types'
    BY <1>1, <1>3 DEF Types
  <2>2. CloserInv' /\ NamesUnique' /\ OpenIsListed'
    BY <1>3 DEF CloserInv, NamesUnique, OpenIsListed, Listed
  <2>3. OpeningInv' /\ SessionInv' /\ ApprovalInv' /\ HeldInv' /\ AgentInv'
    BY <1>1, <1>3, ClosingKeeps DEF SessionInv
  <2>. QED
    BY <2>1, <2>2, <2>3
<1>4. CASE /\ closer.pos > Len(entries)
           /\ closer' = [pos |-> 0, size |-> 0] /\ entries' = <<>> /\ UNCHANGED conns
  <2>1. entries' \in Seq(Slots) /\ Len(entries') = 0 /\ DOMAIN entries' = {}
    BY <1>4, EmptySeq
  <2>2. Types'
    <3>1. closer' \in [pos : Nat, size : Nat] /\ closer'.pos <= Len(entries') + 1
      BY <1>4, <2>1
    <3>2. conns' = conns
      BY <1>4
    <3>3. /\ conns' \in [Conns -> Connections] /\ registry' \in [Tools -> {None} \cup Providers]
          /\ request' \in [DOMAIN Requesters -> Requests]
          /\ agent' \in [own : Toolset, cached : BOOLEAN, inner : Toolset]
      BY <1>1, <3>2 DEF Types
    <3>. QED
      BY <2>1, <3>1, <3>3, Zenon DEF Types
  <2>3. CloserInv' /\ NamesUnique'
    BY <1>4, <2>1 DEF CloserInv, NamesUnique
  <2>4. OpenIsListed'
    <3> SUFFICES ASSUME NEW d \in Conns, conns[d].pc = "open"
                 PROVE  conns[d].raced \/ conns[d].superseded
      BY <1>4 DEF OpenIsListed
    <3>1. CASE d \in Listed
      <4>1. PICK j \in DOMAIN entries : entries[j].conn = d /\ d # None
        BY <3>1 DEF Listed
      <4>2. j < closer.pos
        BY <1>1, <1>4, EntryFacts
      <4>. QED
        BY <1>1, <4>1, <4>2 DEF CloserInv
    <3>. QED
      BY <3>1 DEF OpenIsListed
  <2>5. OpeningInv' /\ SessionInv' /\ ApprovalInv' /\ HeldInv' /\ AgentInv'
    BY <1>1, <1>4, ClosingKeeps DEF SessionInv
  <2>. QED
    BY <2>2, <2>3, <2>4, <2>5
<1>5. CASE /\ closer.pos <= Len(entries)
           /\ closer' = [closer EXCEPT !.pos = @ + 1]
           /\ conns' = IF entries[closer.pos].conn = None THEN conns
                       ELSE [conns EXCEPT ![entries[closer.pos].conn].pc = IF @ = "open" THEN "closing" ELSE @]
           /\ UNCHANGED entries
  <2> DEFINE p == closer.pos
             c == entries[p].conn
  <2>1. closer' \in [pos : Nat, size : Nat] /\ closer'.pos = p + 1 /\ p \in DOMAIN entries /\ p \in Nat
    BY <1>1, <1>5, EntryFacts
  <2>2. CASE c = None
    <3>1. conns' = conns
      BY <1>5, <2>2
    <3>2. Types'
      <4>1. entries' = entries /\ Len(entries') = Len(entries)
        BY <1>5
      <4>2. closer'.pos <= Len(entries') + 1
        BY <1>1, <1>5, <2>1, <4>1
      <4>3. /\ conns' \in [Conns -> Connections] /\ entries' \in Seq(Slots)
            /\ registry' \in [Tools -> {None} \cup Providers]
            /\ request' \in [DOMAIN Requesters -> Requests]
            /\ agent' \in [own : Toolset, cached : BOOLEAN, inner : Toolset]
        BY <1>1, <3>1, <4>1 DEF Types
      <4>. QED
        BY <2>1, <4>2, <4>3, Zenon DEF Types
    <3>3. CloserInv'
      <4> SUFFICES ASSUME NEW j \in DOMAIN entries, j < p + 1, entries[j].conn # None
                   PROVE  conns[entries[j].conn].pc # "open" \/ conns[entries[j].conn].raced
        BY <1>5, <2>1, <3>1 DEF CloserInv
      <4>1. j < p
        BY <2>1, <2>2, EntryFacts
      <4>. QED
        BY <1>1, <4>1 DEF CloserInv
    <3>4. NamesUnique' /\ OpenIsListed'
      BY <1>5, <3>1 DEF NamesUnique, OpenIsListed, Listed
    <3>5. OpeningInv' /\ SessionInv' /\ ApprovalInv' /\ HeldInv' /\ AgentInv'
      BY <1>1, <3>1, ClosingKeeps DEF SessionInv
    <3>. QED
      BY <3>2, <3>3, <3>4, <3>5
  <2>3. CASE c # None
    <3>1. c \in Conns
      BY <2>1, <2>3, EntryFacts DEF Slots
    <3>2. conns' = [conns EXCEPT ![c].pc = IF @ = "open" THEN "closing" ELSE @]
      BY <1>5, <2>3
    <3> HIDE DEF c
    <3>3. /\ conns' \in [Conns -> Connections]
          /\ conns'[c].pc # "open" /\ \A d \in Conns \ {c} : conns'[d] = conns[d]
          /\ OpeningInv' /\ SessionInv' /\ ApprovalInv' /\ HeldInv' /\ AgentInv'
      BY <1>1, <3>1, <3>2, CloseOne
    <3>4. Types'
      BY <1>1, <1>5, <2>1, <3>3 DEF Types
    <3>5. Listed' = Listed /\ NamesUnique'
      BY <1>5 DEF NamesUnique, Listed
    <3>6. OpenIsListed'
      <4> SUFFICES ASSUME NEW d \in Conns, conns'[d].pc = "open"
                   PROVE  d \in Listed \/ conns'[d].raced \/ conns'[d].superseded
        BY <3>5 DEF OpenIsListed
      <4>1. conns'[d] = conns[d]
        BY <3>3
      <4>. QED
        BY <4>1 DEF OpenIsListed
    <3>7. CloserInv'
      <4> SUFFICES ASSUME NEW j \in DOMAIN entries, j < p + 1, entries[j].conn # None
                   PROVE  conns'[entries[j].conn].pc # "open" \/ conns'[entries[j].conn].raced
        BY <1>5, <2>1 DEF CloserInv
      <4>1. entries[j].conn \in Conns /\ (j < p \/ j = p)
        BY <2>1, EntryFacts DEF Slots
      <4>. QED
        BY <1>1, <3>3, <4>1 DEF CloserInv, c
    <3>. QED
      BY <3>3, <3>4, <3>5, <3>6, <3>7
  <2>. QED
    BY <2>2, <2>3
<1>. QED
  BY <1>1, <1>3, <1>4, <1>5 DEF CloserStep

(* What storing a connection under its name does to the entries.           *)
LEMMA StoreFacts ==
  ASSUME IInv, NEW c \in Conns, Store(c)
  PROVE  /\ entries' \in Seq(Slots) /\ Len(entries') \in Nat /\ Len(entries') >= Len(entries)
         /\ NamesUnique'
         /\ c \in Listed'
         /\ \A j \in DOMAIN entries' :
               entries'[j].conn = c \/ (j \in DOMAIN entries /\ entries'[j] = entries[j])
<1> USE DEF IInv
<1> DEFINE s == conns[c].server
           slot == [server |-> s, conn |-> c]
           n == Len(entries)
<1>1. /\ n \in Nat /\ DOMAIN entries = 1..n /\ \A i \in 1..n : entries[i] \in Slots
      /\ s \in Servers /\ slot \in Slots /\ c # None
  BY EntryFacts, MaxConnsAssumption DEF Types, Connections, Slots, Conns, None
<1>2. \A i \in 1..n : i \in Entry(s) <=> entries[i].server = s /\ entries[i].conn # None
  BY <1>1 DEF Entry
<1>3. CASE Entry(s) # {}
  <2>1. entries' = [i \in 1..n |-> IF i \in Entry(s) THEN [entries[i] EXCEPT !.conn = c] ELSE entries[i]]
    BY <1>1, <1>3 DEF Store
  <2>2. \A i \in 1..n : i \in Entry(s) => [entries[i] EXCEPT !.conn = c] = slot
    BY <1>1, <1>2 DEF Slots
  <2>3. /\ entries' \in [1..n -> Slots]
        /\ \A i \in 1..n : entries'[i] = IF i \in Entry(s) THEN slot ELSE entries[i]
    BY <1>1, <2>1, <2>2
  <2>4. entries' \in Seq(Slots) /\ Len(entries') = n /\ DOMAIN entries' = 1..n
    <3>1. entries' \in Seq(Slots)
      BY <1>1, <2>3, SeqDef
    <3>. QED
      BY <1>1, <2>3, <3>1, LenProperties
  <2>5. PICK i \in 1..n : i \in Entry(s)
    BY <1>1, <1>3 DEF Entry
  <2>6. c \in Listed'
    BY <1>1, <2>3, <2>4, <2>5 DEF Listed
  <2>7. NamesUnique'
    BY <1>1, <1>2, <2>3, <2>4 DEF NamesUnique
  <2>. QED
    BY <1>1, <2>3, <2>4, <2>6, <2>7
<1>4. CASE Entry(s) = {}
  <2>1. entries' = Append(entries, slot)
    BY <1>4 DEF Store
  <2>2. /\ entries' \in Seq(Slots) /\ Len(entries') = n + 1 /\ DOMAIN entries' = 1..(n + 1)
        /\ entries'[n + 1] = slot /\ \A i \in 1..n : entries'[i] = entries[i]
    BY <1>1, <2>1, AppendProperties, LenProperties DEF Types
  <2>3. c \in Listed'
    <3>1. n + 1 \in DOMAIN entries' /\ entries'[n + 1].conn = c
      BY <1>1, <2>2
    <3>. QED
      BY <1>1, <3>1 DEF Listed
  <2>4. NamesUnique'
    <3>1. \A i \in 1..n : entries[i].conn # None => entries[i].server # s
      BY <1>2, <1>4
    <3>2. \A i \in 1..(n + 1) : i \in 1..n \/ i = n + 1
      BY <1>1
    <3>3. slot.server = s
      OBVIOUS
    <3> HIDE DEF s, slot, n
    <3>. QED
      BY <1>1, <2>2, <3>1, <3>2, <3>3 DEF NamesUnique
  <2>5. \A j \in DOMAIN entries' :
               entries'[j].conn = c \/ (j \in DOMAIN entries /\ entries'[j] = entries[j])
    BY <1>1, <2>2
  <2>. QED
    BY <1>1, <2>2, <2>3, <2>4, <2>5
<1>. QED
  BY <1>3, <1>4

LEMMA ConnectedStep ==
  ASSUME IInv, NEW r \in DOMAIN Requesters, Connected(r)
  PROVE  IInv'
<1> USE DEF IInv
<1> DEFINE c == request[r].conn
           place == IF Requesters[r] = "registry" THEN "register" ELSE "next"
           todo == IF Requesters[r] = "registry" THEN AdaptMany(c) ELSE {}
           asked == [request[r] EXCEPT !.pc = place, !.todo = todo]
           new == [conns[c] EXCEPT !.pc = "open", !.session = TRUE, !.raced = closer.pos > 0]
           lost(d) == d \in Listed /\ d \notin Listed'
           other(d) == [conns[d] EXCEPT !.superseded = conns[d].superseded \/ lost(d)]
<1>1. /\ UNCHANGED <<closer, registry, agent>>
      /\ request[r].pc = "connecting" /\ request[r] \in Requests
      /\ c \in Conns /\ conns[c].pc = "opening" /\ conns[c] \in Connections
  BY DEF Connected, Types, OpeningInv
<1>2. /\ Store(c) /\ request' = [request EXCEPT ![r] = asked]
      /\ conns' = [d \in Conns |-> IF d = c THEN new ELSE other(d)]
  BY DEF Connected, Types
<1>3. /\ entries' \in Seq(Slots) /\ Len(entries') \in Nat /\ Len(entries') >= Len(entries)
      /\ NamesUnique'
      /\ c \in Listed'
      /\ \A j \in DOMAIN entries' :
            entries'[j].conn = c \/ (j \in DOMAIN entries /\ entries'[j] = entries[j])
  BY <1>1, <1>2, StoreFacts
<1>4. /\ new \in Connections /\ new.pc = "open" /\ new.approved = conns[c].approved
      /\ closer.pos > 0 => new.raced
  <2>1. (closer.pos > 0) \in BOOLEAN
    OBVIOUS
  <2> DEFINE walked == closer.pos > 0
  <2> HIDE DEF walked
  <2>2. walked \in BOOLEAN
    BY <2>1 DEF walked
  <2>3. [conns[c] EXCEPT !.pc = "open", !.session = TRUE, !.raced = walked] \in Connections
    BY <1>1, <2>2 DEF Connections
  <2>. QED
    BY <1>1, <2>3 DEF Connections, walked
<1>5. ASSUME NEW d \in Conns
      PROVE  /\ other(d) \in Connections /\ other(d).pc = conns[d].pc
             /\ other(d).session = conns[d].session /\ other(d).approved = conns[d].approved
             /\ other(d).raced = conns[d].raced
             /\ conns[d].superseded \/ lost(d) => other(d).superseded
  <2>1. conns[d] \in Connections
    BY DEF Types
  <2>. QED
    BY <2>1 DEF Connections
<1>6. todo \in SUBSET Tools
  BY <1>1, ServersAssumption DEF AdaptMany, Connections
<1>7. asked \in Requests /\ asked.pc = place /\ asked.conn = c /\ asked.approved = request[r].approved
  BY <1>1, <1>6 DEF Requests
<1>8. /\ conns' \in [Conns -> Connections] /\ conns'[c] = new
      /\ \A d \in Conns \ {c} : conns'[d] = other(d)
      /\ request'[r] = asked /\ \A p \in DOMAIN Requesters \ {r} : request'[p] = request[p]
      /\ request' \in [DOMAIN Requesters -> Requests]
  BY <1>1, <1>2, <1>4, <1>5, <1>7 DEF Types
<1>9. Types'
  BY <1>1, <1>3, <1>8, EntryFacts DEF Types
<1> HIDE DEF asked, new, other
<1>10. OpeningInv'
  BY <1>1, <1>5, <1>7, <1>8 DEF OpeningInv
<1>11. SessionInv'
  BY <1>4, <1>5, <1>8 DEF SessionInv
<1>12. OpenIsListed'
  <2> SUFFICES ASSUME NEW d \in Conns, conns'[d].pc = "open", d \notin Listed'
               PROVE  conns'[d].raced \/ conns'[d].superseded
    BY DEF OpenIsListed
  <2>1. d # c
    BY <1>3
  <2>. QED
    BY <1>5, <1>8, <2>1 DEF OpenIsListed
<1>13. CloserInv'
  <2> SUFFICES ASSUME closer.pos > 0, NEW j \in DOMAIN entries', j < closer.pos, entries'[j].conn # None
               PROVE  conns'[entries'[j].conn].pc # "open" \/ conns'[entries'[j].conn].raced
    BY <1>1 DEF CloserInv
  <2>1. CASE entries'[j].conn = c
    BY <1>4, <1>8, <2>1
  <2>2. CASE entries'[j].conn # c
    <3>1. j \in DOMAIN entries /\ entries'[j] = entries[j] /\ entries[j].conn \in Conns
      BY <1>3, <2>2, EntryFacts DEF Slots
    <3>. QED
      BY <1>5, <1>8, <2>2, <3>1 DEF CloserInv
  <2>. QED
    BY <2>1, <2>2
<1>14. ApprovalInv'
  <2>1. Requesters[r] = "registry" => request[r].approved /\ conns[c].approved
    BY <1>1 DEF ApprovalInv
  <2>2. \A d \in Conns : conns'[d].approved = conns[d].approved
    BY <1>4, <1>5, <1>8
  <2>3. \A d \in Conns : conns'[d].pc = "unused" => conns[d].pc = "unused"
    BY <1>4, <1>5, <1>8
  <2>. QED
    BY <1>1, <1>7, <1>8, <2>1, <2>2, <2>3 DEF ApprovalInv, OpeningInv
<1>15. HeldInv' /\ AgentInv'
  BY <1>1, <1>4, <1>5, <1>8 DEF HeldInv, Approved, AgentInv
<1>. QED
  BY <1>3, <1>9, <1>10, <1>11, <1>12, <1>13, <1>14, <1>15

-----------------------------------------------------------------------------
LEMMA NextIInv == IInv /\ [Next]_vars => IInv'
<1> SUFFICES ASSUME IInv, [Next]_vars PROVE IInv'
  OBVIOUS
<1>1. DOMAIN request = DOMAIN Requesters
  BY DEF IInv, Types
<1>2. ASSUME NEW r \in DOMAIN Requesters,
             \/ \E t \in Tools : Ask(r, t)
             \/ Gate(r) \/ Search(r) \/ TryServer(r) \/ Connected(r) \/ ConnectFails(r)
             \/ RegisterFound(r) \/ CheckFound(r) \/ GiveUp(r)
      PROVE  IInv'
  BY <1>2, RequestSteps, TryServerStep, ConnectedStep, ConnectFailsStep, RegisterFoundStep
<1>3. ASSUME NEW s \in Servers, Disconnect(s) PROVE IInv'
  BY <1>3, DisconnectStep
<1>4. ASSUME NEW c \in Conns, Closed(c) PROVE IInv'
  BY <1>4, ClosedStep
<1>5. CASE DisconnectAll \/ CloserStep
  BY <1>5, DisconnectAllStep, CloserStepStep
<1>6. CASE \/ \E t \in Tools : Remove(t)
           \/ \E t \in AgentTools : AddTool(t)
           \/ \E G \in SUBSET AgentTools : Spawn(G)
           \/ StartRun
  BY <1>6, HoldingSteps
<1>7. CASE UNCHANGED vars
  <2>1. UNCHANGED <<conns, entries, closer, registry, request, agent>>
    BY <1>7 DEF vars
  <2>. QED
    BY <2>1 DEF IInv, Types, NamesUnique, OpeningInv, SessionInv, CloserInv, ApprovalInv, AgentInv,
       HeldInv, Approved, OpenIsListed, Listed
<1>. QED
  BY <1>1, <1>2, <1>3, <1>4, <1>5, <1>6, <1>7 DEF Next

LEMMA AlwaysIInv == Spec => []IInv
  BY InitIInv, NextIInv, PTL DEF Spec

(* A name has one entry at a time, disconnect_all stays within the entries *)
(* it walks, and a cached agent has the tools its agent has.               *)
THEOREM StateIsConsistent == Spec => []Consistent
<1>1. IInv => Consistent
  BY IInvTypeOK DEF IInv, AgentInv, Consistent
<1>. QED
  BY <1>1, AlwaysIInv, PTL

(* An open connection is one the manager can close, unless its name was    *)
(* taken again or disconnect_all was running when it was made.             *)
THEOREM NoConnectionIsLost == Spec => []OpenIsListed
<1>1. IInv => OpenIsListed
  BY DEF IInv
<1>. QED
  BY <1>1, AlwaysIInv, PTL

(* A tool that outlived its connection refuses to serve. *)
THEOREM StaleToolsRefuse == Spec => []StaleIsRefused
<1>1. IInv => StaleIsRefused
  BY DEF IInv, SessionInv, StaleIsRefused, Serves, Held
<1>. QED
  BY <1>1, AlwaysIInv, PTL

(* Whatever the registry, the agent or a cached agent holds of a server    *)
(* goes back to an approved request, in every order of discoveries,        *)
(* removals and runs.                                                      *)
THEOREM HeldIsApproved == Spec => []OnlyApproved
<1>1. IInv => OnlyApproved
  BY DEF IInv, HeldInv, Approved, OnlyApproved, Held
<1>. QED
  BY <1>1, AlwaysIInv, PTL
=============================================================================
