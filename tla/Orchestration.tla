---------------------------- MODULE Orchestration ----------------------------
(***************************************************************************)
(* A topology (orqest/orchestration): a tree of agent and function steps   *)
(* under pipelines, parallels, routers and refinement loops.  It is        *)
(* hydrated from its specification against the registries, all or nothing, *)
(* and then run: every composite awaits its children, a parallel runs its  *)
(* branches as tasks and cancels those its timeout leaves behind, and the  *)
(* caller may cancel the run.                                              *)
(*                                                                         *)
(* The nodes of the tree are numbers, the root is 1, a child is larger     *)
(* than its parent.  frame[n] holds the local variables of n's run().      *)
(***************************************************************************)
EXTENDS Optional, Sequences, FiniteSets

CONSTANTS
    Shapes,        \* the specifications: sequences of records
    Registries,    \* sets of registered names
    Values,        \* what a step may return, None apart
    Scores         \* scores of an evaluation

VARIABLES
    spec,          \* the specification
    registered,    \* names in the agent and callable registries
    pc,            \* per node: where its run() is
    frame,         \* per node: its local variables
    asked          \* tasks with a cancellation that was not delivered yet

runVars == <<spec, registered, pc, frame, asked>>

Nodes == DOMAIN spec
Root == 1
Leaf == {"agent", "function"}
Ended == {"ok", "failed", "cancelled"}
Live == {"ready", "waiting", "reaping", "evaluating", "classifying"}
Elems(s) == {s[i] : i \in DOMAIN s}

-----------------------------------------------------------------------------
(* The specifications.  needs: the names of callables a composite refers   *)
(* to besides its children (merge function, conditions, state updater).    *)
StepSpec == [kind : {"agent", "function"}, name : UNION Registries]

PipelineSpec(nodes) == [kind : {"pipeline"}, steps : Seq(nodes), needs : SUBSET UNION Registries,
                        on_error : Seq({"stop", "skip", "retry"}), max_retries : Int]

ParallelSpec(nodes) == [kind : {"parallel"}, steps : Seq(nodes), needs : SUBSET UNION Registries,
                        merge : {"collect_all", "first_wins", "callable"}, timeout : BOOLEAN]

RouterSpec(nodes) == [kind : {"router"}, routes : Seq(nodes), needs : SUBSET UNION Registries,
                      conditions : SUBSET nodes, classifier : Opt(nodes), fallback : Opt(nodes)]

RefinementLoopSpec(nodes) == [kind : {"loop"}, step : nodes, evaluator : nodes,
                              needs : SUBSET UNION Registries, max_iterations : Int,
                              timeout : BOOLEAN, window : Opt(Nat), confidence : Opt(Nat),
                              keep_best : BOOLEAN]

OperationSpec(nodes) ==
    StepSpec \cup PipelineSpec(nodes) \cup ParallelSpec(nodes) \cup RouterSpec(nodes) \cup RefinementLoopSpec(nodes)

(* The operations an operation holds; those among them that decide instead *)
(* of working, which are an agent or a callable; and those that work.      *)
Deciders(op) ==
    CASE op.kind = "router" -> {op.classifier} \ {None}
      [] op.kind = "loop" -> {op.evaluator}
      [] OTHER -> {}

Workers(op) ==
    CASE op.kind \in {"pipeline", "parallel"} -> Elems(op.steps)
      [] op.kind = "router" -> Elems(op.routes) \cup ({op.fallback} \ {None})
      [] op.kind = "loop" -> {op.step}
      [] OTHER -> {}

Parts(op) == Workers(op) \cup Deciders(op)

(* A specification is a tree under a composite, numbered from its root on. *)
TopologySpec(s) ==
    /\ s \in Seq(OperationSpec(DOMAIN s)) /\ s # <<>>
    /\ s[Root].kind \notin Leaf
    /\ \A n \in DOMAIN s : /\ \A k \in Parts(s[n]) : k > n
                           /\ \A k \in Deciders(s[n]) : s[k].kind \in Leaf /\ k \notin Workers(s[n])
                           /\ s[n].kind = "router" => s[n].conditions \subseteq Elems(s[n].routes)
    /\ \A k \in DOMAIN s \ {Root} : \E p \in DOMAIN s : k \in Parts(s[p])
    /\ \A p, q \in DOMAIN s : Parts(s[p]) \cap Parts(s[q]) # {} => p = q

ASSUME ShapesAssumption == \A s \in Shapes : TopologySpec(s)
ASSUME ScoresAssumption == Scores \subseteq Nat

Kind(n) == spec[n].kind
IsLeaf(n) == Kind(n) \in Leaf

(* The children of a node, and the task that runs a node: a branch of a    *)
(* parallel is a task of its own.                                          *)
Kids(n) == Parts(spec[n])

Parent(n) == CHOOSE p \in Nodes : n \in Kids(p)

Task(n) ==
    LET task[m \in Nodes] ==
            IF m = Root \/ Kind(Parent(m)) = "parallel" THEN m ELSE task[Parent(m)]
    IN task[n]

(* Local variables of a run(): steps or iterations done (for a router the  *)
(* node it chose), attempts at a step, the data, the timed-out branches    *)
(* and the history of a loop.                                              *)
Fresh == [at |-> 0, tries |-> 0, data |-> None, late |-> {}, history |-> <<>>]

IterationRecord == [out : Opt(Values), score : Opt(Scores), passed : BOOLEAN]

Frame(nodes) == [at : Nat, tries : Nat, data : Opt(Values), late : SUBSET nodes, history : Seq(IterationRecord)]

RunTypeOK ==
    /\ spec \in Seq(OperationSpec(Nodes))
    /\ pc \in [Nodes -> {"idle", "invalid"} \cup Ended \cup Live]
    /\ frame \in [Nodes -> Frame(Nodes)]
    /\ asked \subseteq Nodes

RunInit ==
    /\ spec \in Shapes
    /\ registered \in Registries
    /\ pc = [n \in Nodes |-> "idle"]
    /\ frame = [n \in Nodes |-> Fresh]
    /\ asked = {}

-----------------------------------------------------------------------------
(* Hydration: every reference of the tree resolves, and the constructors   *)
(* accept their arguments, or KeyError or ValueError is raised and nothing *)
(* runs.                                                                   *)
Registered(names) == names \subseteq registered

StepResolves(n) == Registered({spec[n].name})

(* What the constructors insist on. *)
PipelineBuilds(n) == spec[n].steps # <<>>
ParallelBuilds(n) == spec[n].steps # <<>>
RouterBuilds(n) == spec[n].routes # <<>> /\ (spec[n].classifier # None \/ spec[n].conditions # {})
LoopBuilds(n) == spec[n].max_iterations >= 1

(* What the hydrators look up, the children apart. *)
PipelineFromSpec(n) == Registered(spec[n].needs) /\ PipelineBuilds(n)
ParallelFromSpec(n) == Registered(spec[n].needs) /\ ParallelBuilds(n)
RouterFromSpec(n) == Registered(spec[n].needs) /\ RouterBuilds(n)
LoopFromSpec(n) == Registered(spec[n].needs) /\ LoopBuilds(n)

FromSpec(n) ==
    CASE IsLeaf(n) -> StepResolves(n)
      [] Kind(n) = "pipeline" -> PipelineFromSpec(n)
      [] Kind(n) = "parallel" -> ParallelFromSpec(n)
      [] Kind(n) = "router" -> RouterFromSpec(n)
      [] Kind(n) = "loop" -> LoopFromSpec(n)

Hydrates(n) ==
    LET built[m \in Nodes] == FromSpec(m) /\ \A k \in Kids(m) : built[k]
    IN built[n]

TopologyFromSpec ==
    /\ pc[Root] = "idle"
    /\ pc' = [pc EXCEPT ![Root] = IF Hydrates(Root) THEN "ready" ELSE "invalid"]
    /\ UNCHANGED <<spec, registered, frame, asked>>

(* Mutant of CountAgentSteps: only what stands directly under the root. *)
CountDirectSteps(n) == Cardinality({k \in Kids(n) : Kind(k) = "agent"})

(* _count_agent_steps and _topology_depth: a judge counts for one agent,   *)
(* whatever it is, and not at all for the depth.                           *)
CountAgentSteps(n) ==
    Cardinality({m \in Nodes : Kind(m) = "agent" \/ \E p \in Nodes : m \in Deciders(spec[p])})

Deepest(depths) == CHOOSE d \in depths : \A e \in depths : d >= e

TopologyDepth(n) ==
    LET depth[m \in Nodes] ==
            IF IsLeaf(m) THEN 0 ELSE 1 + Deepest({depth[k] : k \in Workers(spec[m])})
    IN depth[n]

-----------------------------------------------------------------------------
(* n awaits the nodes of S, which begin.  Bound: nothing begins again      *)
(* above a branch it abandoned and that still runs, as the two would share *)
(* their frames.                                                           *)
Await(n, f, s, S) ==
    /\ \A m \in S : \A k \in Kids(m) : pc[k] \notin Live
    /\ pc' = [m \in Nodes |-> IF m = n THEN s ELSE IF m \in S THEN "ready" ELSE pc[m]]
    /\ frame' = [m \in Nodes |-> IF m = n THEN f ELSE IF m \in S THEN Fresh ELSE frame[m]]
    /\ UNCHANGED <<spec, registered, asked>>

Return(n, s, v) ==
    /\ pc' = [pc EXCEPT ![n] = s]
    /\ frame' = [frame EXCEPT ![n].data = v]
    /\ UNCHANGED <<spec, registered>>

(* A step of the caller's own: an agent with a state of its own, or a      *)
(* function.  It answers, raises, or ends with CancelledError; a pending   *)
(* cancellation is delivered to it, and it may answer all the same.        *)
Execute(n) ==
    /\ IsLeaf(n)
    /\ pc[n] = "ready"
    /\ asked' = asked \ {Task(n)}
    /\ \/ \E v \in Opt(Values) : Return(n, "ok", v)
       \/ \E s \in {"failed", "cancelled"} : Return(n, s, None)

-----------------------------------------------------------------------------
PipelineStep(n) == spec[n].steps[frame[n].at + 1]

PipelineStart(n) ==
    /\ Kind(n) = "pipeline"
    /\ pc[n] = "ready"
    /\ Await(n, frame[n], "waiting", {PipelineStep(n)})

(* The step is done or skipped: the next one, or the pipeline returns the  *)
(* data.                                                                   *)
PipelineAdvance(n, data) ==
    LET f == [frame[n] EXCEPT !.at = @ + 1, !.tries = 0, !.data = data]
    IN IF f.at = Len(spec[n].steps)
       THEN Return(n, "ok", data) /\ UNCHANGED asked
       ELSE Await(n, f, "waiting", {spec[n].steps[f.at + 1]})

PipelineStepOk(n) ==
    /\ pc[PipelineStep(n)] = "ok"
    /\ PipelineAdvance(n, frame[PipelineStep(n)].data)

(* Mutant of PipelineStepFailed: the attempts are not counted. *)
PipelineRetriesForever(n) ==
    /\ pc[PipelineStep(n)] = "failed"
    /\ CASE spec[n].on_error[frame[n].at + 1] = "retry" ->
              Await(n, frame[n], "waiting", {PipelineStep(n)})
         [] spec[n].on_error[frame[n].at + 1] = "skip" -> PipelineAdvance(n, frame[n].data)
         [] OTHER -> Return(n, "failed", None) /\ UNCHANGED asked

(* A skipped step leaves the data as they were; a retried one is tried     *)
(* max_retries times more and then stops the pipeline.                     *)
PipelineStepFailed(n) ==
    LET strategy == spec[n].on_error[frame[n].at + 1]
    IN /\ pc[PipelineStep(n)] = "failed"
       /\ CASE strategy = "retry" /\ frame[n].tries < spec[n].max_retries ->
                 Await(n, [frame[n] EXCEPT !.tries = @ + 1], "waiting", {PipelineStep(n)})
            [] strategy = "skip" -> PipelineAdvance(n, frame[n].data)
            [] OTHER -> Return(n, "failed", None) /\ UNCHANGED asked

PipelineNext(n) ==
    /\ Kind(n) = "pipeline"
    /\ pc[n] = "waiting"
    /\ \/ PipelineStepOk(n)
       \/ PipelineStepFailed(n)
       \/ pc[PipelineStep(n)] = "cancelled" /\ Return(n, "cancelled", None) /\ UNCHANGED asked

-----------------------------------------------------------------------------
Branches(n) == Elems(spec[n].steps)

ParallelStart(n) ==
    /\ Kind(n) = "parallel"
    /\ pc[n] = "ready"
    /\ Await(n, frame[n], "waiting", Branches(n))

(* The timeout: the branches that are not done are cancelled, and then     *)
(* awaited without a bound.                                                *)
ParallelTimeout(n) ==
    LET pending == {b \in Branches(n) : pc[b] \notin Ended}
    IN /\ Kind(n) = "parallel" /\ spec[n].timeout
       /\ pc[n] = "waiting"
       /\ pending # {}
       /\ pc' = [pc EXCEPT ![n] = "reaping"]
       /\ frame' = [frame EXCEPT ![n].late = pending]
       /\ asked' = asked \cup pending
       /\ UNCHANGED <<spec, registered>>

(* The outputs the merge sees: None and timed-out branches are left out,   *)
(* whatever a timed-out branch returned after all.                         *)
Successful(n) ==
    {i \in DOMAIN spec[n].steps :
        LET b == spec[n].steps[i]
        IN pc[b] = "ok" /\ b \notin frame[n].late /\ frame[b].data # None}

FirstWins(n) ==
    IF Successful(n) = {} THEN None
    ELSE LET i == CHOOSE i \in Successful(n) : \A j \in Successful(n) : i <= j
         IN frame[spec[n].steps[i]].data

(* Mutant of Collected: only the branches that were cancelled are awaited. *)
CollectedEarly(n) ==
    \/ pc[n] = "waiting" /\ \A b \in Branches(n) : pc[b] \in Ended
    \/ pc[n] = "reaping"

Collected(n) ==
    \/ pc[n] = "waiting" /\ \A b \in Branches(n) : pc[b] \in Ended
    \/ pc[n] = "reaping" /\ \A b \in frame[n].late : pc[b] \in Ended

(* Exceptions are recorded; but a branch that ended with CancelledError of *)
(* its own makes run() raise it.  A merge function of the caller may raise.*)
ParallelReturn(n) ==
    /\ Kind(n) = "parallel"
    /\ Collected(n)
    /\ UNCHANGED asked
    /\ IF \E b \in Branches(n) \ frame[n].late : pc[b] = "cancelled"
       THEN Return(n, "cancelled", None)
       ELSE CASE spec[n].merge = "collect_all" -> \E v \in Values : Return(n, "ok", v)
              [] spec[n].merge = "first_wins" ->
                   Return(n, "ok", FirstWins(n))
              [] OTHER -> \/ \E v \in Opt(Values) : Return(n, "ok", v)
                          \/ Return(n, "failed", None)

(* CancelledError out of asyncio.wait: the branches go on by themselves. *)
ParallelCancelled(n) ==
    /\ Kind(n) = "parallel"
    /\ pc[n] \in {"waiting", "reaping"}
    /\ Task(n) \in asked
    /\ asked' = asked \ {Task(n)}
    /\ Return(n, "cancelled", None)

-----------------------------------------------------------------------------
(* The route of that node, or the fallback, or RouterError. *)
Dispatch(n, r) ==
    LET target == IF r # None THEN r ELSE spec[n].fallback
    IN IF target = None THEN Return(n, "failed", None) /\ UNCHANGED asked
       ELSE Await(n, [frame[n] EXCEPT !.at = target], "waiting", {target})

(* A condition that raises leaves run(). *)
RouterStart(n) ==
    /\ Kind(n) = "router"
    /\ pc[n] = "ready"
    /\ IF spec[n].classifier # None
       THEN Await(n, frame[n], "classifying", {spec[n].classifier})
       ELSE \/ \E r \in Opt(spec[n].conditions) : Dispatch(n, r)
            \/ Return(n, "failed", None) /\ UNCHANGED asked

(* The classifier names a route, or something that is none. *)
RouterClassified(n) ==
    /\ Kind(n) = "router"
    /\ pc[n] = "classifying"
    /\ \/ /\ pc[spec[n].classifier] = "ok"
          /\ \E r \in Opt(Elems(spec[n].routes)) : Dispatch(n, r)
       \/ /\ pc[spec[n].classifier] \in {"failed", "cancelled"}
          /\ Return(n, pc[spec[n].classifier], None)
          /\ UNCHANGED asked

RouterReturn(n) ==
    /\ Kind(n) = "router"
    /\ pc[n] = "waiting"
    /\ pc[frame[n].at] \in Ended
    /\ Return(n, pc[frame[n].at], frame[frame[n].at].data)
    /\ UNCHANGED asked

-----------------------------------------------------------------------------
(* The first iteration with the highest score; 0 when none has a score. *)
BestIteration(h) ==
    LET scored == {i \in DOMAIN h : h[i].score # None}
        best == {i \in scored : \A j \in scored : h[i].score >= h[j].score}
    IN IF scored = {} THEN 0 ELSE CHOOSE i \in best : \A j \in best : i <= j

(* Mutant of ResolveKeptOutput: an unscored last iteration is preferred. *)
KeepUnscored(n, h) ==
    LET b == BestIteration(h)
        latest == h[Len(h)]
    IN IF h = <<>> THEN None
       ELSE IF ~spec[n].keep_best \/ b = 0 \/ latest.score = None THEN latest.out
       ELSE IF latest.score < h[b].score THEN h[b].out ELSE latest.out

(* The best output, unless the latest is as good; an output None counts as *)
(* no best at all.                                                         *)
ResolveKeptOutput(n, h) ==
    LET b == BestIteration(h)
        latest == h[Len(h)]
    IN IF h = <<>> THEN None
       ELSE IF ~spec[n].keep_best \/ b = 0 \/ h[b].out = None THEN latest.out
       ELSE IF latest.score = None \/ latest.score < h[b].score THEN h[b].out
       ELSE latest.out

(* The last scores lie within the threshold, here: they are equal. *)
CheckConvergence(n, h) ==
    LET scores == SelectSeq([i \in DOMAIN h |-> h[i].score], LAMBDA s : s # None)
        w == spec[n].window
    IN /\ w # None
       /\ Len(scores) >= w
       /\ \A i, j \in (Len(scores) - w + 1)..Len(scores) : scores[i] = scores[j]

(* Head of the loop: no iteration is left, the timeout is noticed, or the  *)
(* step runs.                                                              *)
LoopHead(n) ==
    /\ Kind(n) = "loop"
    /\ pc[n] = "ready"
    /\ \/ /\ frame[n].at = spec[n].max_iterations \/ spec[n].timeout
          /\ Return(n, "ok", ResolveKeptOutput(n, frame[n].history))
          /\ UNCHANGED asked
       \/ /\ frame[n].at < spec[n].max_iterations
          /\ Await(n, frame[n], "waiting", {spec[n].step})

LoopEvaluate(n) ==
    /\ Kind(n) = "loop"
    /\ pc[n] = "waiting"
    /\ \/ /\ pc[spec[n].step] = "ok"
          /\ Await(n, [frame[n] EXCEPT !.data = frame[spec[n].step].data], "evaluating",
                   {spec[n].evaluator})
       \/ /\ pc[spec[n].step] \in {"failed", "cancelled"}
          /\ Return(n, pc[spec[n].step], None)
          /\ UNCHANGED asked

(* The loop returns with the history h. *)
LoopReturn(n, h, v) ==
    /\ pc' = [pc EXCEPT ![n] = "ok"]
    /\ frame' = [frame EXCEPT ![n].data = v, ![n].history = h]
    /\ UNCHANGED <<spec, registered, asked>>

(* An evaluation: passed and confident exits return the output at hand, a  *)
(* converged one the output to keep; otherwise the state updater, which    *)
(* may raise, prepares the next iteration.                                 *)
LoopJudge(n, e) ==
    LET h == Append(frame[n].history, [out |-> frame[n].data, score |-> e.score, passed |-> e.passed])
        sure == spec[n].confidence # None /\ e.score # None /\ e.score >= spec[n].confidence
    IN IF e.passed \/ sure THEN LoopReturn(n, h, frame[n].data)
       ELSE IF CheckConvergence(n, h) THEN LoopReturn(n, h, ResolveKeptOutput(n, h))
       ELSE \/ Await(n, [frame[n] EXCEPT !.at = @ + 1, !.history = h], "ready", {})
            \/ Return(n, "failed", None) /\ UNCHANGED asked

LoopEvaluated(n) ==
    /\ Kind(n) = "loop"
    /\ pc[n] = "evaluating"
    /\ \/ /\ pc[spec[n].evaluator] = "ok"
          /\ \E e \in [passed : BOOLEAN, score : Opt(Scores)] : LoopJudge(n, e)
       \/ /\ pc[spec[n].evaluator] \in {"failed", "cancelled"}
          /\ Return(n, pc[spec[n].evaluator], None)
          /\ UNCHANGED asked

-----------------------------------------------------------------------------
(* The task that awaits the topology is cancelled. *)
Cancel ==
    /\ pc[Root] \in Live
    /\ Root \notin asked
    /\ asked' = asked \cup {Root}
    /\ UNCHANGED <<spec, registered, pc, frame>>

StepOf(n) ==
    \/ Execute(n)
    \/ PipelineStart(n) \/ PipelineNext(n)
    \/ ParallelStart(n) \/ ParallelReturn(n) \/ ParallelCancelled(n)
    \/ RouterStart(n) \/ RouterClassified(n) \/ RouterReturn(n)
    \/ LoopHead(n) \/ LoopEvaluate(n) \/ LoopEvaluated(n)

RunNext ==
    \/ TopologyFromSpec
    \/ Cancel
    \/ \E n \in Nodes : StepOf(n) \/ ParallelTimeout(n)

RunSpec == RunInit /\ [][RunNext]_runVars

(* Steps answer or raise; no timeout is relied on. *)
RunFairSpec == RunSpec /\ WF_runVars(\E n \in Nodes : StepOf(n))

-----------------------------------------------------------------------------
(* Hydration is all or nothing (topology_from_spec): when any step runs,   *)
(* every reference of the whole tree, a fallback never taken included, has *)
(* been resolved.                                                          *)
NothingRunsUnresolved ==
    (\E n \in Nodes \ {Root} : pc[n] # "idle") =>
        \A n \in Nodes : IF IsLeaf(n) THEN StepResolves(n) ELSE Registered(spec[n].needs)

(* Structured concurrency: a step runs only while its composite awaits it, *)
(* and a parallel that returned, even after a timeout, has left no branch  *)
(* running.  The exception is in parallel.py's run(): a parallel that is   *)
(* itself cancelled abandons its branches.                                 *)
NoStrayBranches ==
    \A n \in Nodes \ {Root} : pc[n] \in Live =>
        \/ pc[Parent(n)] \in Live
        \/ Kind(Parent(n)) = "parallel" /\ pc[Parent(n)] = "cancelled"

(* keep_best: a loop that did not pass never returns an output that scored *)
(* less than another one (the best-scored output None apart, which the     *)
(* code takes for "no best").                                              *)
KeepsBest ==
    \A n \in Nodes :
        LET h == frame[n].history
            b == BestIteration(h)
        IN (Kind(n) = "loop" /\ pc[n] = "ok" /\ spec[n].keep_best /\ h # <<>>
            /\ ~h[Len(h)].passed /\ b # 0 /\ h[b].out # None) =>
               \E i \in DOMAIN h : h[i].out = frame[n].data /\ h[i].score = h[b].score

(* The ceilings the optimizer is given for cost and latency (n_agents,     *)
(* depth): no run of the topology employs more agents than were counted,   *)
(* nor awaits through more levels of composites.                           *)
WithinCeilings ==
    /\ Cardinality({n \in Nodes : Kind(n) = "agent" /\ pc[n] # "idle"}) <= CountAgentSteps(Root)
    /\ LET level[n \in Nodes] == IF n = Root THEN 1 ELSE 1 + level[Parent(n)]
       IN \A n \in Nodes : ~IsLeaf(n) /\ pc[n] \in Live => level[n] <= TopologyDepth(Root)

(* Every run ends: retries and iterations are bounded and a parallel       *)
(* gathers all its branches, timeout or not.                               *)
RunEnds == pc[Root] \in Live ~> pc[Root] \in Ended

(* Values are of their types, nothing runs that was not resolved, and no   *)
(* run goes beyond the ceilings.                                           *)
RunsWhatWasChecked == RunTypeOK /\ NothingRunsUnresolved /\ WithinCeilings
=============================================================================
