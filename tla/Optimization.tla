----------------------------- MODULE Optimization -----------------------------
(***************************************************************************)
(* The two optimizers of orqest/optimization and what happens to their     *)
(* results.  MetaAgentSearch designs topologies generation by generation   *)
(* (design, reflexion, evaluation with debug retries) into an archive.     *)
(* OptimizationRunner hands an adapter to GEPA (external), whose evaluate  *)
(* emits an event per iteration from inside a blocked event loop; the      *)
(* histories of all runs on a bus are collected when the loop is free      *)
(* again.  apply_result writes the winner onto an agent whose inner model  *)
(* agent is cached.                                                        *)
(***************************************************************************)
EXTENDS Fitness

CONSTANTS
    Examples,      \* the validation set
    Outcomes,      \* bundles the evaluation of one trial may give
    Strategies,    \* archive_strategy
    ArchiveSize, Generations, ReflexionPasses, DebugMax, MinibatchSize,
    Genome,        \* gene name -> gene
    Candidates,    \* what GEPA may propose: gene name -> text
    Trials,        \* n_trials_per_example
    MaxMetricCalls,\* max_metric_calls
    MaxRuns        \* bound: calls of optimize on one bus

(* What MetaAgentConfig insists on. *)
ValidConfig ==
    /\ {Generations, ArchiveSize, MinibatchSize} \subseteq Nat \ {0}
    /\ {ReflexionPasses, DebugMax} \subseteq Nat
    /\ Strategies \subseteq {"top_k", "cumulative", "parallel"}

(* What the genes insist on. *)
ValidGene(g) ==
    /\ g.kind = "scalar" => /\ {g.low, g.initial, g.high} \subseteq Int
                            /\ g.low < g.high
                            /\ g.low <= g.initial /\ g.initial <= g.high
                            /\ g.quantize = None \/ g.quantize \in Nat \ {0}
    /\ g.kind = "categorical" => g.initial \in g.choices /\ Cardinality(g.choices) >= 2

(* A minibatch is no longer than the validation set. *)
BatchSize == IF Cardinality(Examples) <= MinibatchSize THEN Cardinality(Examples) ELSE MinibatchSize

ASSUME ConfigAssumption == ValidConfig
ASSUME ExamplesAssumption == IsFiniteSet(Examples) /\ Examples # {}
ASSUME BatchesAssumption == Scale % Cardinality(Examples) = 0 /\ Scale % BatchSize = 0
ASSUME OutcomesAssumption == Outcomes \subseteq MetricBundle /\ Trials \in Nat \ {0}
ASSUME GenomeAssumption == \A n \in DOMAIN Genome : ValidGene(Genome[n])
ASSUME CandidatesAssumption ==
    \A c \in Candidates : \A n \in DOMAIN Genome :
        Genome[n].kind = "scalar" => c[n] \in Int \cup {None, Malformed}
ASSUME BoundsAssumption == MaxMetricCalls \in Nat /\ MaxRuns \in Nat

VARIABLES
    \* MetaAgentSearch.run
    strategy, stage, generation, passes, retries, calls, archive, view, skipped,
    \* OptimizationRunner.optimize
    running, run, iteration, decoded, bundle, best, pending, collectors, history,
    \* the target of apply_result
    attributes, built

search == <<strategy, stage, generation, passes, retries, calls, archive, view, skipped>>
gepa == <<running, run, iteration, decoded, bundle, best, pending, collectors, history>>
target == <<attributes, built>>
vars == <<search, gepa, target>>

Runs == 1..MaxRuns
Iterations == Runs \X (1..MaxMetricCalls)

ArchiveEntry == [generation : -1..(Generations - 1), bundles : Seq(MetricBundle),
                 score : Int, parent : Nat, shown : SUBSET Nat]

TypeOK ==
    /\ strategy \in Strategies
    /\ stage \in {"idle", "seed", "design", "reflexion", "evaluate", "debug", "result"}
    /\ generation \in 0..Generations /\ passes \in 0..ReflexionPasses /\ retries \in 0..DebugMax
    /\ calls \in 0..(1 + ReflexionPasses + DebugMax)
    /\ \A i \in DOMAIN archive : archive[i] \in ArchiveEntry
    /\ running \in BOOLEAN /\ run \in 0..MaxRuns /\ iteration \in 0..MaxMetricCalls
    /\ \A n \in DOMAIN Genome : Legal(Genome[n], decoded[n])
    /\ bundle \in MetricBundle \cup {None}
    /\ pending \subseteq Iterations /\ collectors \subseteq Runs
    /\ history \in [Runs -> SUBSET Iterations]

Initials == [n \in DOMAIN Genome |-> Genome[n].initial]

Init ==
    /\ strategy \in Strategies
    /\ stage = "idle" /\ generation = 0 /\ passes = 0 /\ retries = 0 /\ calls = 0
    /\ archive = <<>> /\ view = {} /\ skipped = 0
    /\ running = FALSE /\ run = 0 /\ iteration = 0
    /\ decoded = Initials /\ bundle = None /\ best = None
    /\ pending = {} /\ collectors = {} /\ history = [r \in Runs |-> {}]
    /\ attributes = [n \in DOMAIN Genome |-> None] /\ built = None

-----------------------------------------------------------------------------
(* Bound: a behaviour has one search or some GEPA runs.  They share no     *)
(* state, and a search does not move while GEPA blocks the event loop.     *)
Search ==
    /\ stage = "idle" /\ run = 0
    /\ stage' = "seed"
    /\ UNCHANGED <<strategy, generation, passes, retries, calls, archive, view, skipped, gepa, target>>

Entry(g, s, parent) ==
    [generation |-> g, bundles |-> s, score |-> MeanScore(s), parent |-> parent, shown |-> view]

(* The topology evaluator reports neither confidence nor cost. *)
TopologyOutcomes == {[b EXCEPT !.confidence = None, !.cost_usd = 0] : b \in Outcomes}

(* Archive.add: entries are never dropped. *)
Add(entry) == archive' = Append(archive, entry)

(* The seed is evaluated on the whole validation set. *)
SeedEvaluated ==
    /\ stage = "seed"
    /\ \E s \in [1..Cardinality(Examples) -> TopologyOutcomes] : Add(Entry(-1, s, 0))
    /\ stage' = "design"
    /\ UNCHANGED <<strategy, generation, passes, retries, calls, view, skipped, gepa, target>>

(* The generation is over: archived or skipped. *)
NextGeneration ==
    /\ generation' = generation + 1
    /\ passes' = 0 /\ retries' = 0 /\ calls' = 0 /\ view' = {}
    /\ stage' = IF generation + 1 = Generations THEN "result" ELSE "design"
    /\ UNCHANGED <<strategy, gepa, target>>

Skip == NextGeneration /\ skipped' = skipped + 1 /\ UNCHANGED archive

Proceed(s) ==
    /\ stage' = s
    /\ calls' = calls + 1
    /\ UNCHANGED <<strategy, generation, archive, skipped, gepa, target>>

(* The prompt of a design: what the strategy shows of the archive. *)
BuildDesignPrompt == view' = View(archive, strategy, ArchiveSize)

(* The meta agent designs from the view, or fails and the generation is    *)
(* skipped.                                                                *)
DesignStep ==
    /\ stage = "design"
    /\ \/ /\ Proceed(IF ReflexionPasses = 0 THEN "evaluate" ELSE "reflexion")
          /\ BuildDesignPrompt
          /\ UNCHANGED <<passes, retries>>
       \/ Skip

(* The meta agent revises its design, which need not change it. *)
Revised ==
    /\ passes' = passes + 1
    /\ Proceed(IF passes + 1 = ReflexionPasses THEN "evaluate" ELSE "reflexion")

(* A reflexion that fails leaves the last design and the further passes.   *)
ReflexionStep ==
    /\ stage = "reflexion"
    /\ \/ Revised
       \/ Proceed("evaluate") /\ UNCHANGED passes
    /\ UNCHANGED <<view, retries>>

AllErrored(s) == \A i \in DOMAIN s : s[i].error

(* Mutant of Evaluate: a design whose last example ran is enough. *)
EvaluateLast ==
    /\ stage = "evaluate"
    /\ \E s \in [1..BatchSize -> TopologyOutcomes] :
          /\ Add(Entry(generation, s, BestIdx(archive)))
          /\ NextGeneration
    /\ UNCHANGED skipped

(* On a minibatch.  When every example errs the design is debugged, up to  *)
(* debug_max times; else it is archived, with the best entry as parent.    *)
Evaluate ==
    /\ stage = "evaluate"
    /\ \E s \in [1..BatchSize -> TopologyOutcomes] :
          IF ~AllErrored(s)
          THEN /\ Add(Entry(generation, s, BestIdx(archive)))
               /\ NextGeneration
               /\ UNCHANGED skipped
          ELSE IF retries >= DebugMax THEN Skip
          ELSE /\ stage' = "debug"
               /\ UNCHANGED <<strategy, generation, passes, retries, calls, archive, view, skipped, gepa, target>>

Repaired == retries' = retries + 1 /\ Proceed("evaluate")

DebugRetryStep ==
    /\ stage = "debug"
    /\ \/ Repaired /\ UNCHANGED <<passes, view>>
       \/ Skip

-----------------------------------------------------------------------------
(* A bridge from GEPA's synchronous calls to the loop: while the runner    *)
(* waits for a worker thread, the loop runs nothing else.                  *)
LoopIsFree == ~running

(* The collector of a run stays subscribed for good. *)
WireHistoryCollector(r) == collectors' = collectors \cup {r}

(* optimize subscribes its collector, for good, and blocks the event loop  *)
(* until GEPA returns.  Bound: no search is under way or over (see Search). *)
Optimize ==
    /\ stage = "idle"
    /\ LoopIsFree /\ run < MaxRuns
    /\ running' = TRUE /\ run' = run + 1 /\ iteration' = 0
    /\ WireHistoryCollector(run + 1)
    /\ best' = None
    /\ UNCHANGED <<search, decoded, bundle, pending, history, target>>

(* A batch of one example, in trials that never raise. *)
EvaluateBatch == \E trials \in [1..Trials -> Outcomes] : bundle' = EvaluateOne(trials)

(* The event of an iteration is a task of the loop. *)
EmitIterationSummary == pending' = pending \cup {<<run, iteration + 1>>}

(* GEPA has the adapter evaluate a candidate: the examples run on a worker *)
(* thread, and the event is a task of the loop that is blocked.            *)
EvaluateCandidate ==
    /\ running /\ iteration < MaxMetricCalls
    /\ \E c \in Candidates : decoded' = Decode(Genome, c)
    /\ EvaluateBatch
    /\ iteration' = iteration + 1
    /\ EmitIterationSummary
    /\ UNCHANGED <<search, running, run, best, collectors, history, target>>

(* GEPA returns, the candidate it prefers being the seed or the last one,  *)
(* or it raises.                                                           *)
GepaReturns ==
    /\ running
    /\ running' = FALSE
    /\ best' \in {None, Initials, decoded}
    /\ UNCHANGED <<search, run, iteration, decoded, bundle, pending, collectors, history, target>>

(* Mutant of Deliver: only the latest collector hears of an event. *)
DeliverToLatest ==
    /\ LoopIsFree
    /\ \E e \in pending :
          /\ pending' = pending \ {e}
          /\ history' = [history EXCEPT ![run] = @ \cup {e}]
    /\ UNCHANGED <<search, running, run, iteration, decoded, bundle, best, collectors, target>>

(* The loop is free: an event reaches every collector there is by now.     *)
Deliver ==
    /\ LoopIsFree
    /\ \E e \in pending :
          /\ pending' = pending \ {e}
          /\ history' = [r \in Runs |-> IF r \in collectors THEN history[r] \cup {e} ELSE history[r]]
    /\ UNCHANGED <<search, running, run, iteration, decoded, bundle, best, collectors, target>>

-----------------------------------------------------------------------------
(* The agent builds its inner agent from its attributes, and keeps it. *)
BuildAgent ==
    /\ built = None
    /\ built' = attributes
    /\ UNCHANGED <<search, gepa, attributes>>

(* Mutant of ApplyResult: the inner agent is kept. *)
ApplyKeepsAgent ==
    /\ LoopIsFree /\ best # None
    /\ attributes' = best
    /\ UNCHANGED <<search, gepa, built>>

(* apply_result without dry_run: what differs is written, and the inner    *)
(* agent is dropped when something was.  A dry run changes nothing.        *)
ApplyResult ==
    /\ LoopIsFree /\ best # None
    /\ attributes' = best
    /\ built' = IF best = attributes THEN built ELSE None
    /\ UNCHANGED <<search, gepa>>

SearchStep == SeedEvaluated \/ DesignStep \/ ReflexionStep \/ Evaluate \/ DebugRetryStep
RunnerStep == EvaluateCandidate \/ GepaReturns

Next ==
    \/ Search \/ SearchStep
    \/ Optimize \/ RunnerStep \/ Deliver
    \/ BuildAgent \/ ApplyResult

Spec == Init /\ [][Next]_vars

(* Agents answer or raise, GEPA ends, and a free loop runs its tasks. *)
FairSpec == Spec /\ WF_vars(SearchStep) /\ WF_vars(GepaReturns) /\ WF_vars(Deliver)

-----------------------------------------------------------------------------
(* The result's winner (best) is chosen by a weighted sum and the front    *)
(* (pareto) by domination, on axes that leave confidence out: whatever was *)
(* archived, the winner is on the front.                                   *)
WinnerOnFront == archive # <<>> => BestIdx(archive) \in ParetoFront(archive)

(* The recorded parent of a design (_find_parent_idx) is an entry its      *)
(* prompt showed (serialize_for_prompt), though ties are broken in two     *)
(* places.  The strategy "parallel" shows none and is left out: there the  *)
(* docstring has no parent, and the code records the best entry.           *)
ParentWasShown ==
    strategy # "parallel" =>
        \A i \in DOMAIN archive : archive[i].parent # 0 => archive[i].parent \in archive[i].shown

(* A design that ran on no example of its minibatch is debugged or skipped *)
(* and never archived: it could win, as failures cost nothing.             *)
BrokenDesignsAreSkipped ==
    /\ \A i \in DOMAIN archive : archive[i].parent # 0 => ~AllErrored(archive[i].bundles)
    /\ stage = "result" => Len(archive) + skipped = 1 + Generations

(* "Critical": the model never runs under a prompt other than the one the  *)
(* agent shows, however often results are applied.                         *)
InnerAgentIsCurrent == built # None => built = attributes

(* The history handed out with a result is empty while the loop was        *)
(* blocked, but every iteration of the run gets into it.                   *)
HistoryArrives ==
    \A e \in Iterations : e \in pending ~> e \in history[e[1]]

(* Over a search, or however optimizations and applications of their       *)
(* results follow each other, the values are of their types, decoded genes *)
(* are legal, and the inner agent is the one its attributes describe.      *)
Consistent == TypeOK /\ InnerAgentIsCurrent
=============================================================================
