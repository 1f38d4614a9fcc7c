# A verification project for Orqest

Orqest is a Python library (`orqest/`) for building agents: calls to language
models wrapped in hooks, retries, watchdogs, memory, sandboxes and planners.
Almost all of it runs on one asyncio event loop, so two pieces of code
interleave exactly at the `await`s. What is hard about it is therefore not
parallelism but state that is read before an `await` and used after it, state
shared between components that each look correct alone, decisions of callbacks
that arrive in every combination, and state that must be rebuilt after a
restart. The modules here model those parts, TLC checks them on small
instances, and TLAPS proves the safety results of ten components for
every instance.

## Inventory

The parts of the system, the state each keeps, and what makes it correct.
`PROJECT.json` gives the source files of all of them and says which are modelled
wholly and which partly; the last two lines are not modelled.

| part | state | operations | what is hard | what must hold |
|---|---|---|---|---|
| model fallback chain (`healing/fallback.py`) | one index into the list of models, shared by all callers | `request`, `request_stream`, bus emissions | calls in flight store their own next index after an await; streams fail after they were handed out; cancellation | nothing is passed over that did not fail; a call tries its own range; the index is sticky |
| in-container tool runtime (`sandbox/docker_runtime/server.py`, `store.py`) | SQLite rows (durable); registry, success counters, hash set (in memory) | execute, promote (by count, explicit), forget, run a promoted tool, boot | restarts; a cache of the table; runners that hold an old version across an await; a store that fails half-way | memory agrees with the table; history can be audited; promotion is new and earned |
| healing (`healing/stall.py`, `loop.py`, `recovery.py`, `runner.py`, `observability/event_bus_hook.py`) | open calls and suppressed reports; a sliding window and a cached detection; the poll task | tool events, `signal`, the hook's policy, `start`, `stop` | flows share one bus; ends carry no call id; two consumers of one detection | stalls are found, soundly and once; loops are broken |
| event bus, workbench buffer, SSE streams (`observability/events.py`, `sse_sidecar.py`, `workbench/workbench.py`) | handler lists, ring buffer, a bounded queue per stream | `emit`, subscribe, replay, pull, close, `reset` | emissions of several tasks interleave; a task is cancelled inside one; streams come and go during one; slow consumers | order per producer, drop oldest, no duplicates, no gap but what was cancelled, no blocking |
| execution plan (`plan/execution_plan.py`) | statuses of tasks and subtasks | status updates and whole plans, each with one or two events | emission after mutation, two channels, concurrent and cancelled updates | a copy made from the events follows the plan |
| hooks, compound tool, retry (`hooks.py`, `agents/compound_tool.py`, `agents/retry.py`) | where one call is, the decision so far, the attempt | before / after / error hooks, executor, re-execution, `state_updater` | every combination of skip, redirect, abort, failure; a wrapper with hooks of its own | bounded executions, no state update without a result, an abort halts |
| agents and history (`agents/base_agent.py`, `context_manager.py`) | `message_history`, shared by all agents of a state | call, stream, compaction, trimming, repair, save and load | turns overlap over one history; each round of compaction cuts what earlier rounds left | what is sent is accepted by a provider; the history reads as one conversation |
| metacognition, sub-agent tool (`metacognition/`, `compound/sub_agent_tool.py`) | per call: result, confidence, iterations | `run_enriched`, the tool with executor, updater, evaluator, refinement | a refinement fails after it changed the state; samples run over the same state | result, state, exit reason and confidence belong together |
| meta orchestrator (`autonomy/meta.py`) | per goal: plan, results, re-decompositions; shared: the agent cache | `solve` with planner, memory, factory, hooks | the plan is rewritten while it is walked; goals race for one name; an exception of a hook | one result per subtask in order, bounded plans and retries, agents reused |
| memory (`memory/local.py`, `strategies.py`) | a SQLite file with a full text index; one lazily opened connection and its transaction, shared by all tasks | store, recall, reliability feedback, forget, prune, close | two first uses open two connections; statements of several operations mix in one transaction; read - embed - insert; index and table are paired by row ids | a store that returned after its commit is durable; versions name one row; decayed entries go; search finds what is there |
| orchestration (`orchestration/`) | per run: a frame per composite | hydrate, pipeline, parallel, router, refinement loop | timeouts against late results, cancellation, references that do not resolve | all or nothing hydration; no stray branch; the best result is returned; runs end |
| topology design (`autonomy/runtime.py`, `topology_orchestrator.py`) | a spec cache, hit statistics | look up, design, store, run, feed back | a spec is stored before it has run; late feedback meets a newer spec; shared counters | a failing spec is not served for ever; the reported hit is the one that happened |
| registry, factories, MCP (`autonomy/registry.py`, `factory.py`, `tool_factory.py`, `mcp/`) | tools by name, connections by name, an agent's tools and those of its cached inner agent | discover behind a gate, connect, disconnect, adapt, add a tool | connect and `disconnect_all` race; tools outlive connections | no connection is lost; no dead tool is served; nothing unapproved is registered |
| sandboxes (`sandbox/`) | container handle, port, token; venvs, their locks | enter, exit, execute, install, run; static checks | failure between two steps of a start; ports that are reused; two calls of one agent | no leaked container; code runs in its own session, with its own packages |
| optimization (`optimization/`) | an archive of designs; GEPA runs and their event history; the agent a result is applied to | design, reflect, evaluate, debug; optimize; apply | half-failed evaluations; a blocked event loop; a cached inner agent | broken designs do not win; the history arrives; the model runs what the agent shows |
| regression watchdog, healing configuration, tracing | - | - | - | - |
| generative UI, skills, web tools, utilities, configuration | - | - | - | - |

How they interact: an agent's tool call goes through the hooks of
`HookRunner`; one of these is `EventBusPublishHook`, which turns it into
`tool.before`, `tool.after` and `tool.error` events on the bus; the watchdogs
subscribe to these, and their detections come back as decisions of
`WatchdogHook`, another hook of the same call. The workbench records every
event, execution plans among them, and SSE streams replay and follow them. The
meta orchestrator runs agents between hooks of the same kind; the topology
orchestrator has specifications designed, hydrates them from the registries and
runs them; the optimizers search for such specifications and for prompts.

## Modules

How they are composed: `PlanStream` extends `EventStream`; `AgentRun` extends
`History` and instantiates `ToolCall`; `Optimization` extends `Fitness`;
`MetaOrchestrator` instantiates and implements `GoalExecution`; `Healing`
contains the watchdogs, the hook, the runner and the publisher. Each `MC_`
module only gives the constants that a configuration cannot write down.

**FallbackModel.** `idx` is `self._idx`; `pc`, `kind`, `cur` and `yielded` are
the program counter and locals of a call. `Enter` evaluates the range,
`Answer`, `OpenStream`, `CloseStream`, `FailTransient` and `FailFatal` are the
outcomes of the awaited call and of the consumer's block, `Advance` is the
store of `i + 1` after the emission, `Exhaust` the final `RuntimeError`,
`CancelCall` a cancellation at any await. `tried`, `failed`, `start` and
`overlapped` are history.

**ToolRuntime.** `rows` is the table and survives `Stop`; `registry`,
`persisted` and `counts` are the server's memory and are rebuilt by `Boot`. The
handlers suspend only inside `executor.execute`, so the code behind it
(`ExecuteSucceeds` with `Count` and `Promote`, `FinishRun` with
`record_invocation`) is one step. The counters saturate at the threshold, as
nothing distinguishes larger values. A store that raises is the second disjunct
of `Count`. An implementation is its hash.

**Healing.** Time is the number of the last `tool.before`; `horizon` says up to
which call the timeout has elapsed, and `TimePasses` moves it. `open` and
`fired` are the stall watchdog's dictionaries, `window`, `latest` and
`lastFired` the loop watchdog's. `AskStall`, `AskLoop`, `Abort`, `Begin` and
`BeginSkipped` are one pass through the before hooks, split where an emission
may suspend; `Finish`, `FailAndRetry` and `Cancel` are the ends of a call;
`PollStall` and `PollLoop` one round of the runner. `alone`, `falseStall`, `reports`,
`streak` and `answered` are history: whether another call of the tool overlapped this
one, what was reported, and how often a call ran in a row (`Counted`; a call that the
policy skips does not run).

**EventStream.** `emitting` holds, per producer, the handlers its emission has
still to call, copied when it began. Handlers other than `"slow"` do not
suspend, so an emission runs in one step up to the next slow one (`Dispatch`). There
it goes on when the handler returns or raises (`Resume`), or its task is cancelled
(`CancelEmission`): `_safe_call` catches `Exception`, which `CancelledError` is not, so
the handlers that are left never get the event. `cut` is history: what each stream
lost in this way.
`Open` subscribes and copies the buffer, `Pull` is one chunk, `Close` and
`CloseUnstarted` are `aclose` after and before the generator has started.

**PlanStream.** The producers are tasks that call `set_task_status` or
`emit_init`. `SetTaskStatus` and `EmitInit` write the plan and begin the first
emission, `EmitTyped` is the second one, `Return` the end. A status is the number of
the event that announces it, so that no two updates look alike. A copy is what
a consumer computes from one channel of what a stream sent and has in its
queue. `contended` and `misled` are history: items that two operations touched
at a time, and tasks that a typed delta named for a subtask that does not exist.
`Cancelled` ends an operation where one of its emissions waits. The plan keeps what was
written, so the item is `torn` until an operation that shows it (an update of it, or
a whole plan) has come to its end. A cancelled `emit_init` wrote nothing and tears nothing.

**ToolCall.** `site` is the place of the call, `hook` and `active` the loop of
`HookRunner`; `Target` is where a decision leads, `Raised` where an abort goes.
`wrapped` says whether `run_with_retry` is around the tool. Which exceptions
are retryable is left open, so both choices are explored.

**History, AgentRun.** `History` holds the processors that run before a model
request, as functions on sequences of messages: the budget of results, the three
levels of `ContextManager`, the window of recent messages, the repair. A message
is its turn, kind, round and size. `AgentRun` has turns in three slots: that of
the tool, that of the ensemble's sample, and one more user of the same state.
`StartTurn` is `call_model` up to its await, `Request` and `Answer` the external
agent loop, `Finish` the write back of the history. `sub` is a
`SubAgentTool.run` (`SubAgentRan`, `Sample`, `Enriched`, `Execute`,
`StateUpdate`, `Evaluate`), or the tool is a `CompoundTool` and the other steps
are those of `ToolCall`.

**MetaOrchestrator, GoalExecution.** `pc` has one value per await. `Lookup` is
the loop head with the cache lookup, `Recalled` the spawn after the memory
answered (any answer: the memory is external; with no memory the code does not
suspend there, which is one of the interleavings), `Complete` the return of
`_execute_subtask` with the decision to re-plan, `Redecompose` the planner's
answer or its failure. `GoalExecution` is what a caller may rely on: a plan, one
result per subtask in order, a bounded number of rewrites behind the last
result and only after a success, each by at most `max_subtasks` (not the plan as a
whole, which is as long as one such piece per decomposition). A goal is given up (`GiveUp`) only while it is
planned or over a subtask that has no result yet; a cancellation (`Cancel`) is told from
that and may come at any await. The mapping takes every `pc` of a running goal to
"working".

**LocalMemory.** `disk` is what is committed and `work` what the connection
with the open transaction (`owner`, which holds SQLite's write lock) sees; each
is the table, the index and whether the triggers exist. `op` is the operation a
task is in the middle of: every awaited statement is a step, on the connection
that `_ensure_db` returned (`Begin`, `Connect`, `Setup`). `Insert`, `Forget`,
`Prune`, `Decay`, `Floor` and `Touch` write; a recall selects its rows by keyword
(`KeywordRecall`, through the index or with LIKE), by embedding or by trigger
(`EmbeddingRecall`, `ProceduralRecall`: the embedder or the judge is awaited
between the query and the update, `Rank`); `Commit` commits whatever is in the
transaction, `Close` drops it, `Fail` ends an operation at any statement without
a rollback, as the `except` clauses and a cancellation do, and `Crash` ends the
process. The index behaves as FTS5 does with the triggers the code defines: the
insert trigger takes the index's own next row id, the delete trigger removes
nothing, and `INSERT OR REPLACE` does not fire it. Reliability counts the
failures left until `prune_below`; entries are stored above it.

**Orchestration.** A topology is a tree whose nodes are numbers; `pc` and `frame`
are the state of each node's `run()`. `TopologyFromSpec` resolves the whole tree or
refuses it. A composite awaits its children (`Await`), a parallel's branches are
tasks of their own: `ParallelTimeout` asks for their cancellation and
`ParallelReturn` gathers them; `ParallelCancelled` is the `CancelledError` that
leaves the branches to themselves. `asked` are the tasks whose cancellation was
not delivered yet. A specification is a sequence of operations whose children are positions in
it (`TopologySpec`); `Deciders` are a router's classifier and a loop's evaluator, which
are an agent or a callable and never a composite. `Optional`, which `Fitness` shares,
has Python's `None`.

**RuntimeTopology.** One action per stretch of a request between two awaits: the
lookup with its verification, the design, the two store steps, the run, and the record
of its outcome. `DesignEscapes` is the exception that nobody expects: hydrating what
the cache holds or the designer proposes raises something other than the three
kinds that `_is_hydratable` catches, or the prompt cannot be built. The cache is none, the LRU or a memory store (external); its
statistics are a record of counters as in the code. The registries may gain and
lose names at any time.

**Toolbox.** Connections go through opening, open, closing; `entries` is the
manager's dictionary in insertion order, with holes, because `disconnect_all`
walks it across awaits. A request is a call of `get_or_discover` or
`discover_and_connect`. A tool is known by its provider: the connection it was
adapted for, local code, or generated code.

**Sandboxes.** `docker` is what Docker knows of each container, `phase`,
`container` and `port` what the host object knows; `venv`, `installed` and
`lock` are inside the container. The actions are the steps of entry and exit
with every way they fail, the death of a container, and the steps of a call:
static checks, token check, lock, creation, installation, run. A session is entered
again only after it was left (a bound in `Enter`: the code does not forbid a nested
entry, which would drop the first container).

**Fitness, Optimization.** `Fitness` holds the pure part: decoding of genes with
clamping and snapping, aggregation of bundles, weighted scores, domination.
`Optimization` has three parts side by side: the meta-agent search (`stage`
says where it is), GEPA runs on one bus whose events are delivered when the loop
is free again, and results applied to an agent. A behaviour has one search or some GEPA
runs (a bound in `Search` and `Optimize`): the two share no state, and a search does not
move while GEPA blocks the loop. Means are taken in units of
1 / `Scale`.

## Runs

Two workers. The states are distinct states; no run takes more than four
minutes on two cores.

| run | bounds | states | what it shows |
|---|---|---|---|
| `fallback` | 2 callers, 3 models | 54 k | `WalksAreSound`: no model is passed over that nobody saw fail, in whatever order stale indices are stored (`SkippedHaveFailed`), and a call tries exactly its own range (`WalkIsContiguous`). `StickyAlone`: the index only moves forward until calls overlap. `CallsEnd`. |
| `tools` | 1 name, 2 implementations, 3 versions, 2 calls, threshold 2 | 54 k | `Consistent`: the hash set is the table's (`HashesExact`), a served tool is never older than the stored one (`RegistryNotBehind`), one row per version and neighbours differ (`HistoryAuditable`). `AutoPromotionIsSound`: a promotion writes something new and was earned. |
| `healing` | 2 flows; three settings: 2 tools with a poll loop that is started and stopped, 2 argument values with hooks only over cancelled and retried calls (4 calls each), or over calls that are skipped (5) | 0.7 M | `BooksAreRight`: as many open entries as running calls (`EntriesMatchCalls`), no stall without a call that old (`StallIsSound`), none reported twice (`ReportedOnce`). `NothingSlipsThrough`: overdue calls are found (`StallIsFound`), when `threshold + 2` identical calls ran in a row, a detection was answered (`LoopIsBroken`). `StallIsReported`: and in the end, unless the runner is stopped. |
| `stream` | 2 producers, 1 of them cancelled, 3 events, 2 items and a missing id, queue and buffer of 2, slow handler before or after the buffer | 1.3 M | `StreamsAreSound`: each producer's events in order, overflow drops the oldest, no duplicates, no gap if the buffer comes first, but the events cancelled on their way. `PlanIsMirrored`: a copy made from either channel ends with the plan's status, unless two producers wrote the item at a time, or its last update was cancelled and nothing has shown it since. `EmissionsEnd`. |
| `agents` | 1 tool of either kind, 1 other turn, 1 sample, 1 round of tool calls per turn, 1 refinement, 2 hooks, 2 attempts | 3.1 M | `WindowAccepted`: every return has its call before it, calls are answered, the first and the newest message are there, the size is bounded. `OneConversation`: a turn in the history was shown the turns before it. `ResultIsCommitted`: the sub-agent tool returns what the state holds. `CompoundSound`: `ToolCall`'s bounded executions, one update per returned call, no hidden failure, nothing after a bare abort. |
| `meta` | 2 goals, 2 names, plans of 1, 1 re-decomposition | 0.2 M | `ImplementsGoals` (refinement: results in order, each piece of a plan bounded, given up only over a plan or the subtask under way), `WorkIsBounded` (one retry per subtask; one agent per name unless two goals looked for it at once), `SolveEnds` |
| `memory` | 2 tasks, 2 connections, 2 entries, 1 topic, 2 row ids, 4 calls, 1 fault or crash | 1.4 M | `StoredIsDurable`: a store that came back after its commit is on disk until removed, whoever else committed, closed or crashed. `Consistent`: a version names one row unless two stores of the skill overlapped; a row below the floor belongs to an update still running or broken off; the index equals the table until a row leaves it. |
| `orchestration` | 7 topologies of up to 10 nodes, 3 registries, 2 values, 2 scores | 0.3 M | `RunsWhatWasChecked`: nothing runs unless every reference of the tree resolved, and no run exceeds the counted agents and depth. `NoStrayBranches`. `KeepsBest`. `RunEnds`. |
| `topology` | 3 requests, 2 goals, 1 spec and a fallback, cache of 1, memory of 2; 4 settings | 3.5 M | `UnprovenIsTried`: what failed is not left in the LRU, whoever cached it. `CacheHitExplained`: `cache_hit` is wrong only when another request was served meanwhile. `Consistent`: the statistics add up, but for requests that are cancelled or left by an exception. |
| `optimization` | 2 examples, 2 generations, 1 reflexion, 1 debug retry, 3 strategies; 2 GEPA runs of 2 iterations; 6 candidates | 0.4 M | `WinnerOnFront`, `ParentWasShown`, `BrokenDesignsAreSkipped`: what enters the archive, as whose child, and who wins. `HistoryArrives`. `Consistent`: genes are legal, and the cached inner agent is the one its attributes describe. |
| `sandboxes` | 2 sessions, 2 containers, 2 ports, 2 calls, 2 agents, 2 versions of a package | 1.0 M | `LeakOnlyOnFailure`. `SandboxesConsistent`: code runs in the container of its own session. `SetupIsExclusive`: one `uv` at a time in a venv. `DepsUndisturbed`: code finds what it declared unless its agent made another call. |
| `toolbox` | 2 servers, 2 tools, 2 connections, a request of either kind | 1.2 M | `OpenIsListed`: no open connection is lost but to a name taken twice or a racing `disconnect_all`. `StaleIsRefused`. `OnlyApproved`. `Consistent`: an agent's next run has the tools the agent has. |

Every property of a run has a mutant in the module it is about: a variant of one
definition, named in `PROJECT.json` and placed in front of it, under which TLC
finds the property violated. Several runs state the named parts of a component's
consistency as one conjunction; the parts keep their names and comments in
the modules.

**Why the bounds are enough.** Two callers, flows, producers, goals, tasks or
calls are the least that overlap, and a third brings no new pair of steps: what
they share is an index, a dictionary, a list or a set, and the proofs cover any
number where there is one. `topology` has three requests because a late failure,
the request that replaced the spec and one that is served from the cache meanwhile
are three. Three models let one call advance twice while another stands
still. Three versions allow a version to be forgotten and its number to be used
again. Four tool calls let a window of two or three slide and a
detection be lifted and raised again; five are needed where a call is skipped
between those that run. Three events overflow a queue and a buffer
of two; with typed events they are one complete operation and half of another.
In `agents`, a restored session, two turns and a refinement make histories
of more than the seven units at which the last level of compaction begins. Four
memory calls store, store again, remove and store; that
is enough for a version to be taken again and for two connections to wait for
each other's lock, while longer histories and several faults in a row are not
explored. Two names tell a subtask's agent from another's, and decompositions one
longer than the bound exercise the slice. The topologies of `orchestration` are
chosen, not enumerated: each composite occurs under another one, with and
without its options. Nothing begins again above a branch that was abandoned and still
runs (a bound in `Await`): the old run and the new one would need a frame each. Two connections and one result list of two servers let a
second connection take a name, or be made while the first is closed.

**Reductions.** `memory`, `topology`, `sandboxes` and `tools` use symmetry, and
check safety only (`AutoPromotionIsSound` is an action property). In
`PlanStream` the first event is that of a fixed producer, as producers are alike, only
the tasks of that one are cancelled (`Cancellable`; the theorems have any), and with a slow handler in front of the buffer, where copies are not stated to
follow, only one kind of update is made.

**Deadlock** is checked in `fallback`, `tools`, `meta` and `toolbox`. The others may
stop: the number of events, tool calls, containers, requests or operations is
bounded and nothing is left to do after them, or a single call, topology or
search is over.

**Fairness.** Always weak, and only on what the event loop and the awaited
parties do by themselves. `fallback`: models, consumers and emissions finish.
`healing`: the poll task is scheduled; nothing is assumed about tools, time or
start and stop. `stream`: handlers return or raise; nothing is assumed about consumers.
`meta`: planner, memory, hooks and agents answer or raise. `orchestration`:
steps answer, raise or end when they are cancelled; no timeout is relied on.
`optimization`: the search, GEPA and, once the loop is free, the delivery of
events go on. `emit` and `HookRunner` swallow exceptions, and the code has no
unbounded wait of its own in these paths.

## Proofs

Each package with theorems has them in a module of its own. Where a package has
two modules, its proofs extend both: `HealingProofs` the watchdogs and the fallback
chain, `AutonomyProofs` the meta orchestrator and the toolbox, `SandboxProofs` the
sandboxes and the tool runtime inside the container, `OptimizationProofs` the
topologies and the optimizer that designs them; one of the two then has names
of its own (`ChainTypeOK`, `SandboxInit`, `RunNext`), and `RunInv` is `Orchestration`'s
`IInv`.
They follow one argument: an inductive invariant `IInv` holds
initially, every action keeps it, and it implies the property; TLC checked each
`IInv` on the instance of the component's run before it was proved. Constants
are arbitrary up to the named assumptions of the modules, which TLC evaluates.

| proof module | states for every instance | needs besides the property |
|---|---|---|
| `HealingProofs` (watchdogs) | `BooksAreRight`, `NothingSlipsThrough` | entries and calls up to every age; what the window and the cached detection say of a streak |
| `HealingProofs` (chain) | `WalksAreSound`, `StickyAlone` | where a caller stands; who is in flight before calls overlap |
| `PlanStreamProofs` | `StreamsAreSound`, on the bus alone and under the plan; `PlanIsMirrored` | which events of a producer are received, queued, overtaken, cut off or on their way; what the last event about an item says |
| `SandboxProofs` (tool runtime) | `Consistent`, `AutoPromotionIsSound` | hashes, registry and history together; the successes behind each counter |
| `SandboxProofs` (sandboxes) | `SandboxesConsistent`, `LeakOnlyOnFailure`, `SetupIsExclusive`, `DepsUndisturbed` | who owns a port, a container and a lock; what other calls of an agent did |
| `AutonomyProofs` (toolbox) | `Consistent`, `OpenIsListed`, `StaleIsRefused`, `OnlyApproved` | where each connection, request and closer stands |
| `AutonomyProofs` (goals) | `WorkIsBounded`, `ImplementsGoals` | plan and results at every await |
| `LocalMemoryProofs` | `Consistent`, `StoredIsDurable` | what each task has written and not committed, and who could still undo it |
| `RuntimeTopologyProofs` | `Consistent`, `UnprovenIsTried`, `CacheHitExplained` | one item per goal; the counters seen by a request in flight |
| `OptimizationProofs` (topologies) | `RunsWhatWasChecked`, `NoStrayBranches`, `KeepsBest` | which children a node awaits at each place of its run; what a loop that goes on has not seen |
| `OptimizationProofs` (optimizer) | `WinnerOnFront`, `ParentWasShown`, `BrokenDesignsAreSkipped`, `Consistent` | what a score is of the means; that the best entry is in the view from the design on |
| `AgentRunProofs` | `WindowAccepted`, `OneConversation`, `ResultIsCommitted`, `CompoundSound` | what each processor keeps of a window; what a turn was shown; the counters at each place of a call |

**Healing**, for every set of flows, every assignment of arguments to tools, every
threshold of at least one and every window at least as long, any number of calls, and
with or without poll loop, cancellations and retries (`SettingsAssumption`,
`WindowAssumption`, `MaxCallsAssumption`, `PairAssumption`). That a tool has as many entries
as calls does not say that a stall is about a call that old: ends are matched to
begins by age, so an entry soon stands for another call. `MatchInv` says that, up
to any age, a tool has no more entries than calls: whichever call ends, the oldest
entry goes. For a call that no other overlapped, `AloneInv` says that its own entry is
the only one, open or reported once. `LoopInv` relates the window to the history: the last
calls that ran in a row are at its end, so one too many of them is counted
(`Occurrences`), and the detection is still cached or was answered. The
attempt found two gaps in the property. The earlier statement also counted calls that
the policy skips, which makes it false after five calls, and the run had four;
`streak` now counts the calls that run, and the run has five. And with a window
as long as the threshold no detection is ever raised, which is now a condition.
Theorems: `WatchdogBooksAreRight` and `NothingPassesUnnoticed`.

**FallbackModel**, for every number of models (`NAssumption`: at least one) and
every set of callers. `ChainInv` is `ChainTypeOK`, `WalkInv` and `SkipInv`.
`SkippedHaveFailed` alone is not inductive: a caller that stores `i + 1` late
makes it depend on what that caller saw, so `SkipInv` adds that everything in
front of a caller's own position has failed as well. `WalkInv` relates what a
call tried to its position and to the index it started from, which is what keeps
the final `RuntimeError` honest. Theorems: `ChainTypeCorrect`, `SkipsAreJustified`,
`WalksAreContiguous`, and both together as `WalksStaySound`, the property
of the run. `StickyWhileAlone` needs a second invariant, `ChainAloneInv`:
until calls overlap, a caller in flight stands where the index stands, and no
other caller is in flight.

**ToolRuntime**, for every set of names, implementations and calls, every
threshold of at least one, every policy and any number of versions
(`ThresholdAssumption`, `PolicyAssumption`, `BoundAssumption`). `IInv` is
`TypeOK`, `CallsUp` (no call runs while the server is down), `CountsEarned` (no
counter exceeds the successes that earned it), `HashesExact`,
`RegistryNotBehind` and `HistoryAuditable`. They hold each other up: that a
promotion writes a new row follows from the hash set being exact, and that the
newest row is served from the registry being rebuilt and updated together with
the table. The step that needs work is that the newest version exists at all: a
non-empty set of versions has a largest one (`Largest`), from the
well-foundedness of strict inclusion on finite sets; `LatestFacts` says what
`Latest` returns, `PersistFacts` and `PromoteFacts` what the two helpers of the
handlers do to table, registry and hash set. Theorems: `TypeCorrect`,
`HashSetIsExact`, `RegistryIsCurrent`, `HistoryIsAuditable`, together
`MemoryAgreesWithTable`; and the action properties `PromotionsAreNew` and
`PromotionsAreEarned`, together `PromotionsAreSound`.

**Sandboxes**, for every number of sessions, containers, ports, calls and agents
(`MaxContainersAssumption`, `AllowedSpecsAssumption`, `NoneAssumption`). That code
runs in its own session (`SandboxesConsistent`) rests on ports: a request goes to whoever has
the port, so `PortInv` says that running containers have different ones and
`CallInv` where each call stands. `SetupIsExclusive` rests on `LockInv`, that who works on
a venv holds its lock; `DepsUndisturbed` on `DepsInv`, which says the same while a
call runs as the property says of its end, for as long as no other call of its agent
reached the container (`Disturbs`). `LeakOnlyOnFailure` is inductive once
`SessionInv` says which sessions have a container.

**EventStream** and **PlanStream**, for every set of producers and clients, every order
of the handlers in which the buffer occurs at most once, any number of events and
queues and buffers of any size (`RegisteredAssumption`, `ClientsAssumption`,
`SizeAssumption`, `MaxEventsAssumption`). `StreamsAreSound` alone is not inductive: it
says what a consumer got, and the next event it gets was put in its place long
before. `StreamAt` therefore follows all of a stream's events at once: what was
received, the rest of the replay and the queue, one after the other, have each
producer's events in their order (`InOrder`); an event still on its way to the
stream is in none of them (`Fresh`); the queue is the end of what was pushed, and
what was pushed and is not in it was received or gave way (`Kept`). `Flight` says that
an emission carries its producer's latest event, `NoRepeats` and `ClientsLast` that a
handler occurs once and streams come after the handlers of the workbench. That
there is no gap needs `BufferFull` and `Covered`: with the buffer in front there
is an event from which on everything was sent to the stream, is on its way or was
cut off from it; a cancellation moves it from the second to the third (`CancelStep`). An
emission from its beginning and one that goes on behind a slow handler differ only in
whether the event is new; once it is published (`Published`), both deliver it to
the handlers up to the next slow one (`Delivering`), so `DispatchStep` serves both. The
facts about queues that this needs (a push into a full queue, a suffix, a
concatenation) are lemmas about sequences. Every step of a producer that updates the plan
is a step of the bus, which gives `PlanStreamsSound`. `Unsubscribed` removes a stream's
handler by position, as `list.remove` does, where a filter stood before.

`PlanIsMirrored` (`CopiesMirrorThePlan`) holds for every plan whose subtasks belong
to its tasks (`PlanAssumption`), any ids that are not in it and any number of operations.
It cannot be had from `StreamsAreSound`, which orders the events of one producer: the
last status of an item may come from any. But while no two operations touch the item at
a time (`Exclusive`), an emission about it carries its latest event (`Current`), and
then the events about the item are in order as if one producer owned them (`Thread`).
The lemmas about order are stated for any owner of the events, so they serve both
(`Threaded`). What the last event of a channel says (`Shown`) is not enough, as a
cancellation may have kept it from a stream. `Settled` therefore says that whatever
event disagrees with the plan is followed by one that every handler had (`Reached`).
That holds of an item that is not torn while no operation has it half-written
(`Settles`), and it holds again once an operation that shows the item has ended, because by
then it has announced it on every channel and none of its events was cut off (`Told`,
`Whole`, `LastSettles`). `Promised` says that the operation whose typed delta is due
was the last to set the item. That a stream cannot miss the event that was reached is
`Covered` again (`LastWord`). The proof uses no restriction of the instance: not
that to one item when a slow handler is in front (`Announced`), nor those of the first
event and of cancellations to one producer. A copy is read at the last
position that speaks of the item, where a filter of the sequence stood before.

**Toolbox**, for every set of servers, tools, connections and requests, and either
way of finding a tool. The hard one is `OpenIsListed`: connecting, the walk of
`disconnect_all` over a dictionary that changes, and the removal of names overlap.
`OpeningInv` and `CloserInv` say, for each await, which slot of the dictionary is
whose; `NamesUnique` that a name has one slot. `ApprovalInv` follows an approval from
the gate to the registration, `HeldInv` from the registry into agents, which gives
`OnlyApproved`; `SessionInv` and `AgentInv` give the other two.

**MetaOrchestrator**, for every set of goals and names and all bounds. `GoalInv` relates
the plan to the results at every `pc`: no more results than subtasks, and no more
subtasks than the results and one decomposition, so the plan stays bounded however often
its rest is replaced; `RunsInv` counts the runs of an agent by place, `SpawnInv` who
may still spawn one. From these, `SolveImplementsGoals` takes every step of `solve`
to a step of `GoalExecution` or to a stutter, action by action; a goal that raises does
so while it is planned or where `GoalInv` has fewer results than subtasks: `SlicedIsPiece` and
`RestFacts` say what the slices of the plan are.

**LocalMemory**, for every number of tasks, connections, entries, topics and row
ids, over faults, cancellations and crashes. `StoreInv` says of each entry that was
inserted whether it is on disk, in the transaction of the connection that owns it,
or lost together with that transaction; `OpInv` what each operation still has to do;
`IndexInv` pairs rows and index until a row leaves. The first attempt failed for a good
reason: with a third task the history variable that followed an entry called it
stored although a second task had removed it and a third one had inserted it again
without a commit. It was replaced by two (`inserted`, `stored`); the run's
verdict stayed the same. Where the model uses `ENABLED` (`Fail` ends an
operation whose statement cannot run) the proof only needs both cases, not its meaning.

**RuntimeTopology**, for every number of requests, goals and specifications, every size
of the cache and each of its kinds. The LRU is an ordered dictionary: `KeyedInv` says
that a goal has one place, and `WithoutFacts`, `LruStored` and `Touched` what taking
an item out, storing and moving it leave. With these `UnprovenIsTried` is inductive: a
failure takes out the only item its own request could have been the witness of. For
`CacheHitExplained`, `HitInv` says that between reading the counter and reading it
again the difference is positive exactly when another request was served.
`StatsAddUp` counts requests by place (`Moved`), those that were cancelled or that an
exception left among them; `FallbackInv` makes its last part
inductive.

**AgentRun**, with `History` and `ToolCall`, for every number of hooks, attempts,
refinements and rounds of tool calls, every configuration of the history processors
and every saved session that a session file can hold (`LimitsAssumption`,
`SessionsAssumption`, `WindowAssumption`, `SizeAssumption`). `WindowAssumption` wants
`min_recent_turns` to be at least two (its default is five): with one, an emergency
truncation in the middle of a turn keeps a tool's return without its call, the repair then
drops the return as well, and the model is not shown what it has to answer.
`ConversationInv` carries three facts from the history into each window and back:
it opens with a prompt, each reply in it comes from a turn that was shown the
replies before it (`InOrder`), and calls are answered by the next message unless
the salience function may drop messages; a window under way also ends with what
this round asks (`Pending`). Each processor only drops messages or turns a call
into a summary, and keeps the first, the newest with its call, and a message behind
each call that stays; `WindowKept` says that such a choice of positions keeps
`Pending`, and one lemma per processor (`RepairFacts`, `BudgetFacts`, `KeepRecentFacts`,
`SummarizeFacts`, `TruncateFacts`, `CompactFacts`) that it makes one. Under these
is what picking positions does to a sequence (`AtFacts`): that the rank is a
bijection onto `1..Cardinality(S)` (`NthFacts`) is a pigeonhole argument. `ResultInv` follows a sub-agent's result from place to place, with
`torn` for an updater that raised half-way; `CompoundInv` gives the number of
executions and updates at each place of a call. Two things of the model had to
change for the proof: the bound on the number of turns was too small for some limits,
and positions are picked by rank where `SelectSeq` did it before, on which the provers
know nothing.

**Optimization**, with `Fitness`, for every configuration that `MetaAgentConfig` and the genes
accept, every set of examples, outcomes and candidates and every number of runs
(`ConfigAssumption`, `GenomeAssumption`, `CandidatesAssumption`, `OutcomesAssumption`,
`ExamplesAssumption`; `BatchesAssumption` makes means exact: `Scale` is a unit
of the model). `WinnerOnFront` relates two computations of the code: the winner
has the best weighted mean of the bundles, the front compares the means of the
axes. `SumWeighted` and `MeanIs` make the one the weighted sum of the others
(`ScoreIs`), so an entry that is dominated scores less (`DominatedScoresLess`). That
needs weights of the signs `MetricWeights` documents, which it does not insist on: the
theorem has `SignedWeights` as its hypothesis, and with weights of zero, which
a test of the repository has (`tests/optimization/test_meta_agent.py:234`), a winner can
be off the front. That nobody reports a confidence (`TopologyFacts`) is needed as well,
as domination leaves that axis out. `ParentWasShown` holds because `max` and the stable
sort break ties alike (`BestIsShown`); from the prompt to the evaluation the best
entry stays in the view, as only `Evaluate` archives. `BrokenDesignsAreSkipped` counts:
entries and skipped generations are one more than the generations over. For
`Consistent`, `EvaluateOneType` bounds the means of the trials and `DecodeLegal` what a
clamped, snapped and clamped value can be. `Sum` is a recursive function: `PartialExists`
builds its values and `SumIs` shows there are no others. Both, and the bounds of sums, are
inductions, done by descent: if every counterexample has another one just below it,
strict inclusion on finite sets would not be well-founded (`Descent`).
Theorems: `BestIsParetoOptimal`, `DesignsKnowTheirParent`, `FailuresAreNotArchived`,
`OptimizersAreConsistent`. For the proof `View` and `EvaluateOne` count indices where they
sorted and filtered sequences before; the states of the run are the same.

**Orchestration**, for every set of specifications that are trees, however deep and wide,
every set of registries and any number of retries and iterations (`ShapesAssumption`,
`ScoresAssumption`, `NoneAssumption`). `Awaited` names the children a node may have
running, by its kind and the place of its `run()`: the step of a pipeline, the
branches of a parallel, only the late ones once it reaps, one child of a router or
loop. That every running child is among them (`AwaitInv`) is inductive and
gives `NoStrayBranches`. As a step of a node changes only that node and the children it
starts, one lemma (`Moved`) carries `RunInv` over all of them, and two more serve the
steps that await (`Begins`) and those that return (`Ends`). Its case of a child
that begins again is where a run left over from before would hurt, which is why
`Await` has its bound.
For `RunsWhatWasChecked` the recursive functions over the tree have to be unfolded. `Recursion`
says that a recursion over a finite set along a rank that descends has a solution;
hydration and depth descend from the children, the level from the parent.
`HydratesAll` then says that a root that hydrates has hydrated every node, and
`LevelsBounded` that level and depth of a composite on one path add up to no more than
the depth of the whole. `KeepsBest` needs to know why a loop went on: no iteration
before the last passed or was confident (`Unsure`), so the one that is confident is
the best (`ConfidentKept`), and the other exits ask `_resolve_kept_output`
(`ResolvedKept`). For the proof the successful branches of a parallel are positions where
a filtered sequence stood, on which the provers know nothing.
Theorems: `RunsAreChecked`, `ConcurrencyIsStructured`, `LoopsKeepTheBest`.

Model-checked only: the liveness properties and whatever needs fairness (`CallsEnd`,
`StallIsReported`, `EmissionsEnd`, `SolveEnds`, `HistoryArrives`, `RunEnds`), as the
prover has no `ENABLED`. Every safety property of a run, invariant or action property, and
the refinement is proved.

## What disagrees with the documentation

Where the code does not do what a comment or a page of the documentation says,
the property leaves out just that case, and says so in its comment.

- Fallback: the chain is called sticky, but a call that overlaps another stores
  an older index (`fallback.py:189` against line 117); a transient error inside
  a handed-out stream falls back although mid-stream errors are said to
  propagate; `active_model` raises once the chain is exhausted.
- Healing: the poll loop takes the loop watchdog's cached detection, publishes it
  and runs no policy (`runner.py:131` against `docs/concepts/healing.md`); a window
  as long as the threshold never fires; overlapping calls of one tool make the
  stall watchdog close the wrong entry; cancelled calls are never closed and
  retried ones are not watched.
- Meta orchestrator: an abort after a retry leaves `solve` as a `HookAbortError`
  with the results of the goal (`meta.py:390` against `hooks.py:70`, where it is
  handled by the normal error path); every other abort is noted as a failed subtask and the
  next one starts (`meta.py:301`), though it is said to "halt the entire orchestration"
  (`docs/concepts/autonomy.md:221`). `max_subtasks` is called the "Upper bound on
  subtasks per goal" (`meta.py:109`); the code cuts each answer of the planner to it
  (`meta.py:145`, `meta.py:581`) and appends a re-decomposition to what was executed
  (`meta.py:206`), so a goal may have that number again for each re-decomposition.
- Memory: the delete trigger passes no row id on and `INSERT OR REPLACE` does not
  fire it, so the index keeps what the table lost (`local.py:64` against
  `docs/concepts/memory.md`); two overlapping stores of a skill take one version; a
  connection that was replaced during a first use keeps the write lock if it
  has a transaction; skills of kind `tool` are never versioned.
- Tool runtime: the eager promotion policy promotes nothing; a run of a forgotten
  and reused version is credited to other code.
- Streams: one closed before its first chunk stays subscribed, and one opened
  while a slow handler in front of the buffer holds an event never sees it. That
  "a failure in one does not prevent others from running" (`events.py:89`) is not so of
  a cancellation in one.
- Execution plan: with typed events on, an update of a subtask that does not
  exist emits a delta on the path of its task, so the interface shows a
  status for the task that the plan never had. A cancelled update leaves the plan
  changed and is not announced, or on one channel only, until something else shows the item.
- Hooks: `run_with_retry` takes an abort inside the operation for a failure and
  tries again; the failure of a redirected retry reaches no error hook.
- Topologies: the evaluator is said to reject designs beyond `max_depth`, which
  is only put into the prompt (`optimization/topology.py:86`).
- Sub-agent tool: an updater or evaluator that raises after the state was
  changed gives the exit reason `refinement_failed_keep_original`, and the
  confidence of a failed refinement is returned with the prior result; an
  exception of `build_refinement_prompt` leaves `run`.
- Metacognition: the ensemble's samples overwrite the history of the state,
  although they are "not a way to swap outputs"; no code writes the
  metadata that the confidence salience reads; a salience function can keep a
  call and not its return.
- Optimization: under the parallel strategy `parent_idx` is said to be `None`
  (`meta_agent.py:141`) and is the best entry (`meta_agent.py:597`); the winner is said to be evaluated again and is not; an estimator
  that raises leaves an evaluator that should never raise; the history is empty
  when `optimize` returns, and its collectors are never unsubscribed.
- Orchestration: a loop that keeps its best takes a best output of `None` for
  no best; a parallel that is cancelled itself abandons its branches.
- Topology cache: an exception that hydration raises beside the three kinds that are
  caught (`runtime.py:512`), or that building the prompt raises, leaves `design` with
  the lookup counted and no outcome; `InMemoryLRU` is documented as first-in first-out and is LRU;
  `cache_hit` is derived from shared counters.
- Sandboxes: a failed entry or a cancelled exit leaves the container; the
  token is minted once per connection; names of persisted tools are rejected as
  agent ids; `cleanup_agent` takes no lock.
- Registry and MCP: a discovery registers all tools of a server, over local ones
  too, though one capability was approved; `discover_and_connect` asks no gate; a
  second connection takes the name of the first and leaves it open; tools of
  a closed connection stay registered and are refused when called.

## Not modelled

Whole parts: the regression watchdog (it caches and hands out its detection as the
loop watchdog does, over a mean of floats) and the healing configuration; tracing,
which decides nothing; the generative user interface, whose events are those of
`EventStream`; skills, web tools, utilities and configuration, which are input and
output. Notebooks, examples and documentation are not code of the library.

Of the modelled parts: text (prompts, formatting, parsing of answers), rounding of
floats, the order, number and filters of the memories a recall returns, operating
system isolation, the wire protocols of MCP and SSE, the GEPA algorithm,
pydantic-ai's agent loop and Docker, of which only what the code relies on is
modelled (they are marked external). A crash or a cancellation while a venv is created
is not modelled either. Some hazards are real, are in the models, and are caught by no
property, as the code lets them happen and promises nothing else: the container that a
failed entry leaves, the package that two calls of one agent exchange, the results that
an abort after a retry takes with it. `PROJECT.json` lists them without a property. `LocalMemory` is composed with `MetaOrchestrator` only through
what it may answer, as the planner uses an answer as text.

## Plan

Everything the first plan named is modelled, and every safety property that a run checks
is proved. What could follow: the liveness properties by hand-made measures
where a step needs no `ENABLED`, and theorems about more of what the code computes
(the archive's order, the merge of a parallel), as runs come to check it.
