---------------------------- MODULE ToolRuntime ----------------------------
(***************************************************************************)
(* The in-container tool runtime: the SQLite tool store                    *)
(* (orqest/sandbox/docker_runtime/store.py) and the MCP server that        *)
(* executes code, promotes what succeeds often enough to a named tool and  *)
(* serves the promoted tools (server.py), across container restarts.       *)
(*                                                                         *)
(* The store's rows are durable; the registry, the success counters and    *)
(* the set of persisted hashes live in the server process.  All handlers   *)
(* run on one event loop and suspend only inside executor.execute, so the  *)
(* code after that await is one step.                                      *)
(***************************************************************************)
EXTENDS Integers, FiniteSets

CONSTANTS
    Names,           \* tool names
    Impls,           \* implementations (an implementation is its hash)
    Calls,           \* slots for MCP calls in flight
    Threshold,       \* promotion_threshold
    Policy,          \* promotion_policy
    MaxVersion,      \* bound: versions per name
    MaxInvocations   \* bound: invocation_count of a row

ASSUME ThresholdAssumption == Threshold \in Nat \ {0}
ASSUME PolicyAssumption == Policy \in {"threshold", "eager", "operator_approval"}
ASSUME BoundAssumption == MaxVersion \in Nat \ {0} /\ MaxInvocations \in Nat

VARIABLES
    rows,        \* the tools table
    up,          \* whether the server process runs
    registry,    \* FastMCP: name -> the persisted tool its runner closed over
    persisted,   \* persisted_hashes: (name, hash) pairs
    counts,      \* counts: (name, hash) -> successes, saturating at Threshold
    call,        \* the calls suspended in executor.execute
    earned       \* history: successes of a pair while it was not stored

vars == <<rows, up, registry, persisted, counts, call, earned>>

Rows == [name : Names, version : 1..MaxVersion, impl : Impls,
         invocations : 0..MaxInvocations]
Pairs == Names \X Impls
NoTool == [version |-> 0]
Tools == [version : 1..MaxVersion, impl : Impls]
Idle == [op |-> "idle"]
Executing == [op : {"execute"}, name : Names, impl : Impls]
Running == [op : {"run"}, name : Names, version : 1..MaxVersion, impl : Impls]

TypeOK ==
    /\ rows \subseteq Rows
    /\ up \in BOOLEAN
    /\ registry \in [Names -> Tools \cup {NoTool}]
    /\ persisted \subseteq Pairs
    /\ counts \in [Pairs -> 0..Threshold]
    /\ call \in [Calls -> {Idle} \cup Executing \cup Running]
    /\ earned \in [Pairs -> 0..Threshold]

RowsOf(R, n) == {r \in R : r.name = n}

(* SELECT ... WHERE name = ? ORDER BY version DESC LIMIT 1, and the same    *)
(* choice per name in replay().                                             *)
IsLatest(R, r) == r \in R /\ \A s \in RowsOf(R, r.name) : s.version <= r.version

(* What the runner of a registered tool closes over. *)
ToolOf(r) == [version |-> r.version, impl |-> r.impl]

Latest(R, n) ==
    IF RowsOf(R, n) = {} THEN NoTool
    ELSE ToolOf(CHOOSE r \in RowsOf(R, n) : IsLatest(R, r))

Hashes(R) == {<<r.name, r.impl>> : r \in R}

Saturate(k) == IF k > Threshold THEN Threshold ELSE k

Init ==
    /\ rows = {}
    /\ up = FALSE
    /\ registry = [n \in Names |-> NoTool]
    /\ persisted = {}
    /\ counts = [p \in Pairs |-> 0]
    /\ call = [c \in Calls |-> Idle]
    /\ earned = [p \in Pairs |-> 0]

(* Mutant of Boot: the hashes of the stored tools are not read back. *)
BootForgetsHashes ==
    /\ ~up
    /\ up' = TRUE
    /\ registry' = [n \in Names |-> Latest(rows, n)]
    /\ persisted' = {}
    /\ counts' = [p \in Pairs |-> 0]
    /\ UNCHANGED <<rows, call, earned>>

(* build_server: counters start at zero, the hashes of every stored version *)
(* are read, and the latest version of each name is registered.             *)
Boot ==
    /\ ~up
    /\ up' = TRUE
    /\ registry' = [n \in Names |-> Latest(rows, n)]
    /\ persisted' = Hashes(rows)
    /\ counts' = [p \in Pairs |-> 0]
    /\ UNCHANGED <<rows, call, earned>>

(* The container stops or dies: only the volume with the store survives. *)
Stop ==
    /\ up
    /\ up' = FALSE
    /\ registry' = [n \in Names |-> NoTool]
    /\ persisted' = {}
    /\ counts' = [p \in Pairs |-> 0]
    /\ call' = [c \in Calls |-> Idle]
    /\ UNCHANGED <<rows, earned>>

(* ToolStore.persist: the row of (n, i) it leaves as the returned tool, as  *)
(* the new table: unchanged when the latest version has the same hash,      *)
(* otherwise one more version.                                              *)
Persist(R, n, i) ==
    LET existing == Latest(R, n)
    IN  IF existing # NoTool /\ existing.impl = i THEN R
        ELSE R \cup {[name |-> n, version |-> existing.version + 1,
                      impl |-> i, invocations |-> 0]}

(* The bound on versions, as a guard of every step that may add one. *)
RoomFor(n, i) == Persist(rows, n, i) \subseteq Rows

(* _do_promote: persist, register the returned tool, note its hash. *)
Promote(n, i) ==
    /\ RoomFor(n, i)
    /\ rows' = Persist(rows, n, i)
    /\ registry' = [registry EXCEPT ![n] = Latest(rows', n)]
    /\ persisted' = persisted \cup {<<n, i>>}

(* execute_python(code, tool_name) is awaiting the executor. *)
StartExecute(c, n, i) ==
    /\ up
    /\ call[c] = Idle
    /\ call' = [call EXCEPT ![c] = [op |-> "execute", name |-> n, impl |-> i]]
    /\ UNCHANGED <<rows, up, registry, persisted, counts, earned>>

(* The execution failed: the caller gets the error, nothing is counted. *)
ExecuteFails(c) ==
    /\ call[c].op = "execute"
    /\ call' = [call EXCEPT ![c] = Idle]
    /\ UNCHANGED <<rows, up, registry, persisted, counts, earned>>

(* A success of p, not yet persisted, under the promotion lock: the counter *)
(* moves, and at the threshold the tool is promoted.  If the store raises,  *)
(* the counter has moved and nothing else has.                              *)
Count(p) ==
    LET count == Saturate(counts[p] + 1)
    IN  /\ counts' = [counts EXCEPT ![p] = count]
        /\ IF count >= Threshold
           THEN \/ Promote(p[1], p[2])
                \/ UNCHANGED <<rows, registry, persisted>>
           ELSE UNCHANGED <<rows, registry, persisted>>

(* The execution succeeded; only the threshold policy looks at successes. *)
ExecuteSucceeds(c) ==
    LET p == <<call[c].name, call[c].impl>>
    IN  /\ call[c].op = "execute"
        /\ earned' = [earned EXCEPT ![p] = IF p \in persisted THEN @ ELSE Saturate(@ + 1)]
        /\ IF Policy = "threshold" /\ p \notin persisted
           THEN Count(p)
           ELSE UNCHANGED <<rows, registry, persisted, counts>>
        /\ call' = [call EXCEPT ![c] = Idle]
        /\ UNCHANGED up

(* A client calls a promoted tool: its runner awaits the executor with the *)
(* name, version and code captured when it was registered.                 *)
StartRun(c, n) ==
    /\ up
    /\ call[c] = Idle
    /\ registry[n] # NoTool
    /\ call' = [call EXCEPT ![c] = [op |-> "run", name |-> n,
                                    version |-> registry[n].version,
                                    impl |-> registry[n].impl]]
    /\ UNCHANGED <<rows, up, registry, persisted, counts, earned>>

(* record_invocation(name, version) after the execution, failed or not: an *)
(* UPDATE of the row with that key, silent when there is none.             *)
FinishRun(c) ==
    LET hit == {r \in rows : r.name = call[c].name /\ r.version = call[c].version}
    IN  /\ call[c].op = "run"
        /\ \A r \in hit : r.invocations < MaxInvocations
        /\ rows' = (rows \ hit) \cup
                     {[r EXCEPT !.invocations = @ + 1] : r \in hit}
        /\ call' = [call EXCEPT ![c] = Idle]
        /\ UNCHANGED <<up, registry, persisted, counts, earned>>

(* promote_tool: explicit, past the counters and the lock. *)
PromoteTool(n, i) ==
    /\ up
    /\ Promote(n, i)
    /\ UNCHANGED <<up, counts, call, earned>>

(* Mutant of ForgetTool: the hash set is not re-read. *)
ForgetToolKeepsHashes(n, versions) ==
    /\ up
    /\ rows' = {r \in rows : ~(r.name = n /\ r.version \in versions)}
    /\ UNCHANGED <<up, registry, persisted, counts, call, earned>>

(* forget_tool: one version or all of a name; the hashes are re-read, the  *)
(* registration and the counters stay.                                     *)
ForgetTool(n, versions) ==
    /\ up
    /\ rows' = {r \in rows : ~(r.name = n /\ r.version \in versions)}
    /\ persisted' = Hashes(rows')
    /\ UNCHANGED <<up, registry, counts, call, earned>>

Next ==
    \/ Boot
    \/ Stop
    \/ \E c \in Calls :
          \/ \E n \in Names, i \in Impls : StartExecute(c, n, i)
          \/ ExecuteFails(c)
          \/ ExecuteSucceeds(c)
          \/ \E n \in Names : StartRun(c, n)
          \/ FinishRun(c)
    \/ \E n \in Names, i \in Impls : PromoteTool(n, i)
    \/ \E n \in Names : \/ ForgetTool(n, 1..MaxVersion)
                        \/ \E v \in 1..MaxVersion : ForgetTool(n, {v})

Spec == Init /\ [][Next]_vars

-----------------------------------------------------------------------------
(* The in-memory hash set the promotion check trusts is exactly what the   *)
(* table holds, through promotions, deletions and restarts.                *)
HashesExact == up => persisted = Hashes(rows)

(* A served tool is never older than the stored one: the registry may be   *)
(* ahead (its version was forgotten), never behind, and when it names the  *)
(* stored version it runs the stored code.                                 *)
RegistryNotBehind ==
    up => \A r \in rows :
             /\ registry[r.name] # NoTool
             /\ registry[r.name].version >= r.version
             /\ registry[r.name].version = r.version =>
                   registry[r.name].impl = r.impl

(* The history of a name can be audited: one row per version, and a version *)
(* always differs from the one before it.                                   *)
HistoryAuditable ==
    \A r, s \in rows :
        r.name = s.name =>
            /\ r.version = s.version => r = s
            /\ s.version = r.version + 1 => r.impl # s.impl

(* "Track which (name, hash) pairs are already persisted to avoid           *)
(* re-promote": automatic promotion never stores code the name already has, *)
(* in any version.                                                          *)
AutoPromotionIsNew ==
    [][\A c \in Calls :
         call[c].op = "execute" /\ call'[c] = Idle =>
             \A p \in Hashes(rows' \ rows) : p \notin Hashes(rows)]_vars

(* "N successful invocations of an unpersisted tool before auto-promotion": *)
(* whatever restarts, deletions and explicit promotions come between, what  *)
(* the counters promote did succeed Threshold times while it was not stored. *)
AutoPromotionIsEarned ==
    [][\A c \in Calls :
         call[c].op = "execute" /\ call'[c] = Idle /\ rows' # rows =>
             earned'[<<call[c].name, call[c].impl>>] >= Threshold]_vars

(* What the server holds in memory agrees with what its table holds, and   *)
(* the table with itself.                                                  *)
Consistent == TypeOK /\ HashesExact /\ RegistryNotBehind /\ HistoryAuditable

(* Whatever automatic promotion stores is new to its name and has earned it. *)
AutoPromotionIsSound == AutoPromotionIsNew /\ AutoPromotionIsEarned
=============================================================================
