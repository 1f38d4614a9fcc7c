--------------------------- MODULE RuntimeTopology ---------------------------
(***************************************************************************)
(* Topologies designed per request (orqest/autonomy/runtime.py and         *)
(* topology_orchestrator.py): a request looks its goal up in the cache,    *)
(* has the designer agent propose a specification when nothing usable is   *)
(* found, caches the proposal before it has run, hydrates and runs it, and *)
(* records the outcome.  Requests interleave at every await, share the     *)
(* cache and the statistics, and the registries the specifications refer   *)
(* to change under them.                                                   *)
(***************************************************************************)
EXTENDS Integers, Sequences, FiniteSets

CONSTANTS
    Requests,      \* calls of execute or design_and_run
    Goals,
    Specs,         \* what the designer may propose
    Fallback,      \* fallback_spec
    None,
    Settings,      \* of the designer: sets of [cache, verify, fallback]
    MaxSize,       \* max_size of the LRU cache
    MaxEntries,    \* bound: entries of the memory; it refuses more
    Patience       \* failures until an entry is below min_reliability

ASSUME RequestsAssumption == IsFiniteSet(Requests)

(* InMemoryLRU insists on max_size >= 1. *)
ASSUME SizeAssumption == MaxSize \in Nat \ {0} /\ MaxEntries \in Nat /\ Patience \in Nat

ASSUME SettingsAssumption ==
    Settings \subseteq [cache : {"none", "lru", "memory"}, verify : BOOLEAN,
                       fallback : {None, Fallback}]

VARIABLES
    cache,         \* kind of cache: "none", "lru" or "memory"
    verify,        \* verify_on_hit
    fallback,      \* fallback_spec or None
    lru,           \* _items, oldest first: sequence of [goal, spec]
    memory,        \* the store's entries: sequence of [goal, spec, trust]
    hydratable,    \* specs whose names are in the registries
    stats,         \* _CacheStats
    pc, goal, spec, entry,   \* per request; entry: "execute" or "design_and_run"
    hitsBefore, cacheHit,    \* per request: the locals of execute
    cached, overlapped,      \* history: served from the cache; another was meanwhile
    proven, abandoned        \* history: (goal, spec) that succeeded; that was given up

designer == <<cache, verify, fallback, hydratable>>
request == <<goal, entry, hitsBefore>>
history == <<cached, overlapped, proven, abandoned>>
vars == <<designer, lru, memory, stats, pc, spec, cacheHit, request, history>>

Proposals == Specs \cup {Fallback}
Ended == {"done", "raised", "cancelled", "escaped"}

_CacheStats == [lookups : Nat, hits : Nat, misses : Nat, stale_invalidations : Nat,
                designs : Nat, design_failures : Nat, fallback_returns : Nat]

Item == [goal : Goals, spec : Proposals]

(* What MemoryStoreCache keeps of a topology: its goal is the content, and  *)
(* its reliability decays with failures.                                   *)
MemoryEntry == [goal : Goals, spec : Proposals, trust : 0..Patience]

TypeOK ==
    /\ [cache |-> cache, verify |-> verify, fallback |-> fallback] \in Settings
    /\ lru \in Seq(Item) /\ Len(lru) <= MaxSize
    /\ memory \in Seq(MemoryEntry)
    /\ hydratable \subseteq Proposals
    /\ stats \in _CacheStats
    /\ pc \in [Requests -> {"idle", "lookup", "designing", "storing", "designed", "running",
                            "recording", "recording_failure"} \cup Ended]
    /\ goal \in [Requests -> Goals \cup {None}]
    /\ spec \in [Requests -> Proposals \cup {None}]
    /\ entry \in [Requests -> {"execute", "design_and_run"}]
    /\ hitsBefore \in [Requests -> Nat]
    /\ cacheHit \in [Requests -> BOOLEAN]

Init ==
    /\ \E s \in Settings : cache = s.cache /\ verify = s.verify /\ fallback = s.fallback
    /\ lru = <<>> /\ memory = <<>>
    /\ hydratable = Proposals
    /\ stats = [lookups |-> 0, hits |-> 0, misses |-> 0, stale_invalidations |-> 0,
                designs |-> 0, design_failures |-> 0, fallback_returns |-> 0]
    /\ pc = [r \in Requests |-> "idle"]
    /\ goal = [r \in Requests |-> None]
    /\ spec = [r \in Requests |-> None]
    /\ entry \in [Requests -> {"execute", "design_and_run"}]
    /\ hitsBefore = [r \in Requests |-> 0]
    /\ cacheHit = [r \in Requests |-> FALSE]
    /\ cached = [r \in Requests |-> FALSE]
    /\ overlapped = [r \in Requests |-> FALSE]
    /\ proven = {} /\ abandoned = {}

Goto(r, s) == pc' = [pc EXCEPT ![r] = s]
Count(fields) == stats' = [f \in DOMAIN stats |-> IF f \in fields THEN stats[f] + 1 ELSE stats[f]]

-----------------------------------------------------------------------------
(* The caches.  NoCache finds and keeps nothing; the LRU is an OrderedDict,*)
(* so a goal has one place in it.                                          *)
Holds(g) == \E i \in DOMAIN lru : lru[i].goal = g
Place(g) == CHOOSE i \in DOMAIN lru : lru[i].goal = g
Without(g) ==
    IF Holds(g)
    THEN SubSeq(lru, 1, Place(g) - 1) \o SubSeq(lru, Place(g) + 1, Len(lru))
    ELSE lru

(* Mutant of LruStore: a failed run leaves the entry. *)
LruKeepsFailed(g, s, success) ==
    LET items == Append(Without(g), [goal |-> g, spec |-> s])
    IN lru' = IF ~success THEN lru
              ELSE IF Len(items) > MaxSize THEN Tail(items) ELSE items

(* A failure removes what is cached for the goal, whatever it is by now; a *)
(* success makes the goal the newest and evicts the oldest beyond max_size.*)
LruStore(g, s, success) ==
    LET items == Append(Without(g), [goal |-> g, spec |-> s])
    IN lru' = IF ~success THEN Without(g)
              ELSE IF Len(items) > MaxSize THEN Tail(items) ELSE items

(* A success adds an entry, though there may be others for the goal; a     *)
(* failure decays what recall finds first, of any reliability.  The store  *)
(* (external) ranks by similarity, and its errors are swallowed.           *)
MemoryStore(g, s, success) ==
    \/ UNCHANGED memory
    \/ /\ success /\ Len(memory) < MaxEntries
       /\ memory' = Append(memory, [goal |-> g, spec |-> s, trust |-> Patience])
    \/ /\ ~success
       /\ \E i \in DOMAIN memory :
             memory' = [memory EXCEPT ![i].trust = IF @ > 0 THEN @ - 1 ELSE 0]

Store(g, s, success) ==
    /\ IF cache = "lru" THEN LruStore(g, s, success) ELSE UNCHANGED lru
    /\ IF cache = "memory" THEN MemoryStore(g, s, success) ELSE UNCHANGED memory

(* What a lookup may find: an entry the memory still trusts, the LRU's     *)
(* item, or nothing.                                                       *)
MemoryLookup(g) == {None} \cup {memory[i].spec : i \in {j \in DOMAIN memory : memory[j].trust > 0}}
LruLookup(g) == IF Holds(g) THEN {lru[Place(g)].spec} ELSE {None}
Lookup(g) ==
    CASE cache = "lru" -> LruLookup(g)
      [] cache = "memory" -> MemoryLookup(g)
      [] OTHER -> {None}

(* move_to_end, when the LRU's item is found. *)
Touch(g) == lru' = IF cache = "lru" /\ Holds(g) THEN Append(Without(g), lru[Place(g)]) ELSE lru

-----------------------------------------------------------------------------
(* Mutant of Request: hits_before keeps the value of the last time. *)
RequestStale(r) ==
    /\ pc[r] = "idle"
    /\ \E g \in Goals : goal' = [goal EXCEPT ![r] = g]
    /\ Count({"lookups"})
    /\ Goto(r, "lookup")
    /\ UNCHANGED <<designer, lru, memory, spec, entry, cacheHit, hitsBefore, history>>

Request(r) ==
    /\ pc[r] = "idle"
    /\ \E g \in Goals : goal' = [goal EXCEPT ![r] = g]
    /\ hitsBefore' = [hitsBefore EXCEPT ![r] = stats.hits]
    /\ Count({"lookups"})
    /\ Goto(r, "lookup")
    /\ UNCHANGED <<designer, lru, memory, spec, entry, cacheHit, history>>

IsHydratable(s) == s \in hydratable

(* The specification is returned to r; execute takes it for a hit when     *)
(* the shared counter has moved.                                           *)
Designed(r, s, hits) ==
    /\ spec' = [spec EXCEPT ![r] = s]
    /\ cacheHit' = [cacheHit EXCEPT ![r] = hits > hitsBefore[r]]
    /\ Goto(r, "designed")

(* Mutant of LookedUp: a stale hit is counted as a miss as well. *)
LookedUpTwice(r) ==
    /\ pc[r] = "lookup"
    /\ Touch(goal[r])
    /\ \E s \in Lookup(goal[r]) :
          IF s # None /\ (~verify \/ IsHydratable(s))
          THEN /\ Count({"hits"})
               /\ Designed(r, s, stats.hits + 1)
               /\ cached' = [cached EXCEPT ![r] = TRUE]
               /\ overlapped' = [q \in Requests |-> q # r \/ overlapped[q]]
          ELSE /\ Count({"misses"} \cup (IF s = None THEN {} ELSE {"stale_invalidations"}))
               /\ Goto(r, "designing")
               /\ UNCHANGED <<spec, cacheHit, cached, overlapped>>
    /\ UNCHANGED <<designer, memory, request, proven, abandoned>>

(* The cache answers: a usable specification is a hit, one that no longer  *)
(* hydrates is stale, and otherwise a new one is designed.                 *)
LookedUp(r) ==
    /\ pc[r] = "lookup"
    /\ Touch(goal[r])
    /\ \E s \in Lookup(goal[r]) :
          IF s # None /\ (~verify \/ IsHydratable(s))
          THEN /\ Count({"hits"})
               /\ Designed(r, s, stats.hits + 1)
               /\ cached' = [cached EXCEPT ![r] = TRUE]
               /\ overlapped' = [q \in Requests |->
                                   overlapped[q] \/ (q # r /\ pc[q] \in {"lookup", "designing", "storing"})]
          ELSE /\ Count(IF s = None THEN {"misses"} ELSE {"stale_invalidations"})
               /\ Goto(r, "designing")
               /\ UNCHANGED <<spec, cacheHit, cached, overlapped>>
    /\ UNCHANGED <<designer, memory, request, proven, abandoned>>

(* An exception leaves design and nothing is counted: hydrating what was   *)
(* found or proposed raises what _is_hydratable does not catch (it catches *)
(* KeyError, ValueError and TypeError), or the prompt cannot be built.     *)
DesignEscapes(r) ==
    /\ \/ /\ pc[r] = "lookup"
          /\ verify /\ Lookup(goal[r]) # {None}
          /\ Touch(goal[r])
       \/ pc[r] = "designing" /\ UNCHANGED lru
    /\ Goto(r, "escaped")
    /\ UNCHANGED <<designer, memory, stats, spec, cacheHit, request, history>>

(* The designer raises, proposes nothing or something that does not        *)
(* hydrate.                                                                *)
HandleDesignFailure(r) ==
    /\ pc[r] = "designing"
    /\ IF fallback # None
       THEN Count({"design_failures", "fallback_returns"}) /\ Designed(r, fallback, stats.hits)
       ELSE Count({"design_failures"}) /\ Goto(r, "raised") /\ UNCHANGED <<spec, cacheHit>>
    /\ UNCHANGED <<designer, lru, memory, request, history>>

DesignFresh(r) ==
    /\ pc[r] = "designing"
    /\ \E s \in {p \in Specs : IsHydratable(p)} : spec' = [spec EXCEPT ![r] = s]
    /\ Count({"designs"})
    /\ Goto(r, "storing")
    /\ UNCHANGED <<designer, lru, memory, request, cacheHit, history>>

(* The proposal is cached as a success before it has run. *)
StoreDesign(r) ==
    /\ pc[r] = "storing"
    /\ Store(goal[r], spec[r], TRUE)
    /\ Designed(r, spec[r], stats.hits)
    /\ UNCHANGED <<designer, stats, request, history>>

(* topology_from_spec: a registry may have lost a name meanwhile, which    *)
(* execute records as a failure and design_and_run does not.               *)
Hydrate(r) ==
    /\ pc[r] = "designed"
    /\ Goto(r, IF IsHydratable(spec[r]) THEN "running"
               ELSE IF entry[r] = "execute" THEN "recording_failure" ELSE "raised")
    /\ abandoned' = IF ~IsHydratable(spec[r]) /\ entry[r] = "design_and_run"
                    THEN abandoned \cup {<<goal[r], spec[r]>>} ELSE abandoned
    /\ UNCHANGED <<designer, lru, memory, stats, spec, cacheHit, request, cached, overlapped, proven>>

Ran(r) ==
    /\ pc[r] = "running"
    /\ Goto(r, "recording") \/ Goto(r, "recording_failure")
    /\ UNCHANGED <<designer, lru, memory, stats, spec, cacheHit, request, history>>

Record(r) ==
    /\ pc[r] \in {"recording", "recording_failure"}
    /\ Store(goal[r], spec[r], pc[r] = "recording")
    /\ proven' = IF pc[r] = "recording" THEN proven \cup {<<goal[r], spec[r]>>} ELSE proven
    /\ Goto(r, IF pc[r] = "recording" THEN "done" ELSE "raised")
    /\ UNCHANGED <<designer, stats, spec, cacheHit, request, cached, overlapped, abandoned>>

(* CancelledError is no Exception: nothing is recorded. *)
Cancel(r) ==
    /\ pc[r] \notin Ended \cup {"idle"}
    /\ Goto(r, "cancelled")
    /\ abandoned' = abandoned \cup {<<goal[r], spec[r]>>}
    /\ UNCHANGED <<designer, lru, memory, stats, spec, cacheHit, request, cached, overlapped, proven>>

(* Names are registered or, with the agents of a plug-in, taken away. *)
RegistryChanges(s) ==
    /\ hydratable' = IF s \in hydratable THEN hydratable \ {s} ELSE hydratable \cup {s}
    /\ UNCHANGED <<cache, verify, fallback, lru, memory, stats, pc, spec, cacheHit, request, history>>

Next ==
    \/ \E r \in Requests :
          \/ Request(r) \/ LookedUp(r) \/ DesignEscapes(r)
          \/ HandleDesignFailure(r) \/ DesignFresh(r) \/ StoreDesign(r)
          \/ Hydrate(r) \/ Ran(r) \/ Record(r)
          \/ Cancel(r)
    \/ \E s \in Specs : RegistryChanges(s)

Spec == Init /\ [][Next]_vars

-----------------------------------------------------------------------------
InFlight(S) == Cardinality({r \in Requests : pc[r] \in S})

(* A specification in the LRU that never succeeded for its goal is being   *)
(* tried right now, or its request was given up without an outcome: a      *)
(* failed run never leaves one behind, whichever request cached it.        *)
UnprovenIsTried ==
    cache = "lru" =>
        \A i \in DOMAIN lru :
            \/ <<lru[i].goal, lru[i].spec>> \in proven \cup abandoned
            \/ \E r \in Requests : /\ goal[r] = lru[i].goal /\ spec[r] = lru[i].spec
                                   /\ pc[r] \in {"designed", "running", "recording", "recording_failure"}

(* execute's cache_hit, derived from the shared counter: every request     *)
(* served from the cache reports it, and one that was not reports it only  *)
(* when another request had a hit while it was being designed.             *)
CacheHitExplained ==
    \A r \in Requests :
        pc[r] \in {"designed", "running", "recording", "recording_failure", "done"} =>
            (cacheHit[r] <=> cached[r] \/ overlapped[r])

(* The statistics add up over concurrent and failed requests: every lookup *)
(* has one outcome and every design one, but for the requests that are     *)
(* cancelled and those whose design is left by an exception that it does   *)
(* not handle.                                                             *)
StatsAddUp ==
    LET searched == stats.hits + stats.misses + stats.stale_invalidations
        designed == stats.designs + stats.design_failures
        left == InFlight({"cancelled"}) + InFlight({"escaped"})
    IN /\ stats.lookups - searched \in InFlight({"lookup"})..(InFlight({"lookup"}) + left)
       /\ stats.misses + stats.stale_invalidations - designed
            \in InFlight({"designing"})..(InFlight({"designing"}) + left)
       /\ stats.fallback_returns \in {0, stats.design_failures}

(* Cache and statistics are consistent over every interleaving.            *)
Consistent == TypeOK /\ StatsAddUp
=============================================================================
