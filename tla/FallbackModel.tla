--------------------------- MODULE FallbackModel ---------------------------
(***************************************************************************)
(* The model fallback chain (orqest/healing/fallback.py).                  *)
(*                                                                         *)
(* Several callers share one FallbackModel.  A call captures the range of  *)
(* models it may try from the shared index when it starts, walks it, and   *)
(* moves the shared index past every model that fails transiently.  The    *)
(* awaits of the code are the model call, the time the consumer holds a    *)
(* yielded stream, and the two bus emissions; another caller may run at    *)
(* each of them, and a caller may be cancelled at each of them.            *)
(*                                                                         *)
(* Models are 0 .. N-1 as in the code, so idx = N means "chain exhausted". *)
(* Names that the watchdogs of the package (module Healing) have as well    *)
(* are prefixed with Chain, so that HealingProofs can extend both.          *)
(***************************************************************************)
EXTENDS Integers

CONSTANTS
    Callers,     \* tasks that call the shared FallbackModel
    N            \* len(self._models)

ASSUME NAssumption == N \in Nat \ {0}

VARIABLES
    idx,       \* self._idx, shared by all callers
    pc,        \* where each caller is
    kind,      \* which method it called: request or request_stream
    cur,       \* its loop variable i
    yielded,   \* whether it has already handed a stream to its consumer
    start,     \* history: where its range started
    tried,     \* history: models that failed transiently in this call
    failed,    \* history: models that failed transiently in any call
    overlapped \* history: two of the calls in flight, or of the last that
               \* were, ran at the same time

chainVars == <<idx, pc, kind, cur, yielded, start, tried, failed, overlapped>>

InFlight == {"calling", "streaming", "emitting", "exhausting"}
Finished == {"idle", "answered", "raised", "exhausted", "broken", "cancelled"}

ChainTypeOK ==
    /\ idx \in 0..N
    /\ pc \in [Callers -> InFlight \cup Finished]
    /\ kind \in [Callers -> {"request", "stream"}]
    /\ cur \in [Callers -> 0..N]
    /\ yielded \in [Callers -> BOOLEAN]
    /\ start \in [Callers -> 0..N]
    /\ tried \in [Callers -> SUBSET (0..(N - 1))]
    /\ failed \in SUBSET (0..(N - 1))
    /\ overlapped \in BOOLEAN

ChainInit ==
    /\ idx = 0
    /\ pc = [c \in Callers |-> "idle"]
    /\ kind = [c \in Callers |-> "request"]
    /\ cur = [c \in Callers |-> 0]
    /\ yielded = [c \in Callers |-> FALSE]
    /\ start = [c \in Callers |-> 0]
    /\ tried = [c \in Callers |-> {}]
    /\ failed = {}
    /\ overlapped = FALSE

(* The loop head for model m: try it, or fall out of an empty range. *)
TryFrom(m) == IF m < N THEN "calling" ELSE "exhausting"

(* request() or request_stream() is entered: range(self._idx, len) is      *)
(* evaluated once, here.                                                   *)
Enter(c, k) ==
    /\ pc[c] \in Finished
    /\ pc' = [pc EXCEPT ![c] = TryFrom(idx)]
    /\ kind' = [kind EXCEPT ![c] = k]
    /\ cur' = [cur EXCEPT ![c] = idx]
    /\ yielded' = [yielded EXCEPT ![c] = FALSE]
    /\ start' = [start EXCEPT ![c] = idx]
    /\ tried' = [tried EXCEPT ![c] = {}]
    /\ overlapped' = \E d \in Callers : pc[d] \in InFlight
    /\ UNCHANGED <<idx, failed>>

(* Mutant of Answer: a success sends the next call back to the primary. *)
AnswerResets(c) ==
    /\ pc[c] = "calling"
    /\ kind[c] = "request"
    /\ pc' = [pc EXCEPT ![c] = "answered"]
    /\ idx' = 0
    /\ UNCHANGED <<kind, cur, yielded, start, tried, failed, overlapped>>

(* The model answers a plain request; the index stays where it is. *)
Answer(c) ==
    /\ pc[c] = "calling"
    /\ kind[c] = "request"
    /\ pc' = [pc EXCEPT ![c] = "answered"]
    /\ UNCHANGED <<idx, kind, cur, yielded, start, tried, failed, overlapped>>

(* The model opens its stream.  The generator yields it; a second yield in *)
(* one call makes contextlib raise RuntimeError instead of the stream.     *)
OpenStream(c) ==
    /\ pc[c] = "calling"
    /\ kind[c] = "stream"
    /\ pc' = [pc EXCEPT ![c] = IF yielded[c] THEN "broken" ELSE "streaming"]
    /\ yielded' = [yielded EXCEPT ![c] = TRUE]
    /\ UNCHANGED <<idx, kind, cur, start, tried, failed, overlapped>>

(* The consumer leaves its block normally and the model's own exit is fine. *)
CloseStream(c) ==
    /\ pc[c] = "streaming"
    /\ pc' = [pc EXCEPT ![c] = "answered"]
    /\ UNCHANGED <<idx, kind, cur, yielded, start, tried, failed, overlapped>>

(* An exception the predicate calls transient, raised by the model call, or *)
(* thrown in at the yield: both are inside the try block.                   *)
FailTransient(c) ==
    /\ pc[c] \in {"calling", "streaming"}
    /\ pc' = [pc EXCEPT ![c] = "emitting"]
    /\ tried' = [tried EXCEPT ![c] = @ \cup {cur[c]}]
    /\ failed' = failed \cup {cur[c]}
    /\ UNCHANGED <<idx, kind, cur, yielded, start, overlapped>>

(* Any other exception is re-raised at once and leaves the index alone. *)
FailFatal(c) ==
    /\ pc[c] \in {"calling", "streaming"}
    /\ pc' = [pc EXCEPT ![c] = "raised"]
    /\ UNCHANGED <<idx, kind, cur, yielded, start, tried, failed, overlapped>>

(* Mutant of Advance: the loop goes on from the shared index, which another *)
(* caller may have moved, instead of from its own range.                    *)
AdvanceFromShared(c) ==
    /\ pc[c] = "emitting"
    /\ idx' = IF idx > cur[c] THEN idx ELSE cur[c] + 1
    /\ cur' = [cur EXCEPT ![c] = idx']
    /\ pc' = [pc EXCEPT ![c] = TryFrom(idx')]
    /\ UNCHANGED <<kind, yielded, start, tried, failed, overlapped>>

(* Mutant of Advance: the failed model is retried instead of passed over. *)
AdvanceRetries(c) ==
    /\ pc[c] = "emitting"
    /\ idx' = cur[c] + 1
    /\ pc' = [pc EXCEPT ![c] = "calling"]
    /\ UNCHANGED <<kind, cur, yielded, start, tried, failed, overlapped>>

(* _emit_fallback returns: the caller stores ITS i + 1, whatever the shared *)
(* index became meanwhile, and goes on with its own range.                  *)
Advance(c) ==
    /\ pc[c] = "emitting"
    /\ idx' = cur[c] + 1
    /\ cur' = [cur EXCEPT ![c] = @ + 1]
    /\ pc' = [pc EXCEPT ![c] = TryFrom(cur[c] + 1)]
    /\ UNCHANGED <<kind, yielded, start, tried, failed, overlapped>>

(* _emit_chain_exhausted returns and the RuntimeError is raised. *)
Exhaust(c) ==
    /\ pc[c] = "exhausting"
    /\ pc' = [pc EXCEPT ![c] = "exhausted"]
    /\ UNCHANGED <<idx, kind, cur, yielded, start, tried, failed, overlapped>>

(* CancelledError is no Exception: it leaves the method from any await. *)
CancelCall(c) ==
    /\ pc[c] \in InFlight
    /\ pc' = [pc EXCEPT ![c] = "cancelled"]
    /\ UNCHANGED <<idx, kind, cur, yielded, start, tried, failed, overlapped>>

(* What a caller's own task does once it has called. *)
Step(c) ==
    \/ Answer(c)
    \/ OpenStream(c)
    \/ CloseStream(c)
    \/ FailTransient(c)
    \/ FailFatal(c)
    \/ Advance(c)
    \/ Exhaust(c)

ChainNext ==
    \E c \in Callers :
        \/ \E k \in {"request", "stream"} : Enter(c, k)
        \/ Step(c)
        \/ CancelCall(c)

ChainSpec == ChainInit /\ [][ChainNext]_chainVars

(* Every awaited model call, consumer and emission ends at some time. *)
Fairness == \A c \in Callers : WF_chainVars(Step(c))

FairChainSpec == ChainSpec /\ Fairness

-----------------------------------------------------------------------------
(* A model is passed over only for cause: whatever order concurrent callers *)
(* store the shared index in, every model below it has failed transiently,  *)
(* so no call starts behind a model that nobody ever saw fail.              *)
SkippedHaveFailed == 0..(idx - 1) \subseteq failed

(* A call's walk is its own: it has tried exactly the models from the one   *)
(* it started at up to the one it is at, each once, in order, although      *)
(* other callers move the shared index while it waits.                      *)
WalkIsContiguous ==
    \A c \in Callers :
        /\ pc[c] = "calling" => tried[c] = start[c]..(cur[c] - 1)
        /\ pc[c] \in {"exhausting", "exhausted"} =>
              tried[c] = start[c]..(N - 1)

(* Every call comes to an end: the chain is finite and never restarted. *)
CallsEnd ==
    \A c \in Callers : pc[c] \in InFlight ~> pc[c] \in Finished

(* The part of it that holds: as long as calls do not overlap. *)
StickyAlone == [][~overlapped' => idx' >= idx]_chainVars

(* Each call walks the chain soundly, however others move the shared index: *)
(* it starts behind models that failed and tries each of its own once.      *)
WalksAreSound == ChainTypeOK /\ SkippedHaveFailed /\ WalkIsContiguous
=============================================================================
