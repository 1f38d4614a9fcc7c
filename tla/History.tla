------------------------------ MODULE History -------------------------------
(***************************************************************************)
(* The message history of an agent and the processors that shorten it      *)
(* before every model request: the compaction of ContextManager            *)
(* (orqest/agents/context_manager.py), the budget of tool results, the     *)
(* window of recent messages and the sweep of orphaned tool returns that   *)
(* BaseAgent (orqest/agents/base_agent.py) puts last.                      *)
(*                                                                         *)
(* A message is a record of its turn, its kind, the round of tool calls it *)
(* belongs to and its size in units of tokens.  "prompt", "return" and     *)
(* "summary" messages are ModelRequests, "call" and "reply" messages       *)
(* ModelResponses; a return answers the call of its turn and round.        *)
(***************************************************************************)
EXTENDS Integers, Sequences, FiniteSets

CONSTANTS
    TruncatedHistory, \* truncated_history: max_messages of keep_recent_messages
    SummarizeAt,      \* effective_budget * summarize_threshold
    TruncateAt,       \* effective_budget * truncate_threshold
    MinRecentTurns,   \* min_recent_turns, at least 2
    MinRecentTokens,  \* min_recent_tokens
    LongResult        \* size of a tool result over the result budget

(* min_recent_turns defaults to 5.  With less than 2 the newest tool return *)
(* would be cut off from its call and swept away.                           *)
ASSUME WindowAssumption == TruncatedHistory \in Nat /\ MinRecentTurns \in Nat /\ MinRecentTurns >= 2
ASSUME SizeAssumption == LongResult \in Nat \ {0}

Message(turn, kind, round, size) ==
    [turn |-> turn, kind |-> kind, round |-> round, size |-> size]

Response(m) == m.kind \in {"call", "reply"}
Answers(ret, call) ==
    call.kind = "call" /\ ret.kind = "return" /\ <<call.turn, call.round>> = <<ret.turn, ret.round>>

(* The messages of ms at the positions S, in order. *)
Nth(S, k) == CHOOSE i \in S : Cardinality({j \in S : j <= i}) = k
At(ms, S) == [k \in 1..Cardinality(S) |-> ms[Nth(S, k)]]

estimate_tokens(ms) ==
    LET upTo[i \in 0..Len(ms)] == IF i = 0 THEN 0 ELSE upTo[i - 1] + ms[i].size
    IN  upTo[Len(ms)]

-----------------------------------------------------------------------------
(* Mutant of RepairOrphans: the sweep leaves everything. *)
RepairNothing(ms) == ms

(* _repair_orphan_tool_returns: drop every return whose call is not before it. *)
RepairOrphans(ms) ==
    At(ms, {i \in DOMAIN ms : ms[i].kind = "return" => \E j \in 1..(i - 1) : Answers(ms[i], ms[j])})

(* budget_tool_results: a result over the budget keeps a preview only. *)
BudgetToolResults(ms) ==
    [i \in DOMAIN ms |-> IF ms[i].kind = "return" /\ ms[i].size >= LongResult
                         THEN [ms[i] EXCEPT !.size = 1] ELSE ms[i]]

(* keep_recent_messages: the last max_messages, the response before them   *)
(* when the cut splits a response from its request, and the first message. *)
KeepRecent(ms) ==
    LET n == TruncatedHistory
        cut == Len(ms) - n + 1
        start == IF ~Response(ms[cut]) /\ Response(ms[cut - 1]) THEN cut - 1 ELSE cut
    IN  IF n <= 0 \/ Len(ms) <= n THEN ms ELSE At(ms, {1} \cup (start..Len(ms)))

(* _summarize_old_turns: outside the first and the most recent messages, a *)
(* call followed by a return is replaced; adjacent pairs share one summary. *)
SummarizeOldTurns(ms) ==
    LET recent == Len(ms) - MinRecentTurns + 1
        pairs == {i \in 2..(recent - 2) : ms[i].kind = "call" /\ ms[i + 1].kind = "return"}
        answered == {i + 1 : i \in pairs}
        absorbed == answered \cup {i \in pairs : i - 1 \in answered}
        summarized == [i \in DOMAIN ms |-> IF i \in pairs
                                           THEN Message(ms[i].turn, "summary", 0, 1) ELSE ms[i]]
    IN  IF Len(ms) <= MinRecentTurns + 1 THEN ms ELSE At(summarized, DOMAIN ms \ absorbed)

(* _emergency_truncate: the first message, the shortest suffix with enough *)
(* messages and tokens, and of the rest those salience_fn scores high;     *)
(* salient holds their kinds.                                              *)
EmergencyTruncate(ms, salient) ==
    LET enough == {r \in 2..Len(ms) : /\ estimate_tokens(SubSeq(ms, r, Len(ms))) >= MinRecentTokens
                                      /\ Len(ms) - r + 1 >= MinRecentTurns}
        recent == IF enough = {} THEN 2 ELSE CHOOSE r \in enough : \A q \in enough : q <= r
    IN  At(ms, {i \in DOMAIN ms : i = 1 \/ i >= recent \/ ms[i].kind \in salient})

(* ContextManager.compact *)
Compact(ms, salient) ==
    LET tokens == estimate_tokens(ms)
    IN  IF tokens > TruncateAt THEN RepairOrphans(EmergencyTruncate(ms, salient))
        ELSE IF tokens > SummarizeAt THEN RepairOrphans(SummarizeOldTurns(ms)) ELSE ms

(* The processors in the order BaseAgent.__init__ puts them. *)
Processed(ms, manager, salient) ==
    RepairOrphans(KeepRecent(BudgetToolResults(IF manager THEN Compact(ms, salient) ELSE ms)))
=============================================================================
