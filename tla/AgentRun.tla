----------------------------- MODULE AgentRun -------------------------------
(***************************************************************************)
(* Agents over one shared conversation state: BaseAgent.call_model and its *)
(* streaming variants (orqest/agents/base_agent.py) on the                 *)
(* message_history of a GlobalState; run_enriched with its confidence      *)
(* protocols (orqest/metacognition/protocol.py); and the two tools that    *)
(* wrap an agent, SubAgentTool (orqest/compound/sub_agent_tool.py) and     *)
(* CompoundTool, whose own steps are the module ToolCall.                  *)
(*                                                                         *)
(* Turns run in slots: "main" for the tool, "sample" for the extra sample  *)
(* of EnsembleProtocol, "other" for one more user of the same state.  The  *)
(* pydantic-ai agent loop is external: it runs the history processors      *)
(* before each request and goes on from what they return.                  *)
(***************************************************************************)
EXTENDS History

CONSTANTS
    Hooks, MaxAttempts, \* of ToolCall
    MaxRounds,          \* bound: rounds of tool calls in a turn
    MaxRefinements,     \* max_refinements of SubAgentTool
    SavedSessions       \* serialized histories the state may be restored from

VARIABLES
    client,    \* which tool is run, "sub" or "compound"; never changes
    manager,   \* whether the agent has a context_manager; never changes
    salient,   \* the kinds of message salience_fn scores high; never changes
    protocol,  \* how SubAgentTool runs the agent: run, or run_enriched with a
               \* protocol that runs it no more or once more; never changes
    messages,  \* state.message_history
    turn,      \* slot -> the turn in it
    shown,     \* history: turn -> the turns its first request showed the model
    sub,       \* the SubAgentTool call
    committed  \* the turn whose result state_updater last wrote, 0 for none

VARIABLES wrapped, site, hook, active, attempt, runs, effects, updates, unannounced,
          aborted, ranAborted

Call == INSTANCE ToolCall
callVars == <<wrapped, site, hook, active, attempt, runs, effects, updates, unannounced,
              aborted, ranAborted>>

configuration == <<client, manager, salient, protocol>>
conversation == <<messages, turn, shown>>
subVars == <<sub, committed>>
vars == <<configuration, conversation, subVars, callVars>>

Slots == {"main", "other", "sample"}
Protocols == {"plain", "single", "ensemble"}
MaxTurns == MaxAttempts + 2 * MaxRefinements + 3  \* bound: more than one call and the other user take
Turns == 0..MaxTurns
Used == {t \in Turns : shown[t] # {}}
NextTurn == CHOOSE t \in Turns : t \notin Used

TurnIds(ms) == {ms[i].turn : i \in {j \in DOMAIN ms : ms[j].kind = "reply"}}

(* _validate_message_history: anything corrupt is an empty history. *)
Deserialize(saved) == IF saved.valid THEN saved.messages ELSE <<>>

Idle == [pc |-> "idle", id |-> 0, window |-> <<>>, round |-> 0]

Messages ==
    [turn : Turns, kind : {"prompt", "call", "return", "reply", "summary"},
     round : 0..MaxRounds, size : 1..LongResult]

TurnStates ==
    [pc : {"idle", "request", "sent", "answered", "done", "failed"}, id : Turns,
     round : 0..MaxRounds, window : Seq(Messages)]

(* What a conversation that was saved between turns looks like. *)
Opened(ms) == ms = <<>> \/ ms[1].kind = "prompt"
CallsAnswered(ms) == \A i \in DOMAIN ms : ms[i].kind = "call" => i < Len(ms) /\ Answers(ms[i + 1], ms[i])

ASSUME LimitsAssumption ==
    {Hooks, MaxAttempts} \subseteq Nat \ {0} /\ {MaxRounds, MaxRefinements} \subseteq Nat
ASSUME SessionsAssumption ==
    \A s \in SavedSessions :
        /\ s.valid \in BOOLEAN
        /\ s.valid => /\ s.messages \in Seq(Messages)
                      /\ Opened(s.messages) /\ CallsAnswered(s.messages)
                      /\ \A i \in DOMAIN s.messages : s.messages[i].turn = 0

(* The local variables of SubAgentTool.run and the result it makes of them.*)
SubAgentResult ==
    [pc : {"agent", "enrich", "execute", "update", "evaluate", "returned", "raised"},
     result : Turns, pending : Turns, iterations : 1..(MaxRefinements + 1), refined : BOOLEAN,
     exit : {"passed", "max_refinements", "refinement_failed_keep_original"},
     confidence : Turns, accepted : BOOLEAN, torn : BOOLEAN]

TypeOK ==
    /\ Call!TypeOK
    /\ client \in {"sub", "compound"} /\ manager \in BOOLEAN /\ protocol \in Protocols
    /\ messages \in Seq(Messages)
    /\ turn \in [Slots -> TurnStates]
    /\ shown \in [Turns -> SUBSET Turns]
    /\ sub \in SubAgentResult
    /\ committed \in Turns

Init ==
    /\ client \in {"sub", "compound"}
    /\ manager \in BOOLEAN
    /\ salient \in IF manager THEN {{}, {"call"}, {"return"}} ELSE {{}}
    /\ protocol \in IF client = "sub" THEN Protocols ELSE {"plain"}
    /\ messages \in {Deserialize(s) : s \in SavedSessions}
    /\ turn = [s \in Slots |-> Idle]
    /\ shown = [t \in Turns |-> IF t = 0 THEN {0} ELSE {}]
    /\ sub = [pc |-> "agent", iterations |-> 1, result |-> 0, pending |-> 0, refined |-> FALSE,
              exit |-> "passed", confidence |-> 0, accepted |-> FALSE, torn |-> FALSE]
    /\ committed = 0
    /\ Call!Init
    /\ client = "sub" => ~wrapped

-----------------------------------------------------------------------------
(* call_model up to its await: the history is read, and pydantic-ai        *)
(* appends the prompt to it.  A turn is shown itself, too.                 *)
StartTurn(s) ==
    /\ turn[s].pc = "idle" /\ Used # Turns
    /\ shown' = [shown EXCEPT ![NextTurn] = TurnIds(messages) \cup {NextTurn}]
    /\ turn' = [turn EXCEPT ![s] =
           [pc |-> "request", id |-> NextTurn, round |-> 0,
            window |-> Append(messages, Message(NextTurn, "prompt", 0, 1))]]
    /\ UNCHANGED messages

(* The history processors run, and what they return is sent. *)
Request(s) ==
    /\ turn[s].pc = "request"
    /\ turn' = [turn EXCEPT ![s].pc = "sent",
                            ![s].window = Processed(turn[s].window, manager, salient)]
    /\ UNCHANGED <<messages, shown>>

(* The model calls a tool, whose result is appended, or replies. *)
Answer(s) ==
    LET t == turn[s]
        Add(ms) == t.window \o ms
    IN  /\ t.pc = "sent"
        /\ \/ \E size \in {1, LongResult} :
                 /\ t.round < MaxRounds
                 /\ turn' = [turn EXCEPT ![s].pc = "request", ![s].round = t.round + 1,
                        ![s].window = Add(<<Message(t.id, "call", t.round + 1, 1),
                                            Message(t.id, "return", t.round + 1, size)>>)]
           \/ turn' = [turn EXCEPT ![s].pc = "answered",
                                   ![s].window = Add(<<Message(t.id, "reply", 0, 1)>>)]
           \/ turn' = [turn EXCEPT ![s].pc = "failed", ![s].window = <<>>]
        /\ UNCHANGED <<messages, shown>>

(* Mutant of Finish: only the new messages are appended to the history. *)
FinishAppending(s) ==
    /\ turn[s].pc = "answered"
    /\ messages' = messages \o SelectSeq(turn[s].window, LAMBDA m : m.turn = turn[s].id)
    /\ turn' = [turn EXCEPT ![s].pc = "done", ![s].window = <<>>]
    /\ UNCHANGED shown

(* The end of call_model, or of a stream that was read to its end: the     *)
(* messages of this run become the history, whatever it holds by now.      *)
Finish(s) ==
    /\ turn[s].pc = "answered"
    /\ messages' = turn[s].window
    /\ turn' = [turn EXCEPT ![s].pc = "done", ![s].window = <<>>]
    /\ UNCHANGED shown

(* The other user streams and stops reading, or is cancelled. *)
Abandon ==
    /\ turn["other"].pc \in {"request", "sent", "answered"}
    /\ turn' = [turn EXCEPT !["other"].pc = "failed", !["other"].window = <<>>]
    /\ UNCHANGED <<messages, shown>>

Ended(s) == turn[s].pc \in {"done", "failed"}
EmptySlots(S) == turn' = [s \in Slots |-> IF s \in S THEN Idle ELSE turn[s]]
                 /\ UNCHANGED <<messages, shown>>
-----------------------------------------------------------------------------
(* SubAgentTool.run.  An exception of the first pass, of the evaluator     *)
(* before the loop and of build_refinement_prompt leaves run; one inside a *)
(* refinement ends it with the result so far.                              *)
Raise ==
    sub' = IF sub.result = 0
           THEN [sub EXCEPT !.pc = "raised"]
           ELSE [sub EXCEPT !.pc = "returned", !.exit = "refinement_failed_keep_original"]

SubStarts ==
    /\ sub.pc = "agent"
    /\ StartTurn("main")
    /\ UNCHANGED subVars

(* The agent returns or raises; run_enriched goes on to its protocol. *)
SubAgentRan ==
    /\ sub.pc = "agent"
    /\ Ended("main")
    /\ IF turn["main"].pc = "failed" THEN Raise /\ EmptySlots({"main"})
       ELSE /\ sub' = [sub EXCEPT !.pc = IF protocol = "plain" THEN "execute" ELSE "enrich",
                                  !.pending = turn["main"].id]
            /\ EmptySlots({"main"})
    /\ UNCHANGED committed

(* EnsembleProtocol.enrich: another run of the agent on the same state. *)
Sample ==
    /\ sub.pc = "enrich" /\ protocol = "ensemble"
    /\ StartTurn("sample")
    /\ UNCHANGED subVars

(* What a protocol may attach to the output of turn t: the output's own    *)
(* confidence, or 0 for none.  A rating that fails and a field that is no  *)
(* number give none; so does an ensemble without a second sample, or whose *)
(* agreement_fn raises.                                                    *)
StructuredConfidence(t) == {0, t}
RatedConfidence(t) == {0, t}
EnsembleConfidence(t) == IF turn["sample"].pc = "done" THEN {0, t} ELSE {0}

(* run_enriched returns: the output of the first run, and a confidence. *)
Enriched ==
    /\ sub.pc = "enrich"
    /\ protocol = "ensemble" => Ended("sample")
    /\ \E c \in IF protocol = "ensemble" THEN EnsembleConfidence(sub.pending)
                ELSE StructuredConfidence(sub.pending) \cup RatedConfidence(sub.pending) :
          sub' = [sub EXCEPT !.pc = "execute", !.confidence = c]
    /\ EmptySlots({"sample"})
    /\ UNCHANGED committed

Execute ==
    /\ sub.pc = "execute"
    /\ sub' = [sub EXCEPT !.pc = "update"] \/ Raise
    /\ UNCHANGED <<committed, conversation>>

Accept == [sub EXCEPT !.pc = "evaluate", !.result = sub.pending, !.refined = sub.result # 0,
                      !.iterations = IF sub.result = 0 THEN 1 ELSE sub.iterations + 1]

(* Mutant of StateUpdate: the state is updated once the evaluator accepts. *)
StateUpdateFirstOnly ==
    /\ sub.pc = "update"
    /\ sub' = Accept
    /\ committed' = IF sub.result = 0 THEN sub.pending ELSE committed
    /\ UNCHANGED conversation

(* state_updater; it may raise before or after it has written. *)
StateUpdate ==
    /\ sub.pc = "update"
    /\ \/ sub' = Accept /\ committed' = sub.pending
       \/ Raise /\ UNCHANGED committed
       \/ /\ sub' = [sub EXCEPT !.torn = TRUE,
                       !.pc = IF sub.result = 0 THEN "raised" ELSE "returned",
                       !.exit = IF sub.result = 0 THEN @ ELSE "refinement_failed_keep_original"]
          /\ committed' = sub.pending
    /\ UNCHANGED conversation

(* The evaluator, and for a result it rejects the prompt of the next       *)
(* refinement.  The evaluator raises out of run after the first pass only. *)
Evaluate ==
    /\ sub.pc = "evaluate"
    /\ \/ \E passed \in BOOLEAN :
             /\ (passed \/ sub.iterations > MaxRefinements)
             /\ sub' = [sub EXCEPT !.accepted = passed, !.pc = "returned",
                                   !.exit = IF passed THEN "passed" ELSE "max_refinements"]
       \/ sub.iterations <= MaxRefinements /\ sub' = [sub EXCEPT !.pc = "agent", !.pending = 0]
       \/ sub.iterations <= MaxRefinements /\ sub' = [sub EXCEPT !.pc = "raised"]
       \/ sub.refined /\ Raise
    /\ UNCHANGED <<committed, conversation>>

SubAgentTool ==
    /\ client = "sub"
    /\ \/ SubStarts \/ SubAgentRan \/ Sample \/ Enriched
       \/ Execute \/ StateUpdate \/ Evaluate
    /\ UNCHANGED <<configuration, callVars>>
-----------------------------------------------------------------------------
(* CompoundTool.run: its agent is the main turn; the other steps are those *)
(* of ToolCall, which never touch the conversation.                        *)
CompoundAgentStarts ==
    /\ site = "agent"
    /\ StartTurn("main")
    /\ UNCHANGED callVars

CompoundAgentRan ==
    /\ Ended("main")
    /\ Call!Agent
    /\ (site' = "before") <=> (turn["main"].pc = "done")
    /\ EmptySlots({"main"})

CompoundTool ==
    /\ client = "compound"
    /\ \/ CompoundAgentStarts
       \/ CompoundAgentRan
       \/ site # "agent" /\ Call!Next /\ UNCHANGED conversation
    /\ UNCHANGED <<configuration, subVars>>

-----------------------------------------------------------------------------
TurnStep(s) == Request(s) \/ Answer(s) \/ Finish(s)

Conversation ==
    /\ \/ \E s \in Slots : TurnStep(s)
       \/ StartTurn("other")
       \/ Abandon
    /\ UNCHANGED <<configuration, subVars, callVars>>

Next == SubAgentTool \/ CompoundTool \/ Conversation

Spec == Init /\ [][Next]_vars

-----------------------------------------------------------------------------
(* What a provider accepts of a window: every tool return has its call     *)
(* before it, the first message of the conversation and the newest one are *)
(* there, and - unless a salience function may rescue a call and not its   *)
(* return - every call is answered.  Holds for any mixture of compaction   *)
(* rounds, because each works on what the earlier ones left.               *)
WindowAccepted ==
    \A s \in Slots : turn[s].pc = "sent" =>
        LET w == turn[s].window
        IN  /\ \A i \in DOMAIN w : w[i].kind = "return" => \E j \in 1..(i - 1) : Answers(w[i], w[j])
            /\ w[1].kind = "prompt"
            /\ w[Len(w)].turn = turn[s].id /\ w[Len(w)].round = turn[s].round
            /\ "call" \notin salient =>
                  \A i \in DOMAIN w : w[i].kind = "call" => \E j \in DOMAIN w : Answers(w[j], w[i])
            /\ TruncatedHistory > 0 => Len(w) <= TruncatedHistory + 2

(* Whatever runs at the same time, the history reads as one conversation:  *)
(* each turn in it was shown the turns before it.  Concurrent turns cost   *)
(* each other's messages but are never spliced, and a stream that was      *)
(* abandoned leaves nothing.                                               *)
OneConversation ==
    \A i \in DOMAIN messages : \A j \in 1..(i - 1) :
        {messages[i].kind, messages[j].kind} = {"reply"} => messages[j].turn \in shown[messages[i].turn]

(* SubAgentTool: what is returned is what the state holds, unless the      *)
(* updater itself failed half-way; its exit reason and its iterations tell *)
(* how it got there; a confidence belongs to the result returned with it,  *)
(* unless a refinement failed.                                             *)
ResultIsCommitted ==
    sub.pc = "returned" =>
        /\ ~sub.torn => sub.result = committed
        /\ sub.exit = "passed" <=> sub.accepted
        /\ sub.exit = "max_refinements" => sub.iterations = 1 + MaxRefinements
        /\ sub.exit # "refinement_failed_keep_original" => sub.confidence \in {0, sub.result}

(* CompoundTool and run_with_retry, as ToolCall states them: bounded       *)
(* re-execution, one update for a call that returned and none for one that *)
(* raised, no hidden failure, no execution after a bare abort.             *)
CompoundSound ==
    TypeOK /\ Call!RunsBounded /\ Call!UpdatedIffReturned /\ Call!ReturnsSuccess /\ Call!BareAbortHalts
=============================================================================
