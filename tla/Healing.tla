------------------------------ MODULE Healing ------------------------------
(***************************************************************************)
(* Self-healing around tool calls: the stall and loop watchdogs            *)
(* (orqest/healing/stall.py, loop.py), the hook that turns their           *)
(* detections into decisions (recovery.py), the background poll loop       *)
(* (runner.py) and the tool lifecycle events they live on                  *)
(* (observability/event_bus_hook.py), for several compound flows that      *)
(* share one bus.                                                          *)
(*                                                                         *)
(* The hooks are registered in the documented order, watchdogs first and   *)
(* the publisher second.  Both watchdogs handle an event without           *)
(* suspending, so publishing an event is one step; a healing event may     *)
(* suspend its emitter.                                                    *)
(***************************************************************************)
EXTENDS Integers, Sequences, FiniteSets

CONSTANTS
    Flows,       \* compound flows that share the bus
    ToolOf,      \* the tool of a pair (tool name, hash of the arguments)
    Settings,    \* how the watchdogs are configured and what the flows may do
    MaxCalls     \* bound: tool.before events; a setting may have less

ASSUME SettingsAssumption ==
    Settings \subseteq [pairs : SUBSET DOMAIN ToolOf, k : Nat \ {0}, w : Nat, calls : 0..MaxCalls,
                        actions : SUBSET {"abort", "skip"}, polling : BOOLEAN, stop : BOOLEAN, cancel : BOOLEAN, retry : BOOLEAN]
ASSUME WindowAssumption == \A s \in Settings : s.w >= s.k
ASSUME MaxCallsAssumption == MaxCalls \in Nat \ {0}

VARIABLES
    setting,     \* the setting of this behaviour
    flow,        \* per flow: where it is, its call, the decision so far; as
                 \* history, whether no other call of its tool ran meanwhile
    calls,       \* tool.before events published: the timestamp of the last
    horizon,     \* calls begun up to this one are older than the timeout
    open,        \* StallDetector._open_calls
    fired,       \* StallDetector._fired
    window,      \* LoopDetector._window
    latest,      \* LoopDetector._latest: the pair a cached detection is about
    lastFired,   \* LoopDetector._last_fired_pair
    poll,        \* the poll task: "off", or the watchdog it asks next
    falseStall,  \* history: a stall was raised with no such call running
    reports,     \* history: how often each call was reported as stalled, up to 2
    streak,      \* history: identical calls run in a row, up to K + 2
    answered     \* history: the loop hazard of this streak led to a decision

vars == <<setting, flow, calls, horizon, open, fired, window, latest, lastFired, poll,
          falseStall, reports, streak, answered>>
Pairs == setting.pairs
K == setting.k                  \* threshold_k
W == setting.w                  \* window_n
Actions == setting.actions      \* what the policy answers: AbortRun, EscalateToUser
Polling == setting.polling      \* whether the runner is started
CanStop == setting.stop         \* whether it is also stopped while flows run
CanCancel == setting.cancel     \* whether a flow may be cancelled during a call
CanRetry == setting.retry       \* whether an on_error hook may redirect a failed call

loopVars == <<window, latest, lastFired, streak, answered>>
stallVars == <<open, fired, falseStall, reports>>

Nothing == <<>>
ASSUME PairAssumption == Nothing \notin DOMAIN ToolOf
Stamps == 1..MaxCalls
ToolNames == {ToolOf[p] : p \in Pairs}
Idle == [pc |-> "idle", pair |-> Nothing, stamp |-> 0, decision |-> "continue",
         alone |-> TRUE]

TypeOK ==
    /\ setting \in Settings
    /\ flow \in [Flows -> [pc : {"idle", "asking", "skipping", "running", "skipped", "retrying"},
                           pair : Pairs \cup {Nothing},
                           stamp : 0..MaxCalls,
                           decision : {"continue", "abort", "skip"},
                           alone : BOOLEAN]]
    /\ calls \in 0..MaxCalls
    /\ horizon \in 0..calls
    /\ open \subseteq [tool : ToolNames, stamp : 1..calls]
    /\ fired \subseteq {e.stamp : e \in open}
    /\ window \in Seq(Pairs) /\ Len(window) <= W
    /\ {latest, lastFired} \subseteq Pairs \cup {Nothing}
    /\ poll \in {"off", "stall", "loop"}
    /\ falseStall \in BOOLEAN
    /\ reports \in [Stamps -> 0..2]
    /\ streak \in 0..(K + 2)
    /\ answered \in BOOLEAN

Init ==
    /\ setting \in Settings
    /\ flow = [f \in Flows |-> Idle]
    /\ calls = 0
    /\ horizon = 0
    /\ open = {}
    /\ fired = {}
    /\ window = <<>>
    /\ latest = Nothing
    /\ lastFired = Nothing
    /\ poll = "off"
    /\ falseStall = FALSE
    /\ reports = [s \in Stamps |-> 0]
    /\ streak = 0
    /\ answered = FALSE

(* Flows between their tool.before and the last event of that call. *)
Running(t) == {f \in Flows : /\ flow[f].pc \in {"running", "skipped", "retrying"}
                             /\ ToolOf[flow[f].pair] = t}

(* The call a stall of tool t is counted against: the oldest of those       *)
(* running that were reported least.                                        *)
Attributed(t) ==
    LET stamps == {flow[f].stamp : f \in Running(t)}
    IN  {s \in stamps : \A r \in stamps :
            reports[s] < reports[r] \/ (reports[s] = reports[r] /\ s <= r)}

-----------------------------------------------------------------------------
(* Mutant of Overdue: a call that was already reported is reported again. *)
OverdueAgain == {e \in open : e.stamp <= horizon}

(* The entries StallDetector.signal may report. *)
Overdue == {e \in open : e.stamp <= horizon /\ e.stamp \notin fired}

(* StallDetector.signal returns a detection: the first overdue entry in    *)
(* dict order, which is the order of the timestamps.                       *)
StallSignals ==
    \E e \in Overdue :
        /\ \A o \in Overdue : e.stamp <= o.stamp
        /\ fired' = fired \cup {e.stamp}
        /\ falseStall' = (falseStall \/ \A f \in Running(e.tool) : flow[f].stamp > e.stamp)
        /\ reports' = [s \in Stamps |->
                         IF s \in Attributed(e.tool) /\ reports[s] < 2
                         THEN reports[s] + 1 ELSE reports[s]]
        /\ UNCHANGED open

StallSilent == Overdue = {} /\ UNCHANGED stallVars

OldestOpen(t) == {e \in open : e.tool = t /\ \A o \in open : o.tool = t => e.stamp <= o.stamp}

(* Mutant of Close: every call of the tool is closed. *)
CloseAll(t) ==
    /\ open' = {e \in open : e.tool # t}
    /\ fired' = fired \cap {e.stamp : e \in open'}
    /\ UNCHANGED <<falseStall, reports>>

(* tool.after and tool.error close the oldest open call of the tool. *)
Close(t) ==
    /\ open' = open \ OldestOpen(t)
    /\ fired' = fired \ {e.stamp : e \in OldestOpen(t)}
    /\ UNCHANGED <<falseStall, reports>>

-----------------------------------------------------------------------------
Slide(s, p) == IF Len(s) = W THEN Append(Tail(s), p) ELSE Append(s, p)
Occurrences(s, p) == Cardinality({i \in DOMAIN s : s[i] = p})

(* What the history says of a call: one that is skipped does not run, but  *)
(* with another pair it ends the streak as any call does.                  *)
Counted(p, pc) ==
    LET same == window # <<>> /\ p = window[Len(window)]
        ran == IF same THEN streak ELSE 0
    IN  /\ streak' = IF pc = "skipped" \/ ran > K + 1 THEN ran ELSE ran + 1
        /\ answered' = (same /\ answered)

(* Mutant of LoopObserves: counted before the call is in the window. *)
LoopCountsFirst(p, pc) ==
    LET suppressed == IF p = lastFired THEN p ELSE Nothing
    IN  /\ window' = Slide(window, p)
        /\ IF Occurrences(window, p) > K /\ suppressed = Nothing
           THEN latest' = p /\ lastFired' = p
           ELSE latest' = latest /\ lastFired' = suppressed
        /\ Counted(p, pc)

(* LoopDetector._on_before: the window slides, a different pair lifts the  *)
(* suppression, too many occurrences cache a detection.                    *)
LoopObserves(p, pc) ==
    LET suppressed == IF p = lastFired THEN p ELSE Nothing
    IN  /\ window' = Slide(window, p)
        /\ IF Occurrences(window', p) > K /\ suppressed = Nothing
           THEN latest' = p /\ lastFired' = p
           ELSE latest' = latest /\ lastFired' = suppressed
        /\ Counted(p, pc)

(* EventBusPublishHook.before_tool: both watchdogs see the call begin. *)
Publish(f, p, pc) ==
    /\ calls < setting.calls
    /\ calls' = calls + 1
    /\ flow' = [g \in Flows |->
                  IF g = f THEN [Idle EXCEPT !.pc = pc, !.pair = p, !.stamp = calls + 1,
                                             !.alone = (Running(ToolOf[p]) = {})]
                  ELSE [flow[g] EXCEPT !.alone = @ /\ g \notin Running(ToolOf[p])]]
    /\ open' = open \cup {[tool |-> ToolOf[p], stamp |-> calls + 1]}
    /\ UNCHANGED <<fired, falseStall, reports>>
    /\ LoopObserves(p, pc)

-----------------------------------------------------------------------------
(* WatchdogHook.before_tool: the stall watchdog has a detection, the policy *)
(* answers and healing.action is emitted before the next watchdog is asked. *)
AskStall(f, p) ==
    /\ flow[f].pc = "idle"
    /\ p \in Pairs
    /\ StallSignals
    /\ \E d \in Actions :
          flow' = [flow EXCEPT ![f] = [Idle EXCEPT !.pc = "asking", !.pair = p, !.decision = d]]
    /\ UNCHANGED <<calls, horizon, poll, loopVars>>

(* The loop watchdog is asked next; its detection decides only if the stall *)
(* watchdog's did not.                                                      *)
AskLoop(f, p) ==
    /\ latest # Nothing
    /\ latest' = Nothing
    /\ answered' = TRUE
    /\ \/ flow[f].pc = "idle" /\ p \in Pairs /\ StallSilent
       \/ flow[f].pc = "asking" /\ p = flow[f].pair /\ UNCHANGED stallVars
    /\ \E a \in Actions :
         LET d == IF flow[f].decision = "continue" THEN a ELSE flow[f].decision
         IN  flow' = [flow EXCEPT ![f] =
                        IF d = "abort" THEN Idle   \* HookAbortError
                        ELSE [Idle EXCEPT !.pc = "skipping", !.pair = p, !.decision = d]]
    /\ UNCHANGED <<calls, horizon, poll, window, lastFired, streak>>

(* No watchdog has anything (more) to say: the decision so far takes        *)
(* effect, and unless it is to abort the publisher runs next.               *)
Abort(f) ==
    /\ latest = Nothing
    /\ flow[f].pc = "asking" /\ flow[f].decision = "abort"
    /\ flow' = [flow EXCEPT ![f] = Idle]
    /\ UNCHANGED <<calls, horizon, poll, stallVars, loopVars>>

BeginSkipped(f) ==
    /\ \/ flow[f].pc = "skipping"
       \/ flow[f].pc = "asking" /\ flow[f].decision = "skip" /\ latest = Nothing
    /\ Publish(f, flow[f].pair, "skipped")
    /\ UNCHANGED <<horizon, poll>>

Begin(f, p) ==
    /\ flow[f].pc = "idle"
    /\ p \in Pairs
    /\ latest = Nothing
    /\ Overdue = {}
    /\ Publish(f, p, "running")
    /\ UNCHANGED <<horizon, poll>>

(* tool.after, or tool.error and the error propagates. *)
Finish(f) ==
    /\ flow[f].pc \in {"running", "skipped", "retrying"}
    /\ Close(ToolOf[flow[f].pair])
    /\ flow' = [flow EXCEPT ![f] = Idle]
    /\ UNCHANGED <<calls, horizon, poll, loopVars>>

(* tool.error, answered by a Redirect: the executor runs once more, without *)
(* another tool.before.                                                     *)
FailAndRetry(f) ==
    /\ CanRetry
    /\ flow[f].pc = "running"
    /\ Close(ToolOf[flow[f].pair])
    /\ flow' = [flow EXCEPT ![f].pc = "retrying"]
    /\ UNCHANGED <<calls, horizon, poll, loopVars>>

(* The task that runs the flow is cancelled: CancelledError is not an      *)
(* Exception, no after or error hook runs.                                 *)
Cancel(f) ==
    /\ CanCancel
    /\ flow[f].pc # "idle"
    /\ flow' = [flow EXCEPT ![f] = Idle]
    /\ UNCHANGED <<calls, horizon, poll, stallVars, loopVars>>

-----------------------------------------------------------------------------
(* timeout_s has elapsed since call number horizon + 1 began. *)
TimePasses ==
    /\ horizon < calls
    /\ horizon' = horizon + 1
    /\ UNCHANGED <<flow, calls, poll, stallVars, loopVars>>

(* HealingRunner.start and stop. *)
Start ==
    /\ Polling
    /\ poll = "off"
    /\ poll' = "stall"
    /\ UNCHANGED <<flow, calls, horizon, stallVars, loopVars>>

Stop ==
    /\ CanStop
    /\ poll # "off"
    /\ poll' = "off"
    /\ UNCHANGED <<flow, calls, horizon, stallVars, loopVars>>

(* One round of the poll loop: each watchdog's detection is taken and      *)
(* published as healing.detection.                                         *)
PollStall ==
    /\ poll = "stall"
    /\ StallSignals \/ StallSilent
    /\ poll' = "loop"
    /\ UNCHANGED <<flow, calls, horizon, loopVars>>

PollLoop ==
    /\ poll = "loop"
    /\ latest' = Nothing
    /\ poll' = "stall"
    /\ UNCHANGED <<flow, calls, horizon, stallVars, window, lastFired, streak, answered>>

FlowStep(f) ==
    \/ \E p \in Pairs : AskStall(f, p) \/ AskLoop(f, p) \/ Begin(f, p)
    \/ Abort(f)
    \/ BeginSkipped(f)
    \/ Finish(f)
    \/ FailAndRetry(f)
    \/ Cancel(f)

Steps ==
    \/ \E f \in Flows : FlowStep(f)
    \/ TimePasses
    \/ Start
    \/ Stop
    \/ PollStall
    \/ PollLoop

Next == Steps /\ UNCHANGED setting

Spec == Init /\ [][Next]_vars

(* The event loop runs the poll task, whose sleeps and emissions end;      *)
(* nothing says when a tool returns or when time passes.                   *)
FairSpec == Spec /\ WF_vars(PollStall /\ UNCHANGED setting)
                /\ WF_vars(PollLoop /\ UNCHANGED setting)

-----------------------------------------------------------------------------
(* "Tracks open tool calls": each tool has as many open entries as calls   *)
(* that are running.                                                       *)
EntriesMatchCalls ==
    \A t \in ToolNames :
        Cardinality({e \in open : e.tool = t}) = Cardinality(Running(t))

(* A stall is only raised about a tool that has a call running since at    *)
(* least the time reported, though entries and calls are matched by age.   *)
StallIsSound == ~falseStall

(* "raises Detection when one exceeds timeout_s": every running call older *)
(* than the timeout was reported or is about to be, when no other call of   *)
(* its tool runs meanwhile; entries are matched by tool and age only.       *)
StallIsFound ==
    \A f \in Flows :
        flow[f].pc = "running" /\ flow[f].alone /\ flow[f].stamp <= horizon =>
            \/ reports[flow[f].stamp] > 0
            \/ \E e \in Overdue : e.stamp = flow[f].stamp

(* "at most one Detection per open call", with the same restriction. *)
ReportedOnce ==
    \A f \in Flows :
        flow[f].stamp > 0 /\ flow[f].alone => reports[flow[f].stamp] <= 1

(* "Detects an agent looping on the same tool call", and the policy's      *)
(* answer takes effect at the next boundary: K + 1 identical calls run in  *)
(* a row are followed by a decision before another one is run.  A window   *)
(* of K calls never holds that many; the code accepts it all the same.     *)
LoopIsBroken == W > K /\ streak = K + 2 => answered

(* The books of both watchdogs agree with the calls they are about.  A call *)
(* that is cancelled keeps its entry and one that is retried loses it while *)
(* it runs, so the stall watchdog's part is about flows that do neither; and *)
(* the poll loop takes cached loop detections away from the hook that would *)
(* act on them, so the loop watchdog's part is about hooks alone.           *)
BooksAreRight ==
    /\ TypeOK
    /\ CanCancel \/ CanRetry \/ (EntriesMatchCalls /\ StallIsSound /\ ReportedOnce)

(* No call slips through: a stalled one is found, an agent in a loop is    *)
(* answered, each under the same restrictions.                             *)
NothingSlipsThrough ==
    /\ CanCancel \/ CanRetry \/ StallIsFound
    /\ Polling \/ LoopIsBroken

(* A call that stays stalled, with no other call of its tool meanwhile, is *)
(* reported by the poll loop, unless that is stopped.                       *)
StallIsReported ==
    \A s \in Stamps :
        LET stalled == \E f \in Flows : flow[f].stamp = s /\ flow[f].alone
        IN  s <= horizon /\ stalled /\ poll # "off" ~>
                reports[s] > 0 \/ ~stalled \/ poll = "off"
=============================================================================
