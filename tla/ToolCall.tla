------------------------------ MODULE ToolCall ------------------------------
(***************************************************************************)
(* One tool call of an agent: the hook aggregation of HookRunner           *)
(* (orqest/hooks.py), the compound tool - agent, hooks, executor, state    *)
(* updater - of CompoundTool.run (orqest/agents/compound_tool.py), and the *)
(* run_with_retry wrapper around it (orqest/agents/retry.py), which runs   *)
(* hooks of its own.                                                       *)
(*                                                                         *)
(* site is where the call is.  At a hook site the hooks are asked one      *)
(* after the other; a hook that is missing, raises, returns None or        *)
(* something that is no decision counts as "continue".                     *)
(***************************************************************************)
EXTENDS Integers

CONSTANTS
    Hooks,        \* number of registered hooks, at least 1
    MaxAttempts   \* max_attempts, at least 1

VARIABLES
    wrapped,     \* whether run_with_retry wraps the compound tool; never changes
    site,        \* where the call is
    hook,        \* at a hook site: the hook asked next
    active,      \* at a hook site: the decision so far
    attempt,     \* run_with_retry: the current attempt, from 0
    runs,        \* history: executions of this compound call, up to 4
    effects,     \* history: of them, those that succeeded
    updates,     \* history: calls of state_updater in this compound call
    unannounced, \* history: the last failure of the executor met no on_error hook
    aborted,     \* history: some hook has returned Abort
    ranAborted   \* history: the executor ran after an Abort

vars == <<wrapped, site, hook, active, attempt, runs, effects, updates, unannounced,
          aborted, ranAborted>>
history == <<runs, effects, updates, unannounced, aborted, ranAborted>>

Decisions == {"continue", "skip", "redirect", "abort"}
CompoundHookSites == {"before", "skip_after", "error", "after", "last_after", "last_error"}
RetryHookSites == {"retry_before", "retry_after"}
HookSites == CompoundHookSites \cup RetryHookSites
ExecutorSites == {"execute", "retry", "reexecute"}
ErrorSites == {"error", "last_error"}
EndSites == {"returned", "failed", "abort_raised"}
Sites == HookSites \cup ExecutorSites \cup EndSites \cup
         {"agent", "update", "compound_returned", "compound_failed"}

TypeOK ==
    /\ wrapped \in BOOLEAN
    /\ site \in Sites
    /\ hook \in 1..Hooks
    /\ active \in Decisions \ {"abort"}
    /\ attempt \in 0..(MaxAttempts - 1)
    /\ runs \in 0..4 /\ effects \in 0..runs
    /\ updates \in 0..2
    /\ {unannounced, aborted, ranAborted} \subseteq BOOLEAN

Init ==
    /\ wrapped \in BOOLEAN
    /\ site = IF wrapped THEN "retry_before" ELSE "agent"
    /\ hook = 1
    /\ active = "continue"
    /\ attempt = 0
    /\ runs = 0 /\ effects = 0 /\ updates = 0
    /\ unannounced = FALSE /\ aborted = FALSE /\ ranAborted = FALSE

(* Leave for another site, with fresh hook state. *)
Goto(s) == site' = s /\ hook' = 1 /\ active' = "continue" /\ UNCHANGED wrapped

-----------------------------------------------------------------------------
(* Mutant of Target: an error that no hook redirects is not raised again. *)
TargetErrorSwallowed(s, d) ==
    CASE s = "before" -> IF d = "skip" THEN "skip_after" ELSE "execute"
      [] s = "error" -> IF d = "redirect" THEN "retry" ELSE "update"
      [] s = "after" -> IF d = "redirect" THEN "reexecute" ELSE "update"
      [] s \in {"skip_after", "last_after"} -> "update"
      [] s = "last_error" -> "compound_failed"
      [] s = "retry_before" -> IF d = "skip" THEN "retry_after" ELSE "agent"
      [] s = "retry_after" -> "returned"

(* Where the aggregated decision of a hook site leads.  An after_tool Skip *)
(* is coerced to Continue; a redirect is honoured once per kind of site.   *)
Target(s, d) ==
    CASE s = "before" -> IF d = "skip" THEN "skip_after" ELSE "execute"
      [] s = "error" -> IF d = "redirect" THEN "retry" ELSE "compound_failed"
      [] s = "after" -> IF d = "redirect" THEN "reexecute" ELSE "update"
      [] s \in {"skip_after", "last_after"} -> "update"
      [] s = "last_error" -> "compound_failed"
      [] s = "retry_before" -> IF d = "skip" THEN "retry_after" ELSE "agent"
      [] s = "retry_after" -> "returned"

(* HookAbortError raised at a site: in the compound tool it propagates as  *)
(* an exception, in run_with_retry's own hooks it reaches the caller.      *)
Raised(s) == IF s \in RetryHookSites \/ ~wrapped THEN "abort_raised" ELSE "compound_failed"

AnnounceError == unannounced' = IF site \in ErrorSites THEN FALSE ELSE unannounced

(* A hook answers with anything but Abort: the first answer that is not    *)
(* Continue is the decision, and the remaining hooks are asked all the same. *)
HookAnswers(d) ==
    LET decision == IF active = "continue" THEN d ELSE active
    IN  /\ site \in HookSites
        /\ IF hook < Hooks
           THEN hook' = hook + 1 /\ active' = decision /\ UNCHANGED <<wrapped, site>>
           ELSE Goto(Target(site, decision))
        /\ AnnounceError
            /\ UNCHANGED <<attempt, runs, effects, updates, aborted, ranAborted>>

(* A hook returns Abort: the remaining hooks are not asked. *)
HookAborts ==
    /\ site \in HookSites
    /\ Goto(Raised(site))
    /\ aborted' = TRUE
    /\ AnnounceError
    /\ UNCHANGED <<attempt, runs, effects, updates, ranAborted>>

-----------------------------------------------------------------------------
(* The agent produces its output, or fails before any hook of this call. *)
Agent ==
    /\ site = "agent"
    /\ Goto("before") \/ Goto("compound_failed")
    /\ UNCHANGED <<attempt, history>>

Ran == runs' = (IF runs < 4 THEN runs + 1 ELSE runs) /\ ranAborted' = (ranAborted \/ aborted)

ExecutorSucceeds ==
    /\ site \in ExecutorSites
    /\ Goto(IF site = "reexecute" THEN "last_after" ELSE "after")
    /\ Ran
    /\ effects' = IF effects < 4 THEN effects + 1 ELSE effects
    /\ UNCHANGED <<attempt, updates, unannounced, aborted>>

(* The retry after an on_error redirect is outside the try block. *)
ExecutorFails ==
    /\ site \in ExecutorSites
    /\ Goto(CASE site = "execute" -> "error"
              [] site = "retry" -> "compound_failed"
              [] site = "reexecute" -> "last_error")
    /\ Ran
    /\ unannounced' = TRUE
    /\ UNCHANGED <<attempt, effects, updates, aborted>>

(* state_updater, and run returns; an exception of the updater propagates. *)
Update ==
    /\ site = "update"
    /\ \/ Goto("compound_returned") /\ updates' = updates + 1
       \/ Goto("compound_failed") /\ UNCHANGED updates
    /\ UNCHANGED <<attempt, runs, effects, unannounced, aborted, ranAborted>>

-----------------------------------------------------------------------------
(* Another attempt of run_with_retry. *)
TryAgain ==
    /\ Goto("agent")
    /\ attempt' = attempt + 1
    /\ runs' = 0 /\ effects' = 0 /\ updates' = 0 /\ unannounced' = FALSE

(* The compound call ends.  run_with_retry returns a result through its    *)
(* after hooks and catches any Exception: it stops when the error is not   *)
(* retryable or the attempts are used up, and tries again otherwise.       *)
CompoundEnds ==
    /\ site \in {"compound_returned", "compound_failed"}
    /\ \/ /\ ~wrapped
          /\ Goto(IF site = "compound_returned" THEN "returned" ELSE "failed")
          /\ UNCHANGED <<attempt, runs, effects, updates, unannounced>>
       \/ /\ wrapped
          /\ Goto("retry_after")
          /\ UNCHANGED <<attempt, runs, effects, updates, unannounced>>
       \/ /\ wrapped /\ site = "compound_failed" /\ attempt < MaxAttempts - 1
          /\ TryAgain
    /\ UNCHANGED <<aborted, ranAborted>>

Next ==
    \/ \E d \in Decisions \ {"abort"} : HookAnswers(d)
    \/ HookAborts
    \/ Agent
    \/ ExecutorSucceeds
    \/ ExecutorFails
    \/ Update
    \/ CompoundEnds

Spec == Init /\ [][Next]_vars

-----------------------------------------------------------------------------
(* "bounded one re-execution on after_tool redirect" and "bounded single    *)
(* retry" on an error: redirects never make the executor run more than      *)
(* three times, whatever the hooks answer.                                  *)
RunsBounded == runs <= 3

(* A compound call that returns has updated the state exactly once, with a *)
(* result the executor or a hook produced; one that raises has not.        *)
UpdatedIffReturned ==
    /\ site = "compound_returned" => updates = 1
    /\ site = "compound_failed" => updates = 0

(* A call that returns never hides a failure of its last execution. *)
ReturnsSuccess == site = "compound_returned" => ~unannounced /\ (runs = 0 \/ effects > 0)

(* "Halt the compound flow": once a hook has returned Abort, the executor  *)
(* does not run again, unless run_with_retry is around it, which takes the *)
(* abort for a failure.                                                    *)
BareAbortHalts == ~wrapped => ~ranAborted

=============================================================================
