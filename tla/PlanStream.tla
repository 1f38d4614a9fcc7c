----------------------------- MODULE PlanStream -----------------------------
(***************************************************************************)
(* An execution plan (orqest/plan/execution_plan.py) that is mirrored to   *)
(* the streams of EventStream: producers change the status of tasks and    *)
(* subtasks, or publish the whole plan, and every operation emits an event *)
(* of the "plan" channel and, once that emission has ended and when typed  *)
(* events are enabled, one of the "ui" channel.  A consumer applies the    *)
(* events of one channel to a copy of its own.  An operation is cancelled  *)
(* where one of its emissions waits, and leaves what it wrote.             *)
(*                                                                         *)
(* The value of a status is the event that announces it, so that no two    *)
(* updates look alike.                                                     *)
(***************************************************************************)
EXTENDS EventStream

CONSTANTS
    Items,       \* the tasks and subtasks of the plan
    Missing,     \* ids that are not in the plan
    TaskOf,      \* item or missing id -> the index of its task, None for no such task
    Cancellable, \* bound: the producers whose tasks may be cancelled
    None

Ids == Items \cup Missing

(* There is a plan, and its subtasks are subtasks of its tasks. *)
ASSUME PlanAssumption ==
    /\ Items # {} /\ Items \cap Missing = {} /\ None \notin Ids
    /\ TaskOf \in [Ids -> Items \cup {None}] /\ \A i \in Items : TaskOf[i] \in Items

VARIABLES
    ui,        \* _emit_ui_events; never changes
    plan,      \* item -> status
    operation, \* producer -> the operation it is in the middle of
    content,   \* event -> its channel and payload, a function from ids to statuses
    contended, \* history: items of overlapping operations
    misled,    \* history: tasks named by the delta of a subtask that is missing
    torn       \* history: items whose last update was cancelled, not shown since

planVars == <<ui, plan, operation, content, contended, misled, torn>>
allVars == <<vars, planVars>>

Idle == [next |-> "none", id |-> None, status |-> 0]

(* Bound: a slow handler in front of the buffer makes copies miss events    *)
(* (see CopiesFollow), and streams do not look at what an event says; a     *)
(* single status is updated there.                                          *)
Followed == Head(handlers) = "buffer"
Announced == IF Followed THEN Ids ELSE {CHOOSE i \in Items : TRUE}

PlanTypeOK ==
    /\ TypeOK
    /\ ui \in BOOLEAN
    /\ plan \in [Items -> 0..published]
    /\ operation \in [Producers -> [next : {"none", "delta", "init", "return"}, id : Ids \cup {None},
                                    status : 0..published]]
    /\ DOMAIN content = 1..published
    /\ contended \subseteq Items /\ misled \subseteq Items /\ torn \subseteq Items

PlanInit ==
    /\ Init
    /\ ui \in BOOLEAN /\ (ui => Followed)
    /\ plan = [i \in Items |-> 0]
    /\ operation = [p \in Producers |-> Idle]
    /\ content = <<>>
    /\ contended = {} /\ misled = {} /\ torn = {}

-----------------------------------------------------------------------------
(* Mutant of DeltaTarget: always the task. *)
DeltaTargetTask(id) == TaskOf[id]

(* The path of a typed delta: a subtask that is missing leaves the path of *)
(* its task.                                                               *)
DeltaTarget(id) == IF id \in Items THEN id ELSE TaskOf[id]

(* The items an operation writes or shows. *)
Touches(o) ==
    IF o.next = "none" THEN {}
    ELSE IF o.id = None THEN Items ELSE {o.id, DeltaTarget(o.id)} \cap Items

(* Producers are alike: the first event is that of a fixed one. *)
First == CHOOSE p \in Producers : TRUE

(* The items an operation announces on every channel once it is done, and  *)
(* the one it writes.                                                      *)
Shows(o) == IF o.id = None THEN Items ELSE {o.id} \cap Items
Writes(o) == {o.id} \cap Items

Emits(p, channel, payload) ==
    /\ published = 0 => p = First
    /\ Emit(p)
    /\ content' = Append(content, [channel |-> channel, payload |-> payload])

(* p begins o; what it shares with operations under way is contended. *)
Starts(p, o) ==
    /\ operation[p] = Idle
    /\ operation' = [operation EXCEPT ![p] = o]
    /\ contended' = contended \cup (Touches(o) \cap UNION {Touches(operation[q]) : q \in Producers})

(* to_sse_init and as_component: the plan as it is now. *)
Snapshot == plan

Update(id, value) == [i \in {id} |-> value]

(* set_task_status up to its first await: the status is written if the id  *)
(* is there, and announced in any case.                                    *)
SetTaskStatus(p) ==
    \E id \in Announced :
        LET n == published + 1
        IN  /\ Starts(p, [next |-> IF ui /\ TaskOf[id] # None THEN "delta" ELSE "return",
                          id |-> id, status |-> n])
            /\ plan' = [i \in Items |-> IF i = id THEN n ELSE plan[i]]
            /\ Emits(p, "plan", Update(id, n))
            /\ UNCHANGED <<ui, misled, torn>>

(* emit_init *)
EmitInit(p) ==
    /\ Followed
    /\ Starts(p, [next |-> IF ui THEN "init" ELSE "return", id |-> None, status |-> 0])
    /\ UNCHANGED plan
    /\ Emits(p, "plan", Snapshot)
    /\ UNCHANGED <<ui, misled, torn>>

(* The first emission has ended: the typed event. *)
EmitTyped(p) ==
    LET o == operation[p]
    IN  /\ emitting[p] = NotEmitting
        /\ \/ o.next = "delta" /\ Emits(p, "ui", Update(DeltaTarget(o.id), o.status))
           \/ o.next = "init" /\ Emits(p, "ui", Snapshot)
        /\ operation' = [operation EXCEPT ![p].next = "return"]
        /\ misled' = misled \cup IF o.id \in Missing THEN {TaskOf[o.id]} ELSE {}
        /\ UNCHANGED <<ui, plan, contended, torn>>

Return(p) ==
    /\ operation[p].next = "return"
    /\ emitting[p] = NotEmitting
    /\ operation' = [operation EXCEPT ![p] = Idle]
    /\ torn' = torn \ Shows(operation[p])
    /\ UNCHANGED <<vars, ui, plan, content, contended, misled>>

(* The task is cancelled while an emission of the operation waits: what the *)
(* operation wrote stays, and what it had left to emit is never emitted.    *)
Cancelled(p) ==
    /\ p \in Cancellable
    /\ CancelEmission(p)
    /\ operation' = [operation EXCEPT ![p] = Idle]
    /\ torn' = torn \cup Writes(operation[p])
    /\ UNCHANGED <<ui, plan, content, contended, misled>>

-----------------------------------------------------------------------------
Streaming ==
    /\ \/ \E c \in Clients : Open(c) \/ Pull(c) \/ Wait(c) \/ Close(c) \/ CloseUnstarted(c)
       \/ Reset
    /\ UNCHANGED planVars

Resumed(p) == Resume(p) /\ UNCHANGED planVars

PlanNext ==
    \/ \E p \in Producers : SetTaskStatus(p) \/ EmitInit(p) \/ EmitTyped(p) \/ Resumed(p) \/ Return(p)
                           \/ Cancelled(p)
    \/ Streaming

PlanSpec == PlanInit /\ [][PlanNext]_allVars

(* Handlers return; consumers may stop asking. *)
PlanFairSpec == PlanSpec /\ \A p \in Producers : WF_allVars(Resumed(p))

-----------------------------------------------------------------------------
(* What the copy of a consumer says of an item after the events of s. *)
Copy(s, channel, item) ==
    LET about == {j \in DOMAIN s : /\ content[s[j]].channel = channel
                                   /\ item \in DOMAIN content[s[j]].payload}
    IN  IF about = {} THEN None ELSE content[s[Max(about)]].payload[item]

(* A copy follows the plan: once no operation on an item is under way, what *)
(* a stream has sent and will send of it ends with the status it has.      *)
(* Excepted are overflow, a slow handler in front of the buffer, items that *)
(* two producers wrote at a time, a task whose typed delta was meant for a  *)
(* subtask that does not exist, and an item whose last update was cancelled *)
(* until an operation has shown it again.  A cancelled emit_init does no    *)
(* harm.                                                                   *)
CopiesFollow ==
    \A c \in Clients, channel \in {"plan", "ui"}, i \in Items :
        LET sent == received[c] \o replay[c] \o queue[c]
            copy == Copy(sent, channel, i)
        IN  /\ Followed
            /\ status[c] \in {"opened", "streaming"}
            /\ ToSet(pushed[c]) \subseteq ToSet(sent)
            /\ i \notin contended
            /\ i \notin torn
            /\ channel = "ui" => i \notin misled
            /\ \A p \in Producers : i \notin Touches(operation[p])
            => copy \in {None, plan[i]}

(* The plan is well formed, and every copy of it follows. *)
PlanIsMirrored == PlanTypeOK /\ CopiesFollow
=============================================================================
