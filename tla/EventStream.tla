---------------------------- MODULE EventStream ----------------------------
(***************************************************************************)
(* The observability path: EventBus.emit                                   *)
(* (orqest/observability/events.py), the workbench's ring buffer of recent *)
(* events (orqest/workbench/workbench.py) and the SSE streams that replay  *)
(* the buffer and then follow the bus (orqest/observability/               *)
(* sse_sidecar.py), with several producers emitting concurrently.          *)
(*                                                                         *)
(* emit awaits its handlers one after the other.  The buffer and the       *)
(* streams' _push are synchronous; "slow" stands for an asynchronous       *)
(* handler that suspends.  An emission therefore runs in one step up to    *)
(* and into the next slow handler, and nowhere else can it be cancelled.   *)
(***************************************************************************)
EXTENDS Integers, Sequences, SequencesExt

CONSTANTS
    Producers,    \* tasks that emit
    Clients,      \* SSE streams, each opened once
    Registered,   \* dispatch orders of the handlers before any stream opens
    QueueSize,    \* queue_size
    BufferSize,   \* buffer_size
    MaxEvents     \* bound: events published

(* The workbench subscribes once.                                          *)
ASSUME RegisteredAssumption ==
    /\ Registered \subseteq Seq({"slow", "buffer"})
    /\ \A hs \in Registered : \A i, j \in DOMAIN hs : hs[i] = "buffer" /\ hs[j] = "buffer" => i = j
ASSUME ClientsAssumption == Clients \cap {"slow", "buffer"} = {}
ASSUME SizeAssumption == {QueueSize, BufferSize} \subseteq Nat \ {0}
ASSUME MaxEventsAssumption == MaxEvents \in Nat

VARIABLES
    published,    \* number of events published; an event is its number
    owner,        \* history: event -> its producer
    emitting,     \* per producer: the event it emits and the handlers left
    handlers,     \* the handlers in dispatch order
    buffer,       \* Workbench.recent_events
    status,       \* per stream: its generator
    replay,       \* per stream: the part of replay= not yet sent
    queue,        \* per stream: its bounded queue
    pushed,       \* history per stream: the events pushed to it
    received,     \* history per stream: the events its consumer got
    cut           \* history per stream: the events cancelled before its turn

vars == <<published, owner, emitting, handlers, buffer, status, replay, queue,
          pushed, received, cut>>

Events == 1..MaxEvents
NotEmitting == [event |-> 0, rest |-> <<>>]

TypeOK ==
    /\ published \in 0..MaxEvents
    /\ owner \in [1..published -> Producers]
    /\ \A p \in Producers : /\ emitting[p].event \in 0..published
                            /\ emitting[p].rest \in Seq({"slow", "buffer"} \cup Clients)
    /\ handlers \in Seq({"slow", "buffer"} \cup Clients)
    /\ buffer \in Seq(Events) /\ Len(buffer) <= BufferSize
    /\ status \in [Clients -> {"new", "opened", "streaming", "closed"}]
    /\ \A c \in Clients : /\ {replay[c], pushed[c], received[c]} \subseteq Seq(1..published)
                          /\ queue[c] \in Seq(1..published) /\ Len(queue[c]) <= QueueSize
    /\ cut \in [Clients -> SUBSET (1..published)]

Init ==
    /\ published = 0
    /\ owner = <<>>
    /\ emitting = [p \in Producers |-> NotEmitting]
    /\ handlers \in Registered
    /\ buffer = <<>>
    /\ status = [c \in Clients |-> "new"]
    /\ replay = [c \in Clients |-> <<>>]
    /\ queue = [c \in Clients |-> <<>>]
    /\ pushed = [c \in Clients |-> <<>>]
    /\ received = [c \in Clients |-> <<>>]
    /\ cut = [c \in Clients |-> {}]

-----------------------------------------------------------------------------
(* _push: the oldest event makes room for the newest. *)
Push(q, e) == IF Len(q) < QueueSize THEN Append(q, e) ELSE Append(Tail(q), e)

(* deque(maxlen=buffer_size).append *)
Record(b, e) == IF Len(b) < BufferSize THEN Append(b, e) ELSE Append(Tail(b), e)

(* How many handlers of a list run before the next one that suspends. *)
Prompt(hs) ==
    LET slow == {i \in DOMAIN hs : hs[i] = "slow"}
    IN  IF slow = {} THEN Len(hs) ELSE (CHOOSE i \in slow : \A j \in slow : i <= j) - 1

(* Mutant of Dispatch: a push waits for room in the queue. *)
DispatchWaits(p, e, hs) ==
    LET now == ToSet(SubSeq(hs, 1, Prompt(hs)))
    IN  /\ \A c \in now \cap Clients : Len(queue[c]) < QueueSize
        /\ buffer' = IF "buffer" \in now THEN Record(buffer, e) ELSE buffer
        /\ queue' = [c \in Clients |-> IF c \in now THEN Push(queue[c], e) ELSE queue[c]]
        /\ pushed' = [c \in Clients |-> IF c \in now THEN Append(pushed[c], e) ELSE pushed[c]]
        /\ emitting' = [emitting EXCEPT ![p] =
                          IF Prompt(hs) = Len(hs) THEN NotEmitting
                          ELSE [event |-> e, rest |-> SubSeq(hs, Prompt(hs) + 2, Len(hs))]]

(* The loop of emit from the handlers hs on, until one suspends. *)
Dispatch(p, e, hs) ==
    LET now == ToSet(SubSeq(hs, 1, Prompt(hs)))
    IN  /\ buffer' = IF "buffer" \in now THEN Record(buffer, e) ELSE buffer
        /\ queue' = [c \in Clients |-> IF c \in now THEN Push(queue[c], e) ELSE queue[c]]
        /\ pushed' = [c \in Clients |-> IF c \in now THEN Append(pushed[c], e) ELSE pushed[c]]
        /\ emitting' = [emitting EXCEPT ![p] =
                          IF Prompt(hs) = Len(hs) THEN NotEmitting
                          ELSE [event |-> e, rest |-> SubSeq(hs, Prompt(hs) + 2, Len(hs))]]

(* emit: the targets are copied before the first handler runs. *)
Emit(p) ==
    /\ published < MaxEvents
    /\ emitting[p] = NotEmitting
    /\ published' = published + 1
    /\ owner' = Append(owner, p)
    /\ Dispatch(p, published + 1, handlers)
    /\ UNCHANGED <<handlers, status, replay, received, cut>>

(* The slow handler an emission waits in returns or raises. *)
Resume(p) ==
    /\ emitting[p] # NotEmitting
    /\ Dispatch(p, emitting[p].event, emitting[p].rest)
    /\ UNCHANGED <<published, owner, handlers, status, replay, received, cut>>

(* The task that emits is cancelled in the slow handler: _safe_call lets    *)
(* CancelledError pass, and the handlers left never get the event.          *)
CancelEmission(p) ==
    /\ emitting[p] # NotEmitting
    /\ emitting' = [emitting EXCEPT ![p] = NotEmitting]
    /\ cut' = [c \in Clients |-> IF c \in ToSet(emitting[p].rest)
                                 THEN cut[c] \cup {emitting[p].event} ELSE cut[c]]
    /\ UNCHANGED <<published, owner, handlers, buffer, status, replay, queue, pushed, received>>

-----------------------------------------------------------------------------
(* sse_sidecar(bus, replay=list(recent_events)): subscribed at once. *)
Open(c) ==
    /\ status[c] = "new"
    /\ status' = [status EXCEPT ![c] = "opened"]
    /\ handlers' = Append(handlers, c)
    /\ replay' = [replay EXCEPT ![c] = buffer]
    /\ UNCHANGED <<published, owner, emitting, buffer, queue, pushed, received, cut>>

(* Mutant of Pull: live events are sent before the replay is finished. *)
PullLiveFirst(c) ==
    /\ status[c] \in {"opened", "streaming"}
    /\ status' = [status EXCEPT ![c] = "streaming"]
    /\ IF queue[c] # <<>>
       THEN /\ received' = [received EXCEPT ![c] = Append(@, Head(queue[c]))]
            /\ queue' = [queue EXCEPT ![c] = Tail(@)]
            /\ UNCHANGED replay
       ELSE /\ replay[c] # <<>>
            /\ received' = [received EXCEPT ![c] = Append(@, Head(replay[c]))]
            /\ replay' = [replay EXCEPT ![c] = Tail(@)]
            /\ UNCHANGED queue
    /\ UNCHANGED <<published, owner, emitting, handlers, buffer, pushed, cut>>

(* The consumer asks for the next chunk: the replay first, then the queue. *)
Pull(c) ==
    /\ status[c] \in {"opened", "streaming"}
    /\ status' = [status EXCEPT ![c] = "streaming"]
    /\ IF replay[c] # <<>>
       THEN /\ received' = [received EXCEPT ![c] = Append(@, Head(replay[c]))]
            /\ replay' = [replay EXCEPT ![c] = Tail(@)]
            /\ UNCHANGED queue
       ELSE /\ queue[c] # <<>>
            /\ received' = [received EXCEPT ![c] = Append(@, Head(queue[c]))]
            /\ queue' = [queue EXCEPT ![c] = Tail(@)]
            /\ UNCHANGED replay
    /\ UNCHANGED <<published, owner, emitting, handlers, buffer, pushed, cut>>

(* Asked with nothing to send, the generator has started and waits. *)
Wait(c) ==
    /\ status[c] = "opened"
    /\ replay[c] = <<>> /\ queue[c] = <<>>
    /\ status' = [status EXCEPT ![c] = "streaming"]
    /\ UNCHANGED <<published, owner, emitting, handlers, buffer, replay, queue, pushed, received, cut>>

(* unsubscribe_all: a stream is among the handlers once. *)
Unsubscribed(hs, c) == RemoveAt(hs, CHOOSE i \in DOMAIN hs : hs[i] = c)

(* The consumer closes a started iterator: finally runs. *)
Close(c) ==
    /\ status[c] = "streaming"
    /\ status' = [status EXCEPT ![c] = "closed"]
    /\ handlers' = Unsubscribed(handlers, c)
    /\ UNCHANGED <<published, owner, emitting, buffer, replay, queue, pushed, received, cut>>

(* The iterator is closed before its first chunk was asked for: the body of *)
(* the generator, finally included, never runs.                             *)
CloseUnstarted(c) ==
    /\ status[c] = "opened"
    /\ status' = [status EXCEPT ![c] = "closed"]
    /\ UNCHANGED <<published, owner, emitting, handlers, buffer, replay, queue, pushed, received, cut>>

(* Workbench.reset *)
Reset ==
    /\ buffer # <<>>
    /\ buffer' = <<>>
    /\ UNCHANGED <<published, owner, emitting, handlers, status, replay, queue, pushed, received, cut>>

Next ==
    \/ \E p \in Producers : Emit(p) \/ Resume(p) \/ CancelEmission(p)
    \/ \E c \in Clients : Open(c) \/ Pull(c) \/ Wait(c) \/ Close(c) \/ CloseUnstarted(c)
    \/ Reset

Spec == Init /\ [][Next]_vars

-----------------------------------------------------------------------------
(* A stream sends no event twice, replayed and live ones together. *)
NoDuplicates == \A c \in Clients : IsInjective(received[c] \o replay[c] \o queue[c])

(* Whatever handlers suspend in between, the events of one producer reach  *)
(* every stream in the order it emitted them.                              *)
ProducerOrder ==
    \A c \in Clients :
        LET s == received[c] \o replay[c] \o queue[c]
        IN  \A i, j \in DOMAIN s : i < j /\ owner[s[i]] = owner[s[j]] => s[i] < s[j]

(* Overflow drops the oldest: an event that was pushed and neither received *)
(* nor waiting is followed by a full queue of newer ones.                   *)
NewestSurvive ==
    \A c \in Clients : \A i \in DOMAIN pushed[c] :
        pushed[c][i] \notin ToSet(received[c]) \cup ToSet(queue[c]) =>
            Len(pushed[c]) - i >= QueueSize

(* "lets a reconnecting client catch up on what it missed": between the    *)
(* first event a stream can send and the last one published nothing is     *)
(* missing but the events whose emission was cancelled before its turn,    *)
(* once no emission is under way and unless its queue overflowed.          *)
NoGap ==
    \A c \in Clients :
        LET sent == ToSet(received[c] \o replay[c] \o queue[c])
        IN  /\ status[c] \in {"opened", "streaming"}
            /\ emitting = [p \in Producers |-> NotEmitting]
            /\ ToSet(pushed[c]) \subseteq sent
            => \A e \in sent : (e..published) \ cut[c] \subseteq sent

(* It holds if the buffer records before any handler that suspends, so     *)
(* that recording and copying the targets are one step.  Behind a slow     *)
(* handler an event in flight reaches neither the replay nor the stream.   *)
NoGapBufferFirst == Head(handlers) = "buffer" => NoGap

(* "the stream never stalls the publisher": an emission ends, however slow *)
(* the consumers are.                                                      *)
EmissionsEnd == \A p \in Producers : emitting[p] # NotEmitting ~> emitting[p] = NotEmitting

(* What a stream sends and what waits for it is a selection of the events  *)
(* published: none twice, each producer's in order, the newest kept, and   *)
(* no gap where none is to be expected.                                    *)
StreamsAreSound ==
    TypeOK /\ NoDuplicates /\ ProducerOrder /\ NewestSurvive /\ NoGapBufferFirst
=============================================================================
