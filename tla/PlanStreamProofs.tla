-------------------------- MODULE PlanStreamProofs --------------------------
(***************************************************************************)
(* Proofs about EventStream and PlanStream.  A state is looked at stream   *)
(* by stream: what was received, what is left of the replay and what is    *)
(* queued follow each other in the order of every producer, and an         *)
(* emission under way has not yet reached the handlers it has left, which  *)
(* are cut off from it if it is cancelled.                                 *)
(***************************************************************************)
EXTENDS PlanStream, TLAPS, FiniteSetTheorems, WellFoundedInduction

Handlers == {"slow", "buffer"} \cup Clients

-----------------------------------------------------------------------------
(* Events x and y may be sent one after the other; o owns them.            *)
Precedes(o, x, y) == x # y /\ (o[x] = o[y] => x < y)

Ordered(o, s) == \A i, j \in DOMAIN s : i < j => Precedes(o, s[i], s[j])

Before(o, s, t) == \A i \in DOMAIN s, j \in DOMAIN t : Precedes(o, s[i], t[j])

(* What a stream received (r), has left of the replay (h) and has queued   *)
(* (q) is in order.                                                        *)
InOrder(o, r, h, q) ==
    /\ Ordered(o, r) /\ Ordered(o, h) /\ Ordered(o, q)
    /\ Before(o, r, h) /\ Before(o, r, q) /\ Before(o, h, q)

(* The queue ends what was pushed (w), and what is missing in front of it  *)
(* was received or is followed by QueueSize pushes.                        *)
Suffix(q, w) ==
    /\ Len(q) <= Len(w)
    /\ \A i \in DOMAIN q : q[i] = w[Len(w) - Len(q) + i]

Kept(r, q, w) ==
    /\ Suffix(q, w)
    /\ \A i \in DOMAIN w : i <= Len(w) - Len(q) => w[i] \in ToSet(r) \/ Len(w) - i >= QueueSize

(* A dispatch order names no handler twice, those that suspend apart.      *)
NoRepeats(hs) == \A i, j \in DOMAIN hs : hs[i] = hs[j] /\ hs[i] # "slow" => i = j

ClientsLast(hs) == \A i, j \in DOMAIN hs : i < j /\ hs[i] \in Clients => hs[j] \in Clients

(* The handlers an emission f has left, and what is known of p's.          *)
Left(f) == ToSet(f.rest)

Flight(o, p, f) ==
    /\ f.event = 0 => f = NotEmitting
    /\ f.event # 0 => o[f.event] = p /\ \A x \in DOMAIN o : o[x] = p => x <= f.event
    /\ NoRepeats(f.rest)

(* No event of s is still on its way to the handler h.                     *)
Fresh(em, h, s) == \A p \in Producers : h \in Left(em[p]) => em[p].event \notin ToSet(s)

(* From the event k on, a stream c has got every event, or it is on its    *)
(* way to it, or it was cut off (z).                                       *)
OnItsWay(em, c, e) == \E p \in Producers : em[p].event = e /\ c \in Left(em[p])

CoveredFrom(k, n, em, c, r, h, q, w, z) ==
    /\ \A e \in ToSet(r) \cup ToSet(h) \cup ToSet(q) : k <= e
    /\ \A e \in k..n : e \in ToSet(r) \cup ToSet(h) \cup ToSet(w) \cup z \/ OnItsWay(em, c, e)
    /\ \A p \in Producers : c \in Left(em[p]) => k <= em[p].event

(* One stream, and the buffer, after n events.                             *)
StreamAt(n, o, em, c, r, h, q, w) ==
    /\ r \in Seq(1..n) /\ h \in Seq(1..n) /\ q \in Seq(1..n) /\ w \in Seq(1..n)
    /\ Len(q) <= QueueSize
    /\ InOrder(o, r, h, q)
    /\ Fresh(em, c, r) /\ Fresh(em, c, h) /\ Fresh(em, c, q)
    /\ Kept(r, q, w)

BufferAt(n, o, em, b) ==
    /\ b \in Seq(1..n) /\ Len(b) <= BufferSize
    /\ Ordered(o, b)
    /\ Fresh(em, "buffer", b)

-----------------------------------------------------------------------------
(* A function on the streams.                                              *)
PerStream(f) == f = [c \in Clients |-> f[c]]

EmissionsAt(n) == [Producers -> [event : 0..n, rest : Seq(Handlers)]]

Types ==
    /\ published \in 0..MaxEvents
    /\ owner \in [1..published -> Producers]
    /\ emitting \in EmissionsAt(published)
    /\ handlers \in Seq(Handlers)
    /\ status \in [Clients -> {"new", "opened", "streaming", "closed"}]
    /\ PerStream(replay) /\ PerStream(queue) /\ PerStream(pushed) /\ PerStream(received)
    /\ cut \in [Clients -> SUBSET (1..published)]

Handled(c) == c \in ToSet(handlers)

NeverHandled(c) == ~Handled(c) /\ \A p \in Producers : c \notin Left(emitting[p])

HandlersInv ==
    /\ NoRepeats(handlers) /\ ClientsLast(handlers)
    /\ \A c \in Clients :
         /\ status[c] \in {"opened", "streaming"} => Handled(c)
         /\ status[c] = "new" => NeverHandled(c)

FlightInv == \A p \in Producers : Flight(owner, p, emitting[p])

BufferInv == BufferAt(published, owner, emitting, buffer)

Empty(c) == received[c] = <<>> /\ replay[c] = <<>> /\ queue[c] = <<>> /\ pushed[c] = <<>>

StreamInv ==
    \A c \in Clients :
        /\ StreamAt(published, owner, emitting, c, received[c], replay[c], queue[c], pushed[c])
        /\ status[c] = "new" => Empty(c)

BufferFirst == handlers # <<>> /\ handlers[1] = "buffer"

(* The buffer holds the last events, whoever still waits for them.         *)
BufferFull ==
    /\ \A p \in Producers : "buffer" \notin Left(emitting[p])
    /\ \A i \in DOMAIN buffer : buffer[i] = published - Len(buffer) + i

Covered(c) ==
    \E k \in 1..(published + 1) :
        CoveredFrom(k, published, emitting, c, received[c], replay[c], queue[c], pushed[c], cut[c])

GapInv ==
    BufferFirst => /\ BufferFull
                   /\ \A c \in Clients : status[c] \in {"opened", "streaming"} => Covered(c)

Inv == Types /\ HandlersInv /\ FlightInv /\ BufferInv /\ StreamInv /\ GapInv

-----------------------------------------------------------------------------
(* Sequences.                                                              *)

LEMMA ElementsFacts ==
  ASSUME NEW S, NEW s \in Seq(S)
  PROVE  ToSet(s) \subseteq S /\ s \in [1..Len(s) -> S]
BY DEF ToSet

LEMMA SeqOfMore ==
  ASSUME NEW n \in Nat, NEW s \in Seq(1..n)
  PROVE  s \in Seq(1..(n + 1))
OBVIOUS

LEMMA ConcatFacts ==
  ASSUME NEW S, NEW a \in Seq(S), NEW b \in Seq(S)
  PROVE  /\ a \o b \in Seq(S) /\ Len(a \o b) = Len(a) + Len(b)
         /\ \A i \in 1..Len(a) : (a \o b)[i] = a[i]
         /\ \A i \in (Len(a) + 1)..(Len(a) + Len(b)) : (a \o b)[i] = b[i - Len(a)]
OBVIOUS

LEMMA SubSeqFacts ==
  ASSUME NEW S, NEW s \in Seq(S), NEW j \in Nat, j <= Len(s)
  PROVE  /\ SubSeq(s, 1, j) \in Seq(S) /\ Len(SubSeq(s, 1, j)) = j
         /\ \A i \in 1..j : SubSeq(s, 1, j)[i] = s[i]
         /\ SubSeq(s, j + 1, Len(s)) \in Seq(S) /\ Len(SubSeq(s, j + 1, Len(s))) = Len(s) - j
         /\ \A i \in 1..(Len(s) - j) : SubSeq(s, j + 1, Len(s))[i] = s[j + i]
OBVIOUS

(* Removing an element moves the ones behind it up.                        *)
LEMMA RemoveFacts ==
  ASSUME NEW S, NEW s \in Seq(S), NEW i \in DOMAIN s
  PROVE  /\ RemoveAt(s, i) \in Seq(S)
         /\ Len(RemoveAt(s, i)) = Len(s) - 1
         /\ \A j \in 1..(Len(s) - 1) : RemoveAt(s, i)[j] = IF j < i THEN s[j] ELSE s[j + 1]
<1>1. i \in Nat /\ 1 <= i /\ i <= Len(s) /\ Len(s) \in Nat
  OBVIOUS
<1> DEFINE a == SubSeq(s, 1, i - 1)
           b == SubSeq(s, i + 1, Len(s))
<1>2. a \in Seq(S) /\ Len(a) = i - 1 /\ \A j \in 1..(i - 1) : a[j] = s[j]
  BY <1>1, SubSeqFacts
<1>3. b \in Seq(S) /\ Len(b) = Len(s) - i /\ \A j \in 1..(Len(s) - i) : b[j] = s[i + j]
  BY <1>1, SubSeqFacts
<1> HIDE DEF a, b
<1>4. a \o b \in Seq(S) /\ Len(a \o b) = Len(s) - 1
      /\ (\A j \in 1..(i - 1) : (a \o b)[j] = a[j])
      /\ \A j \in i..(Len(s) - 1) : (a \o b)[j] = b[j - (i - 1)]
  <2>1. Len(a) + 1 = i /\ Len(a) + Len(b) = Len(s) - 1
    BY <1>1, <1>2, <1>3
  <2>2. /\ a \o b \in Seq(S) /\ Len(a \o b) = Len(a) + Len(b)
        /\ \A j \in 1..Len(a) : (a \o b)[j] = a[j]
        /\ \A j \in (Len(a) + 1)..(Len(a) + Len(b)) : (a \o b)[j] = b[j - Len(a)]
    BY <1>2, <1>3, ConcatFacts
  <2>. QED
    BY <1>2, <2>1, <2>2
<1>5. ASSUME NEW j \in 1..(Len(s) - 1), j < i
      PROVE  (a \o b)[j] = s[j]
  BY <1>1, <1>2, <1>4, <1>5
<1>6. ASSUME NEW j \in 1..(Len(s) - 1), ~(j < i)
      PROVE  (a \o b)[j] = s[j + 1]
  <2>1. j \in i..(Len(s) - 1) /\ j - (i - 1) \in 1..(Len(s) - i) /\ i + (j - (i - 1)) = j + 1
    BY <1>1, <1>6
  <2>. QED
    BY <1>3, <1>4, <2>1
<1>7. RemoveAt(s, i) = a \o b
  BY DEF RemoveAt, a, b
<1>. QED
  BY <1>4, <1>5, <1>6, <1>7

LEMMA AppendFacts ==
  ASSUME NEW S, NEW a \in Seq(S), NEW e \in S
  PROVE  /\ Append(a, e) \in Seq(S) /\ Len(Append(a, e)) = Len(a) + 1
         /\ Append(a, e)[Len(a) + 1] = e
         /\ \A i \in 1..Len(a) : Append(a, e)[i] = a[i]
OBVIOUS

LEMMA TailFacts ==
  ASSUME NEW S, NEW q \in Seq(S), q # <<>>
  PROVE  /\ Head(q) = q[1] /\ 1 \in DOMAIN q
         /\ Tail(q) \in Seq(S) /\ Len(Tail(q)) = Len(q) - 1
         /\ \A i \in 1..(Len(q) - 1) : Tail(q)[i] = q[i + 1]
OBVIOUS

LEMMA TailAppendFacts ==
  ASSUME NEW S, NEW q \in Seq(S), q # <<>>, NEW e \in S
  PROVE  /\ Append(Tail(q), e) \in Seq(S) /\ Len(Append(Tail(q), e)) = Len(q)
         /\ Append(Tail(q), e)[Len(q)] = e
         /\ \A i \in 1..(Len(q) - 1) : Append(Tail(q), e)[i] = q[i + 1]
<1> DEFINE u == Tail(q)
<1>1. Len(q) \in Nat /\ u \in Seq(S) /\ Len(u) = Len(q) - 1 /\ \A i \in 1..(Len(q) - 1) : u[i] = q[i + 1]
  BY TailFacts
<1> HIDE DEF u
<1>2. /\ Append(u, e) \in Seq(S) /\ Len(Append(u, e)) = Len(u) + 1
      /\ Append(u, e)[Len(u) + 1] = e
      /\ \A i \in 1..Len(u) : Append(u, e)[i] = u[i]
  BY <1>1, AppendFacts
<1>3. /\ Append(u, e) \in Seq(S) /\ Len(Append(u, e)) = Len(q)
      /\ Append(u, e)[Len(q)] = e
      /\ \A i \in 1..(Len(q) - 1) : Append(u, e)[i] = q[i + 1]
  BY <1>1, <1>2
<1>. QED
  BY <1>3 DEF u

(* A bounded append: the oldest element makes room for the newest.         *)
LEMMA BoundedAppend ==
  ASSUME NEW n \in Nat, NEW q \in Seq(1..n), NEW e \in 1..n, NEW size \in Nat \ {0},
         Len(q) <= size, NEW t, t = IF Len(q) < size THEN Append(q, e) ELSE Append(Tail(q), e)
  PROVE  /\ t \in Seq(1..n) /\ Len(t) <= size
         /\ \E d \in {0, 1} :
              /\ d = 1 <=> Len(q) = size
              /\ Len(t) = Len(q) - d + 1
              /\ t[Len(t)] = e
              /\ \A i \in 1..(Len(t) - 1) : t[i] = q[i + d] /\ i + d \in DOMAIN q
<1>1. CASE Len(q) < size
  <2>1. t = Append(q, e)
    BY <1>1
  <2>2. t \in Seq(1..n) /\ Len(t) <= size /\ Len(t) = Len(q) - 0 + 1 /\ t[Len(t)] = e
    BY <1>1, <2>1
  <2>3. \A i \in 1..(Len(t) - 1) : t[i] = q[i + 0] /\ i + 0 \in DOMAIN q
    BY <1>1, <2>1
  <2>. QED
    BY <1>1, <2>2, <2>3
<1>2. CASE ~(Len(q) < size)
  <2>1. Len(q) = size /\ q # <<>> /\ t = Append(Tail(q), e)
    BY <1>2
  <2>2. DOMAIN q = 1..size
    BY <2>1
  <2>3. /\ Append(Tail(q), e) \in Seq(1..n) /\ Len(Append(Tail(q), e)) = Len(q)
        /\ Append(Tail(q), e)[Len(q)] = e
        /\ \A i \in 1..(Len(q) - 1) : Append(Tail(q), e)[i] = q[i + 1]
    BY <2>1, TailAppendFacts
  <2>4. /\ t \in Seq(1..n) /\ Len(t) = size /\ t[size] = e
        /\ \A i \in 1..(size - 1) : t[i] = q[i + 1]
    BY <2>1, <2>3, Zenon
  <2>5. \A i \in 1..(Len(t) - 1) : t[i] = q[i + 1] /\ i + 1 \in DOMAIN q
    BY <2>2, <2>4
  <2>6. Len(t) <= size /\ Len(t) = Len(q) - 1 + 1 /\ t[Len(t)] = e
    BY <2>1, <2>4
  <2>. QED
    BY <2>1, <2>4, <2>5, <2>6
<1>. QED
  BY <1>1, <1>2

LEMMA BoundedElements ==
  ASSUME NEW n \in Nat, NEW q \in Seq(1..n), NEW e \in 1..n, NEW size \in Nat \ {0},
         Len(q) <= size, NEW t, t = IF Len(q) < size THEN Append(q, e) ELSE Append(Tail(q), e)
  PROVE  /\ e \in ToSet(t)
         /\ ToSet(t) \subseteq ToSet(q) \cup {e}
<1>1. PICK d \in {0, 1} :
          /\ d = 1 <=> Len(q) = size
          /\ Len(t) = Len(q) - d + 1
          /\ t[Len(t)] = e
          /\ \A i \in 1..(Len(t) - 1) : t[i] = q[i + d] /\ i + d \in DOMAIN q
  BY BoundedAppend
<1>2. t \in Seq(1..n)
  BY BoundedAppend
<1>3. Len(t) \in DOMAIN t
  BY <1>1, <1>2
<1>4. ASSUME NEW i \in DOMAIN t PROVE t[i] \in ToSet(q) \cup {e}
  <2>1. i \in 1..(Len(t) - 1) \/ i = Len(t)
    BY <1>2
  <2>. QED
    BY <1>1, <2>1 DEF ToSet
<1>. QED
  BY <1>1, <1>3, <1>4 DEF ToSet

(* Which handlers run at once, which are left.                             *)
LEMMA Smallest ==
  ASSUME NEW n \in Nat, NEW V \in SUBSET (1..n), V # {}
  PROVE  \E v \in V : \A w \in V : v <= w
<1>1. \A w \in V : w \in Int /\ w <= n /\ w >= 1
  OBVIOUS
<1> DEFINE Lower(v) == 1..(v - 1)
           T == {Lower(v) : v \in V}
<1>2. T \subseteq FiniteSubsetsOf(1..n) /\ T # {}
  <2>1. ASSUME NEW v \in V
        PROVE  Lower(v) \subseteq 1..n /\ IsFiniteSet(Lower(v))
    <3>1. v - 1 \in Int /\ n \in Int /\ v <= n
      BY <1>1
    <3>. QED
      BY <3>1, FS_Interval
  <2>. QED
    BY <2>1 DEF FiniteSubsetsOf
<1>3. PICK U \in T : \A Q \in T : <<Q, U>> \notin StrictSubsetOrdering(1..n)
  <2> HIDE DEF T
  <2>. QED
    BY <1>2, FS_StrictSubsetOrderingWellFounded, WFMin
<1>4. PICK v \in V : U = Lower(v)
  OBVIOUS
<1>5. ASSUME NEW w \in V, ~(v <= w) PROVE FALSE
  <2>1. Lower(w) \subseteq Lower(v) /\ w \in Lower(v) /\ w \notin Lower(w)
    BY <1>1, <1>5
  <2>2. <<Lower(w), U>> \in StrictSubsetOrdering(1..n)
    BY <1>4, <2>1 DEF StrictSubsetOrdering
  <2>. QED
    BY <1>3, <2>2
<1>. QED
  BY <1>5

LEMMA PromptFacts ==
  ASSUME NEW hs \in Seq(Handlers)
  PROVE  /\ Prompt(hs) \in 0..Len(hs)
         /\ \A i \in 1..Prompt(hs) : hs[i] # "slow"
         /\ Prompt(hs) # Len(hs) => hs[Prompt(hs) + 1] = "slow"
<1> DEFINE slow == {i \in DOMAIN hs : hs[i] = "slow"}
<1>1. Len(hs) \in Nat /\ DOMAIN hs = 1..Len(hs)
  OBVIOUS
<1>2. CASE slow = {}
  <2>1. Prompt(hs) = Len(hs)
    BY <1>2 DEF Prompt
  <2>. QED
    BY <1>1, <1>2, <2>1
<1>3. CASE slow # {}
  <2>1. \E i \in slow : \A j \in slow : i <= j
    <3>1. slow \in SUBSET (1..Len(hs))
      BY <1>1
    <3> HIDE DEF slow
    <3>. QED
      BY <1>1, <1>3, <3>1, Smallest
  <2> DEFINE m == CHOOSE i \in slow : \A j \in slow : i <= j
  <2>2. m \in slow /\ \A j \in slow : m <= j
    <3> HIDE DEF slow
    <3>. QED
      BY <2>1
  <2>3. Prompt(hs) = m - 1
    BY <1>3 DEF Prompt
  <2> HIDE DEF m
  <2>4. m \in 1..Len(hs) /\ hs[m] = "slow" /\ \A j \in 1..Len(hs) : hs[j] = "slow" => m <= j
    BY <1>1, <2>2
  <2> HIDE DEF slow
  <2>. QED
    BY <1>1, <2>3, <2>4
<1>. QED
  BY <1>2, <1>3

(* What Dispatch makes of the handlers hs of an event e.                   *)
Now(hs) == ToSet(SubSeq(hs, 1, Prompt(hs)))

Onward(e, hs) ==
    IF Prompt(hs) = Len(hs) THEN NotEmitting
    ELSE [event |-> e, rest |-> SubSeq(hs, Prompt(hs) + 2, Len(hs))]

LEMMA NowFacts ==
  ASSUME NEW hs \in Seq(Handlers)
  PROVE  /\ Now(hs) = {hs[i] : i \in 1..Prompt(hs)}
         /\ Now(hs) \subseteq ToSet(hs)
         /\ hs # <<>> /\ hs[1] = "buffer" => "buffer" \in Now(hs)
<1>1. Prompt(hs) \in 0..Len(hs) /\ (Prompt(hs) # Len(hs) => hs[Prompt(hs) + 1] = "slow")
  BY PromptFacts
<1>2. Len(hs) \in Nat /\ DOMAIN hs = 1..Len(hs)
  OBVIOUS
<1> DEFINE a == SubSeq(hs, 1, Prompt(hs))
<1>3. DOMAIN a = 1..Prompt(hs) /\ \A i \in 1..Prompt(hs) : a[i] = hs[i]
  BY <1>1, <1>2
<1>4. Now(hs) = {hs[i] : i \in 1..Prompt(hs)}
  <2> HIDE DEF a
  <2>1. Now(hs) = ToSet(a)
    BY DEF Now, a
  <2>. QED
    BY <1>3, <2>1 DEF ToSet
<1>5. 1..Prompt(hs) \subseteq DOMAIN hs
  BY <1>1, <1>2
<1>6. ASSUME hs # <<>>, hs[1] = "buffer" PROVE "buffer" \in Now(hs)
  <2>1. Len(hs) # 0
    BY <1>6
  <2>2. Prompt(hs) # 0
    BY <1>1, <1>2, <1>6, <2>1
  <2>3. 1 \in 1..Prompt(hs)
    BY <1>1, <1>2, <2>2
  <2>. QED
    BY <1>4, <1>6, <2>3
<1>. QED
  BY <1>4, <1>5, <1>6 DEF ToSet

LEMMA OnwardFacts ==
  ASSUME NEW hs \in Seq(Handlers), NoRepeats(hs), NEW e \in Nat
  PROVE  /\ Onward(e, hs) \in [event : {0, e}, rest : Seq(Handlers)]
         /\ Onward(e, hs).event = 0 => e = 0 \/ Onward(e, hs) = NotEmitting
         /\ NoRepeats(Onward(e, hs).rest)
         /\ Left(Onward(e, hs)) \subseteq ToSet(hs)
         /\ Left(Onward(e, hs)) # {} => Onward(e, hs).event = e
         /\ Left(Onward(e, hs)) \cap Now(hs) = {}
         /\ ToSet(hs) \ {"slow"} \subseteq Now(hs) \cup Left(Onward(e, hs))
<1>1. /\ Prompt(hs) \in 0..Len(hs)
      /\ \A i \in 1..Prompt(hs) : hs[i] # "slow"
      /\ Prompt(hs) # Len(hs) => hs[Prompt(hs) + 1] = "slow"
  BY PromptFacts
<1>2. Len(hs) \in Nat /\ DOMAIN hs = 1..Len(hs)
  OBVIOUS
<1>3. Now(hs) = {hs[i] : i \in 1..Prompt(hs)}
  BY NowFacts
<1>4. CASE Prompt(hs) = Len(hs)
  <2>1. Onward(e, hs) = NotEmitting
    BY <1>4 DEF Onward
  <2>2. NotEmitting.event = 0 /\ NotEmitting.rest = <<>> /\ Left(NotEmitting) = {}
    BY DEF NotEmitting, Left, ToSet
  <2>3. NotEmitting \in [event : {0, e}, rest : Seq(Handlers)]
    BY DEF NotEmitting
  <2>4. ToSet(hs) = Now(hs)
    BY <1>2, <1>3, <1>4 DEF ToSet
  <2>5. NoRepeats(<<>>)
    BY DEF NoRepeats
  <2>. QED
    BY <2>1, <2>2, <2>3, <2>4, <2>5
<1>5. CASE Prompt(hs) # Len(hs)
  <2> DEFINE k == Prompt(hs)
             b == SubSeq(hs, k + 2, Len(hs))
  <2>1. Onward(e, hs) = [event |-> e, rest |-> b]
    BY <1>5 DEF Onward
  <2>2. k \in Nat /\ k + 1 <= Len(hs)
    BY <1>1, <1>2, <1>5
  <2>3. b \in Seq(Handlers) /\ Len(b) = Len(hs) - (k + 1)
        /\ \A i \in 1..(Len(hs) - (k + 1)) : b[i] = hs[i + k + 1]
    <3> DEFINE j == k + 1
    <3>1. j \in Nat /\ j <= Len(hs) /\ k + 2 = j + 1
      BY <2>2
    <3>2. \A i \in 1..(Len(hs) - j) : j + i = i + k + 1
      BY <1>2, <2>2
    <3> HIDE DEF j, k
    <3>3. /\ SubSeq(hs, j + 1, Len(hs)) \in Seq(Handlers)
          /\ Len(SubSeq(hs, j + 1, Len(hs))) = Len(hs) - j
          /\ \A i \in 1..(Len(hs) - j) : SubSeq(hs, j + 1, Len(hs))[i] = hs[j + i]
      BY <3>1, SubSeqFacts
    <3>4. b \in Seq(Handlers) /\ Len(b) = Len(hs) - j /\ \A i \in 1..(Len(hs) - j) : b[i] = hs[i + k + 1]
      BY <3>1, <3>2, <3>3
    <3>. QED
      BY <3>4 DEF j
  <2>4. DOMAIN b = 1..(Len(hs) - (k + 1))
    BY <1>2, <2>2, <2>3
  <2> HIDE DEF b, k
  <2>5. \A i \in DOMAIN b : i + k + 1 \in DOMAIN hs /\ b[i] = hs[i + k + 1] /\ i \in Nat
    BY <1>2, <2>2, <2>3, <2>4
  <2>6. NoRepeats(b)
    <3> SUFFICES ASSUME NEW i \in DOMAIN b, NEW j \in DOMAIN b, b[i] = b[j], b[i] # "slow"
                 PROVE  i = j
      BY DEF NoRepeats
    <3>1. i + k + 1 = j + k + 1
      BY <2>5 DEF NoRepeats
    <3>. QED
      BY <2>2, <2>5, <3>1
  <2>7. Left(Onward(e, hs)) = {b[i] : i \in DOMAIN b}
    BY <2>1 DEF Left, ToSet
  <2>8. Left(Onward(e, hs)) \subseteq ToSet(hs)
    BY <2>5, <2>7 DEF ToSet
  <2>9. ASSUME NEW h \in Left(Onward(e, hs)), h \in Now(hs) PROVE FALSE
    <3>1. PICK i \in DOMAIN b : h = b[i]
      BY <2>7, <2>9
    <3>2. PICK j \in 1..k : h = hs[j]
      BY <1>3, <2>9 DEF k
    <3>3. h # "slow" /\ j \in DOMAIN hs
      BY <1>1, <1>2, <3>2 DEF k
    <3>4. i + k + 1 = j
      BY <2>5, <3>1, <3>2, <3>3 DEF NoRepeats
    <3>. QED
      BY <2>2, <2>5, <3>2, <3>4
  <2>10. ASSUME NEW h \in ToSet(hs), h # "slow", h \notin Now(hs) PROVE h \in Left(Onward(e, hs))
    <3>1. PICK j \in DOMAIN hs : h = hs[j]
      BY <2>10 DEF ToSet
    <3>2. j \notin 1..k /\ j # k + 1
      BY <1>1, <1>3, <1>5, <2>10, <3>1 DEF k
    <3>3. j - (k + 1) \in DOMAIN b /\ (j - (k + 1)) + k + 1 = j
      BY <1>2, <2>2, <2>4, <3>2
    <3>4. b[j - (k + 1)] = hs[j]
      BY <2>5, <3>3
    <3>. QED
      BY <2>7, <3>1, <3>3, <3>4
  <2>11. Onward(e, hs) \in [event : {0, e}, rest : Seq(Handlers)]
         /\ Onward(e, hs).event = e /\ Onward(e, hs).rest = b
    BY <2>1, <2>3
  <2>. QED
    BY <2>6, <2>8, <2>9, <2>10, <2>11
<1>. QED
  BY <1>4, <1>5

-----------------------------------------------------------------------------
(* Order.                                                                  *)

LEMMA LatestFollows ==
  ASSUME NEW n \in Nat, NEW o, NEW e \in 1..n, \A x \in 1..n : o[x] = o[e] => x <= e,
         NEW s \in Seq(1..n), e \notin ToSet(s)
  PROVE  \A i \in DOMAIN s : Precedes(o, s[i], e)
<1> SUFFICES ASSUME NEW i \in DOMAIN s PROVE Precedes(o, s[i], e)
  OBVIOUS
<1>1. s[i] \in 1..n /\ s[i] # e
  BY DEF ToSet
<1>. QED
  BY <1>1 DEF Precedes

LEMMA OrderStays ==
  ASSUME NEW n \in Nat, NEW o, NEW oo, \A x \in 1..n : oo[x] = o[x],
         NEW s \in Seq(1..n), NEW t \in Seq(1..n)
  PROVE  /\ Ordered(o, s) => Ordered(oo, s)
         /\ Before(o, s, t) => Before(oo, s, t)
<1>1. (\A i \in DOMAIN s : s[i] \in 1..n) /\ \A i \in DOMAIN t : t[i] \in 1..n
  OBVIOUS
<1>2. \A x, y \in 1..n : Precedes(o, x, y) => Precedes(oo, x, y)
  BY DEF Precedes
<1>. QED
  BY <1>1, <1>2 DEF Ordered, Before

LEMMA PushedInOrder ==
  ASSUME NEW n \in Nat, NEW o, NEW q \in Seq(1..n), NEW e \in 1..n, NEW size \in Nat \ {0},
         Len(q) <= size, NEW t, t = IF Len(q) < size THEN Append(q, e) ELSE Append(Tail(q), e),
         Ordered(o, q), \A i \in DOMAIN q : Precedes(o, q[i], e)
  PROVE  /\ Ordered(o, t)
         /\ \A s \in Seq(1..n) :
              Before(o, s, q) /\ (\A i \in DOMAIN s : Precedes(o, s[i], e)) => Before(o, s, t)
<1>1. PICK d \in {0, 1} :
          /\ Len(t) = Len(q) - d + 1
          /\ t[Len(t)] = e
          /\ \A i \in 1..(Len(t) - 1) : t[i] = q[i + d] /\ i + d \in DOMAIN q
  BY BoundedAppend
<1>2. t \in Seq(1..n)
  BY BoundedAppend
<1>3. DOMAIN t = 1..Len(t) /\ Len(t) \in Nat
  BY <1>2
<1>4. Ordered(o, t)
  <2> SUFFICES ASSUME NEW i \in DOMAIN t, NEW j \in DOMAIN t, i < j
               PROVE  Precedes(o, t[i], t[j])
    BY DEF Ordered
  <2>1. t[i] = q[i + d] /\ i + d \in DOMAIN q
    <3>1. i \in 1..(Len(t) - 1)
      BY <1>3
    <3>. QED
      BY <1>1, <3>1
  <2>2. CASE j = Len(t)
    BY <1>1, <2>1, <2>2
  <2>3. CASE j # Len(t)
    <3>1. j \in 1..(Len(t) - 1)
      BY <1>3, <2>3
    <3>2. t[j] = q[j + d] /\ j + d \in DOMAIN q
      BY <1>1, <3>1
    <3>3. i + d < j + d
      BY <1>3
    <3>. QED
      BY <2>1, <3>2, <3>3 DEF Ordered
  <2>. QED
    BY <2>2, <2>3
<1>5. ASSUME NEW s \in Seq(1..n), Before(o, s, q), \A i \in DOMAIN s : Precedes(o, s[i], e)
      PROVE  Before(o, s, t)
  <2> SUFFICES ASSUME NEW i \in DOMAIN s, NEW j \in DOMAIN t
               PROVE  Precedes(o, s[i], t[j])
    BY DEF Before
  <2>1. CASE j = Len(t)
    BY <1>1, <1>5, <2>1
  <2>2. CASE j # Len(t)
    <3>1. j \in 1..(Len(t) - 1)
      BY <1>3, <2>2
    <3>2. t[j] = q[j + d] /\ j + d \in DOMAIN q
      BY <1>1, <3>1
    <3>. QED
      BY <1>5, <3>2 DEF Before
  <2>. QED
    BY <2>1, <2>2
<1>. QED
  BY <1>4, <1>5

(* The head of t is moved to the end of s.                                 *)
LEMMA MoveFacts ==
  ASSUME NEW n \in Nat, NEW s \in Seq(1..n), NEW t \in Seq(1..n), t # <<>>
  PROVE  /\ Append(s, Head(t)) \in Seq(1..n) /\ Tail(t) \in Seq(1..n)
         /\ Len(Tail(t)) <= Len(t)
         /\ ToSet(Append(s, Head(t))) = ToSet(s) \cup {Head(t)}
         /\ ToSet(t) = ToSet(Tail(t)) \cup {Head(t)}
<1>1. /\ Head(t) = t[1] /\ 1 \in DOMAIN t
      /\ Tail(t) \in Seq(1..n) /\ Len(Tail(t)) = Len(t) - 1
      /\ \A i \in 1..(Len(t) - 1) : Tail(t)[i] = t[i + 1]
  BY TailFacts
<1>2. Head(t) \in 1..n
  OBVIOUS
<1>3. /\ Append(s, Head(t)) \in Seq(1..n) /\ Len(Append(s, Head(t))) = Len(s) + 1
      /\ Append(s, Head(t))[Len(s) + 1] = Head(t)
      /\ \A i \in 1..Len(s) : Append(s, Head(t))[i] = s[i]
  BY <1>2, AppendFacts
<1>4. DOMAIN s = 1..Len(s) /\ DOMAIN t = 1..Len(t) /\ Len(s) \in Nat /\ Len(t) \in Nat
  OBVIOUS
<1> DEFINE ss == Append(s, Head(t))
           tt == Tail(t)
<1>5. DOMAIN ss = 1..(Len(s) + 1) /\ DOMAIN tt = 1..(Len(t) - 1)
  BY <1>1, <1>3
<1>6. ToSet(ss) = ToSet(s) \cup {Head(t)}
  <2> HIDE DEF ss, tt
  <2>1. \A i \in DOMAIN ss : i \in DOMAIN s \/ i = Len(s) + 1
    BY <1>4, <1>5
  <2>2. \A i \in DOMAIN s : i \in DOMAIN ss /\ Len(s) + 1 \in DOMAIN ss
    BY <1>4, <1>5
  <2>3. Len(s) + 1 \in DOMAIN ss
    BY <1>4, <1>5
  <2>4. ss[Len(s) + 1] = Head(t) /\ \A i \in DOMAIN s : ss[i] = s[i]
    BY <1>3, <1>4 DEF ss
  <2>. QED
    BY <2>1, <2>2, <2>3, <2>4 DEF ToSet
<1>7. ToSet(t) = ToSet(tt) \cup {Head(t)}
  <2>1. \A i \in DOMAIN tt : i + 1 \in DOMAIN t /\ tt[i] = t[i + 1]
    BY <1>1, <1>4, <1>5
  <2>2. \A i \in DOMAIN t : i = 1 \/ (i - 1 \in DOMAIN tt /\ tt[i - 1] = t[i])
    BY <1>1, <1>4, <1>5
  <2> DEFINE x == Head(t)
  <2>5. x = t[1] /\ 1 \in DOMAIN t
    BY <1>1
  <2> HIDE DEF tt, x
  <2>3. ToSet(t) \subseteq ToSet(tt) \cup {x}
    BY <2>2, <2>5 DEF ToSet
  <2>4. ToSet(tt) \cup {x} \subseteq ToSet(t)
    BY <2>1, <2>5 DEF ToSet
  <2>. QED
    BY <2>3, <2>4 DEF x
<1>8. Len(Tail(t)) <= Len(t)
  BY <1>1, <1>4
<1>. QED
  BY <1>1, <1>3, <1>6, <1>7, <1>8

LEMMA MoveInOrder ==
  ASSUME NEW n \in Nat, NEW o, NEW s \in Seq(1..n), NEW t \in Seq(1..n), t # <<>>,
         Ordered(o, s), Ordered(o, t), Before(o, s, t)
  PROVE  /\ Ordered(o, Append(s, Head(t))) /\ Ordered(o, Tail(t))
         /\ Before(o, Append(s, Head(t)), Tail(t))
         /\ \A u \in Seq(1..n) : Before(o, s, u) /\ Before(o, t, u) =>
              Before(o, Append(s, Head(t)), u) /\ Before(o, Tail(t), u)
<1>1. /\ Head(t) = t[1] /\ 1 \in DOMAIN t
      /\ Tail(t) \in Seq(1..n) /\ Len(Tail(t)) = Len(t) - 1
      /\ \A i \in 1..(Len(t) - 1) : Tail(t)[i] = t[i + 1]
  BY TailFacts
<1>2. Head(t) \in 1..n
  OBVIOUS
<1>3. /\ Append(s, Head(t)) \in Seq(1..n) /\ Len(Append(s, Head(t))) = Len(s) + 1
      /\ Append(s, Head(t))[Len(s) + 1] = Head(t)
      /\ \A i \in 1..Len(s) : Append(s, Head(t))[i] = s[i]
  BY <1>2, AppendFacts
<1>4. DOMAIN s = 1..Len(s) /\ DOMAIN t = 1..Len(t) /\ Len(s) \in Nat /\ Len(t) \in Nat
  OBVIOUS
<1> DEFINE ss == Append(s, Head(t))
           tt == Tail(t)
<1>5. DOMAIN ss = 1..(Len(s) + 1) /\ DOMAIN tt = 1..(Len(t) - 1)
  BY <1>1, <1>3
<1>6. \A i \in DOMAIN ss : \/ i \in DOMAIN s /\ ss[i] = s[i]
                           \/ i = Len(s) + 1 /\ ss[i] = t[1]
  BY <1>1, <1>3, <1>4, <1>5
<1>7. \A i \in DOMAIN tt : i + 1 \in DOMAIN t /\ tt[i] = t[i + 1] /\ 1 < i + 1
  BY <1>1, <1>4, <1>5
<1>8. \A i \in DOMAIN ss, j \in DOMAIN ss : i < j => i \in DOMAIN s
  BY <1>4, <1>5
<1>9. \A i \in DOMAIN tt, j \in DOMAIN tt : i < j => i + 1 < j + 1
  BY <1>5
<1> HIDE DEF ss, tt
<1>10. Ordered(o, ss)
  <2> SUFFICES ASSUME NEW i \in DOMAIN ss, NEW j \in DOMAIN ss, i < j
               PROVE  Precedes(o, ss[i], ss[j])
    BY DEF Ordered
  <2>1. i \in DOMAIN s /\ ss[i] = s[i]
    BY <1>4, <1>5, <1>6, <1>8
  <2>2. CASE j \in DOMAIN s /\ ss[j] = s[j]
    BY <2>1, <2>2 DEF Ordered
  <2>3. CASE ss[j] = t[1]
    BY <1>1, <2>1, <2>3 DEF Before
  <2>. QED
    BY <1>6, <2>2, <2>3
<1>11. Ordered(o, tt)
  BY <1>7, <1>9 DEF Ordered
<1>12. Before(o, ss, tt)
  <2> SUFFICES ASSUME NEW i \in DOMAIN ss, NEW j \in DOMAIN tt
               PROVE  Precedes(o, ss[i], tt[j])
    BY DEF Before
  <2>1. j + 1 \in DOMAIN t /\ tt[j] = t[j + 1] /\ 1 < j + 1
    BY <1>7
  <2>2. CASE i \in DOMAIN s /\ ss[i] = s[i]
    BY <2>1, <2>2 DEF Before
  <2>3. CASE ss[i] = t[1]
    BY <1>1, <2>1, <2>3 DEF Ordered
  <2>. QED
    BY <1>6, <2>2, <2>3
<1>13. ASSUME NEW u \in Seq(1..n), Before(o, s, u), Before(o, t, u)
       PROVE  Before(o, ss, u) /\ Before(o, tt, u)
  BY <1>1, <1>6, <1>7, <1>13 DEF Before
<1>. QED
  BY <1>10, <1>11, <1>12, <1>13 DEF ss, tt

(* What may be sent is in order as a whole.                                *)
LEMMA SentInOrder ==
  ASSUME NEW n \in Nat, NEW o, NEW r \in Seq(1..n), NEW h \in Seq(1..n), NEW q \in Seq(1..n),
         InOrder(o, r, h, q)
  PROVE  /\ Ordered(o, r \o h \o q)
         /\ ToSet(r \o h \o q) = ToSet(r) \cup ToSet(h) \cup ToSet(q)
         /\ r \o h \o q \in Seq(1..n)
<1> DEFINE Joined(s, t) ==
             /\ s \o t \in Seq(1..n)
             /\ Ordered(o, s) /\ Ordered(o, t) /\ Before(o, s, t) => Ordered(o, s \o t)
             /\ ToSet(s \o t) = ToSet(s) \cup ToSet(t)
             /\ \A u \in Seq(1..n) : Before(o, s, u) /\ Before(o, t, u) => Before(o, s \o t, u)
<1>1. ASSUME NEW s \in Seq(1..n), NEW t \in Seq(1..n) PROVE Joined(s, t)
  <2>1. /\ s \o t \in Seq(1..n) /\ Len(s \o t) = Len(s) + Len(t)
        /\ \A i \in 1..Len(s) : (s \o t)[i] = s[i]
        /\ \A i \in (Len(s) + 1)..(Len(s) + Len(t)) : (s \o t)[i] = t[i - Len(s)]
    BY ConcatFacts
  <2> DEFINE st == s \o t
  <2>2. DOMAIN s = 1..Len(s) /\ DOMAIN t = 1..Len(t) /\ Len(s) \in Nat /\ Len(t) \in Nat
    OBVIOUS
  <2>3. DOMAIN st = 1..(Len(s) + Len(t))
    BY <2>1
  <2> HIDE DEF st
  <2>4. \A i \in DOMAIN st : \/ i \in DOMAIN s /\ st[i] = s[i]
                             \/ i > Len(s) /\ i - Len(s) \in DOMAIN t /\ st[i] = t[i - Len(s)]
    BY <2>1, <2>2, <2>3 DEF st
  <2>5. \A i \in DOMAIN s : i \in DOMAIN st /\ st[i] = s[i]
    BY <2>1, <2>2, <2>3 DEF st
  <2>6. \A i \in DOMAIN t : Len(s) + i \in DOMAIN st /\ st[Len(s) + i] = t[i]
    <3>1. \A i \in DOMAIN t : Len(s) + i \in (Len(s) + 1)..(Len(s) + Len(t)) /\ (Len(s) + i) - Len(s) = i
      BY <2>2
    <3>. QED
      BY <2>1, <2>2, <2>3, <3>1 DEF st
  <2>7. ASSUME Ordered(o, s), Ordered(o, t), Before(o, s, t) PROVE Ordered(o, st)
    <3> SUFFICES ASSUME NEW i \in DOMAIN st, NEW j \in DOMAIN st, i < j
                 PROVE  Precedes(o, st[i], st[j])
      BY DEF Ordered
    <3>1. CASE i \in DOMAIN s /\ st[i] = s[i] /\ j \in DOMAIN s /\ st[j] = s[j]
      BY <2>7, <3>1 DEF Ordered
    <3>2. CASE i \in DOMAIN s /\ st[i] = s[i] /\ j - Len(s) \in DOMAIN t /\ st[j] = t[j - Len(s)]
      BY <2>7, <3>2 DEF Before
    <3>3. CASE i > Len(s)
      <4>1. j > Len(s) /\ j \notin DOMAIN s /\ i \notin DOMAIN s /\ i - Len(s) < j - Len(s)
        BY <2>2, <2>3, <3>3
      <4>. QED
        BY <2>4, <2>7, <4>1 DEF Ordered
    <3>. QED
      BY <2>4, <3>1, <3>2, <3>3
  <2>8. ToSet(st) = ToSet(s) \cup ToSet(t)
    <3>1. ASSUME NEW x \in ToSet(st) PROVE x \in ToSet(s) \cup ToSet(t)
      BY <2>4 DEF ToSet
    <3>2. ASSUME NEW x \in ToSet(s) \cup ToSet(t) PROVE x \in ToSet(st)
      BY <2>5, <2>6 DEF ToSet
    <3>. QED
      BY <3>1, <3>2
  <2>9. ASSUME NEW u \in Seq(1..n), Before(o, s, u), Before(o, t, u) PROVE Before(o, st, u)
    BY <2>4, <2>9 DEF Before
  <2>. QED
    BY <2>1, <2>7, <2>8, <2>9 DEF st
<1>2. Joined(r, h)
  BY <1>1
<1>3. Joined(r \o h, q)
  BY <1>1, <1>2
<1>. QED
  BY <1>2, <1>3 DEF InOrder

(* An event that is the last of its owner, wherever it is put.             *)
LEMMA OrderRecorded ==
  ASSUME NEW n \in Nat, NEW o, NEW e \in 1..n, \A x \in 1..n : o[x] = o[e] => x <= e,
         NEW b \in Seq(1..n), Len(b) <= BufferSize, Ordered(o, b), e \notin ToSet(b)
  PROVE  Ordered(o, Record(b, e))
<1>1. \A i \in DOMAIN b : Precedes(o, b[i], e)
  BY LatestFollows
<1>. QED
  BY <1>1, PushedInOrder, SizeAssumption DEF Record

LEMMA OrderPushed ==
  ASSUME NEW n \in Nat, NEW o, NEW e \in 1..n, \A x \in 1..n : o[x] = o[e] => x <= e,
         NEW r \in Seq(1..n), NEW h \in Seq(1..n), NEW q \in Seq(1..n), Len(q) <= QueueSize,
         InOrder(o, r, h, q), e \notin ToSet(r) \cup ToSet(h) \cup ToSet(q)
  PROVE  InOrder(o, r, h, Push(q, e))
<1> DEFINE t == Push(q, e)
<1>1. t = IF Len(q) < QueueSize THEN Append(q, e) ELSE Append(Tail(q), e)
  BY DEF Push
<1> HIDE DEF t
<1>2. /\ \A i \in DOMAIN r : Precedes(o, r[i], e)
      /\ \A i \in DOMAIN h : Precedes(o, h[i], e)
      /\ \A i \in DOMAIN q : Precedes(o, q[i], e)
  BY LatestFollows
<1>3. Ordered(o, q) /\ QueueSize \in Nat \ {0}
  BY SizeAssumption DEF InOrder
<1>4. /\ Ordered(o, t)
      /\ \A s \in Seq(1..n) :
           Before(o, s, q) /\ (\A i \in DOMAIN s : Precedes(o, s[i], e)) => Before(o, s, t)
  BY <1>1, <1>2, <1>3, PushedInOrder
<1>5. Before(o, r, t) /\ Before(o, h, t)
  BY <1>2, <1>4 DEF InOrder
<1>. QED
  BY <1>4, <1>5 DEF InOrder, t

(* The next chunk moves from one part to the one before it.                *)
LEMMA OrderPulledReplay ==
  ASSUME NEW n \in Nat, NEW o, NEW r \in Seq(1..n), NEW h \in Seq(1..n), NEW q \in Seq(1..n),
         InOrder(o, r, h, q), h # <<>>
  PROVE  InOrder(o, Append(r, Head(h)), Tail(h), q)
<1> DEFINE rr == Append(r, Head(h))
           hh == Tail(h)
<1>1. /\ Ordered(o, r) /\ Ordered(o, h) /\ Before(o, r, h)
      /\ Ordered(o, q) /\ Before(o, r, q) /\ Before(o, h, q)
  BY DEF InOrder
<1>2. /\ Ordered(o, rr) /\ Ordered(o, hh) /\ Before(o, rr, hh)
      /\ \A u \in Seq(1..n) : Before(o, r, u) /\ Before(o, h, u) => Before(o, rr, u) /\ Before(o, hh, u)
  BY <1>1, MoveInOrder
<1>. QED
  BY <1>1, <1>2 DEF InOrder

LEMMA OrderPulledQueue ==
  ASSUME NEW n \in Nat, NEW o, NEW r \in Seq(1..n), NEW q \in Seq(1..n),
         InOrder(o, r, <<>>, q), q # <<>>
  PROVE  InOrder(o, Append(r, Head(q)), <<>>, Tail(q))
<1> DEFINE rr == Append(r, Head(q))
           qq == Tail(q)
<1>1. Ordered(o, r) /\ Ordered(o, q) /\ Before(o, r, q)
  BY DEF InOrder
<1>2. Ordered(o, rr) /\ Ordered(o, qq) /\ Before(o, rr, qq)
  BY <1>1, MoveInOrder
<1>3. Ordered(o, <<>>) /\ Before(o, rr, <<>>) /\ Before(o, <<>>, qq)
  BY DEF Ordered, Before
<1>. QED
  BY <1>2, <1>3 DEF InOrder

(* What is kept of the events pushed.                                      *)
LEMMA KeptMore ==
  ASSUME NEW r, NEW rr, NEW q, NEW w, Kept(r, q, w), ToSet(r) \subseteq ToSet(rr)
  PROVE  Kept(rr, q, w)
BY DEF Kept

LEMMA KeptPull ==
  ASSUME NEW n \in Nat, NEW r \in Seq(1..n), NEW q \in Seq(1..n), NEW w \in Seq(1..n),
         Kept(r, q, w), q # <<>>
  PROVE  Kept(Append(r, Head(q)), Tail(q), w)
<1> DEFINE rr == Append(r, Head(q))
           t == Tail(q)
<1>1. Len(q) \in Nat \ {0} /\ Len(w) \in Nat /\ DOMAIN q = 1..Len(q) /\ DOMAIN w = 1..Len(w)
  OBVIOUS
<1>2. /\ Head(q) = q[1]
      /\ t \in Seq(1..n) /\ Len(t) = Len(q) - 1
      /\ \A i \in 1..(Len(q) - 1) : t[i] = q[i + 1]
  BY TailFacts
<1>3. ToSet(rr) = ToSet(r) \cup {q[1]}
  <2>1. ToSet(rr) = ToSet(r) \cup {Head(q)}
    BY MoveFacts
  <2>. QED
    BY <1>2, <2>1
<1>4. DOMAIN t = 1..(Len(q) - 1)
  BY <1>2
<1> HIDE DEF rr, t
<1>5. Len(q) <= Len(w) /\ \A i \in 1..Len(q) : q[i] = w[Len(w) - Len(q) + i]
  BY <1>1 DEF Kept, Suffix
<1>6. Suffix(t, w)
  <2>1. Len(t) <= Len(w)
    BY <1>1, <1>2, <1>5
  <2>2. ASSUME NEW i \in DOMAIN t PROVE t[i] = w[Len(w) - Len(t) + i]
    <3>1. i \in 1..(Len(q) - 1) /\ i + 1 \in 1..Len(q)
      BY <1>1, <1>4
    <3>2. t[i] = q[i + 1]
      BY <1>2, <3>1
    <3>3. Len(t) = Len(q) - 1
      BY <1>2
    <3>4. Len(w) - Len(q) + (i + 1) = Len(w) - Len(t) + i
      BY <1>1, <3>1, <3>3
    <3>. QED
      BY <1>5, <3>1, <3>2, <3>4
  <2>. QED
    BY <2>1, <2>2 DEF Suffix
<1>7. ASSUME NEW i \in DOMAIN w, i <= Len(w) - Len(t)
      PROVE  w[i] \in ToSet(rr) \/ Len(w) - i >= QueueSize
  <2>1. CASE i <= Len(w) - Len(q)
    BY <1>3, <2>1 DEF Kept
  <2>2. CASE ~(i <= Len(w) - Len(q))
    <3>1. i = Len(w) - Len(q) + 1 /\ 1 \in 1..Len(q)
      BY <1>1, <1>2, <1>7, <2>2
    <3>2. w[i] = q[1]
      BY <1>5, <3>1
    <3>. QED
      BY <1>3, <3>2
  <2>. QED
    BY <2>1, <2>2
<1>. QED
  BY <1>6, <1>7 DEF Kept, rr, t

LEMMA ShiftFacts ==
  ASSUME NEW m \in Nat, NEW n \in Nat, m <= n, NEW i \in 1..m
  PROVE  n - m + i \in 1..n
OBVIOUS

LEMMA KeptPush ==
  ASSUME NEW n \in Nat, NEW r \in Seq(1..n), NEW q \in Seq(1..n), NEW w \in Seq(1..n),
         NEW e \in 1..n, Len(q) <= QueueSize, Kept(r, q, w)
  PROVE  Kept(r, Push(q, e), Append(w, e))
<1> DEFINE t == Push(q, e)
           v == Append(w, e)
<1>1. QueueSize \in Nat \ {0}
  BY SizeAssumption
<1>2. PICK d \in {0, 1} :
          /\ d = 1 <=> Len(q) = QueueSize
          /\ Len(t) = Len(q) - d + 1
          /\ t[Len(t)] = e
          /\ \A i \in 1..(Len(t) - 1) : t[i] = q[i + d] /\ i + d \in DOMAIN q
  BY <1>1, BoundedAppend DEF Push
<1>3. t \in Seq(1..n)
  BY <1>1, BoundedAppend DEF Push
<1>4. v \in Seq(1..n) /\ Len(v) = Len(w) + 1 /\ v[Len(w) + 1] = e /\ \A i \in 1..Len(w) : v[i] = w[i]
  BY AppendFacts
<1>5. DOMAIN t = 1..Len(t) /\ DOMAIN v = 1..(Len(w) + 1) /\ Len(t) \in Nat
  BY <1>3, <1>4
<1>6. DOMAIN q = 1..Len(q) /\ Len(q) \in Nat /\ Len(w) \in Nat /\ DOMAIN w = 1..Len(w)
  OBVIOUS
<1> HIDE DEF t, v
<1>7. Len(q) <= Len(w) /\ \A i \in 1..Len(q) : q[i] = w[Len(w) - Len(q) + i]
  BY <1>6 DEF Kept, Suffix
<1>8. Suffix(t, v)
  <2>1. Len(t) <= Len(v)
    BY <1>2, <1>4, <1>6, <1>7
  <2>2. ASSUME NEW i \in DOMAIN t PROVE t[i] = v[Len(v) - Len(t) + i]
    <3>1. CASE i = Len(t)
      <4>1. Len(v) - Len(t) + i = Len(w) + 1
        BY <1>4, <1>5, <1>6, <3>1
      <4>. QED
        BY <1>2, <1>4, <3>1, <4>1
    <3>2. CASE i # Len(t)
      <4>1. i \in 1..(Len(t) - 1)
        BY <1>5, <3>2
      <4>2. t[i] = q[i + d] /\ i + d \in 1..Len(q)
        BY <1>2, <1>6, <4>1
      <4>3. Len(w) - Len(q) + (i + d) = Len(v) - Len(t) + i
        BY <1>2, <1>4, <1>6, <4>1
      <4>4. Len(w) - Len(q) + (i + d) \in 1..Len(w)
        BY <1>6, <1>7, <4>2, ShiftFacts
      <4>. QED
        BY <1>4, <1>7, <4>2, <4>3, <4>4
    <3>. QED
      BY <3>1, <3>2
  <2>. QED
    BY <2>1, <2>2 DEF Suffix
<1>9. ASSUME NEW i \in DOMAIN v, i <= Len(v) - Len(t)
      PROVE  v[i] \in ToSet(r) \/ Len(v) - i >= QueueSize
  <2>1. i \in 1..Len(w) /\ v[i] = w[i]
    <3>1. Len(t) >= 1
      <4>1. d = 1 \/ d = 0
        OBVIOUS
      <4>2. d = 1 => Len(q) >= 1
        BY <1>1, <1>2
      <4>3. Len(t) = Len(q) - d + 1
        BY <1>2
      <4>. QED
        BY <1>6, <4>1, <4>2, <4>3
    <3>2. i \in 1..Len(w)
      BY <1>4, <1>5, <1>6, <1>9, <3>1
    <3>. QED
      BY <1>4, <3>2
  <2>2. CASE i <= Len(w) - Len(q)
    <3>1. w[i] \in ToSet(r) \/ Len(w) - i >= QueueSize
      BY <1>6, <2>1, <2>2 DEF Kept
    <3>. QED
      BY <1>1, <1>4, <1>6, <2>1, <3>1
  <2>3. CASE ~(i <= Len(w) - Len(q))
    <3>1. d = 1 /\ i = Len(w) - Len(q) + 1
      <4>1. Len(t) = Len(q) - d + 1 /\ Len(v) = Len(w) + 1
        BY <1>2, <1>4
      <4>2. i \in Int /\ (d = 1 \/ d = 0)
        BY <2>1
      <4>3. i <= Len(w) - Len(q) + d
        BY <1>6, <1>9, <4>1, <4>2
      <4>. QED
        BY <1>6, <2>3, <4>2, <4>3
    <3>2. Len(q) = QueueSize /\ Len(v) = Len(w) + 1
      BY <1>2, <1>4, <3>1
    <3>3. Len(v) - i >= QueueSize
      BY <1>1, <1>6, <3>1, <3>2
    <3>. QED
      BY <3>3
  <2>. QED
    BY <2>2, <2>3
<1>. QED
  BY <1>8, <1>9 DEF Kept, t, v

-----------------------------------------------------------------------------
(* An emission goes on: of n events, owned by o, the event e of p, one of  *)
(* those that em says are under way, goes to the handlers hs.              *)
Delivering(n, o, em, p, e, hs) ==
    /\ n \in Nat /\ e \in 1..n /\ p \in Producers
    /\ hs \in Seq(Handlers) /\ NoRepeats(hs)
    /\ DOMAIN o = 1..n
    /\ em \in EmissionsAt(n)
    /\ em[p] = [event |-> e, rest |-> hs]
    /\ \A x \in Producers : Flight(o, x, em[x])

Delivered(em, p, e, hs) == [em EXCEPT ![p] = Onward(e, hs)]

LEMMA DeliveredFlights ==
  ASSUME NEW n, NEW o, NEW em, NEW p, NEW e, NEW hs, Delivering(n, o, em, p, e, hs),
         NEW en, en = Delivered(em, p, e, hs)
  PROVE  /\ en \in EmissionsAt(n)
         /\ en[p] = Onward(e, hs) /\ \A x \in Producers \ {p} : en[x] = em[x]
         /\ \A x \in Producers : Flight(o, x, en[x])
<1>1. /\ Onward(e, hs) \in [event : {0, e}, rest : Seq(Handlers)]
      /\ Onward(e, hs).event = 0 => Onward(e, hs) = NotEmitting
      /\ NoRepeats(Onward(e, hs).rest)
  <2>1. hs \in Seq(Handlers) /\ NoRepeats(hs) /\ e \in Nat /\ e # 0
    BY DEF Delivering
  <2>. QED
    BY <2>1, OnwardFacts
<1>2. en[p] = Onward(e, hs) /\ \A x \in Producers \ {p} : en[x] = em[x]
  BY DEF Delivering, Delivered, EmissionsAt
<1>3. Onward(e, hs) \in [event : 0..n, rest : Seq(Handlers)]
  BY <1>1 DEF Delivering
<1>4. en \in EmissionsAt(n)
  BY <1>3 DEF Delivering, Delivered, EmissionsAt
<1>5. Flight(o, p, en[p])
  <2>1. Flight(o, p, em[p]) /\ em[p].event = e /\ e # 0
    BY DEF Delivering
  <2>2. o[e] = p /\ \A x \in DOMAIN o : o[x] = p => x <= e
    BY <2>1 DEF Flight
  <2>3. en[p].event \in {0, e}
    BY <1>1, <1>2
  <2>. QED
    BY <1>1, <1>2, <2>2, <2>3 DEF Flight
<1>6. \A x \in Producers \ {p} : Flight(o, x, en[x])
  BY <1>2 DEF Delivering
<1>. QED
  BY <1>2, <1>4, <1>5, <1>6

(* What is under way to a handler was so before.                           *)
LEMMA DeliveredLeft ==
  ASSUME NEW n, NEW o, NEW em, NEW p, NEW e, NEW hs, Delivering(n, o, em, p, e, hs),
         NEW en, en = Delivered(em, p, e, hs)
  PROVE  /\ \A x \in Producers : \A h \in Left(en[x]) :
              h \in Left(em[x]) /\ en[x].event = em[x].event
         /\ \A h \in Now(hs) : h \in Left(em[p]) /\ h \notin Left(en[p])
         /\ \A h, f : h # "slow" /\ OnItsWay(em, h, f) =>
              OnItsWay(en, h, f) \/ (f = e /\ h \in Now(hs))
<1>1. /\ Left(Onward(e, hs)) \subseteq ToSet(hs)
      /\ Left(Onward(e, hs)) # {} => Onward(e, hs).event = e
      /\ Left(Onward(e, hs)) \cap Now(hs) = {}
      /\ ToSet(hs) \ {"slow"} \subseteq Now(hs) \cup Left(Onward(e, hs))
  <2>1. hs \in Seq(Handlers) /\ NoRepeats(hs) /\ e \in Nat
    BY DEF Delivering
  <2>. QED
    BY <2>1, OnwardFacts
<1>2. en[p] = Onward(e, hs) /\ \A x \in Producers \ {p} : en[x] = em[x]
  BY DeliveredFlights
<1>3. Left(em[p]) = ToSet(hs) /\ em[p].event = e /\ p \in Producers
  BY DEF Delivering, Left
<1>4. Now(hs) \subseteq ToSet(hs)
  BY NowFacts DEF Delivering
<1>5. ASSUME NEW x \in Producers, NEW h \in Left(en[x])
      PROVE  h \in Left(em[x]) /\ en[x].event = em[x].event
  BY <1>1, <1>2, <1>3
<1>6. ASSUME NEW h, NEW f, h # "slow", OnItsWay(em, h, f), ~(f = e /\ h \in Now(hs))
      PROVE  OnItsWay(en, h, f)
  <2>1. PICK x \in Producers : em[x].event = f /\ h \in Left(em[x])
    BY <1>6 DEF OnItsWay
  <2>2. CASE x = p
    BY <1>1, <1>2, <1>3, <1>6, <2>1, <2>2 DEF OnItsWay
  <2>3. CASE x # p
    BY <1>2, <2>1, <2>3 DEF OnItsWay
  <2>. QED
    BY <2>2, <2>3
<1>. QED
  BY <1>1, <1>2, <1>3, <1>4, <1>5, <1>6

LEMMA DeliveredFresh ==
  ASSUME NEW n, NEW o, NEW em, NEW p, NEW e, NEW hs, Delivering(n, o, em, p, e, hs),
         NEW en, en = Delivered(em, p, e, hs), NEW h, NEW s, Fresh(em, h, s)
  PROVE  /\ Fresh(en, h, s)
         /\ h \in Now(hs) => e \notin ToSet(s)
         /\ \A t : h \in Now(hs) /\ ToSet(t) \subseteq ToSet(s) \cup {e} => Fresh(en, h, t)
<1>1. /\ \A x \in Producers : h \in Left(en[x]) => h \in Left(em[x]) /\ en[x].event = em[x].event
      /\ h \in Now(hs) => h \in Left(em[p]) /\ h \notin Left(en[p])
  BY DeliveredLeft
<1>2. p \in Producers /\ em[p].event = e /\ e # 0
  BY DEF Delivering
<1>3. h \in Now(hs) => e \notin ToSet(s)
  BY <1>1, <1>2 DEF Fresh
<1>4. Fresh(en, h, s)
  BY <1>1 DEF Fresh
<1>5. ASSUME NEW t, h \in Now(hs), ToSet(t) \subseteq ToSet(s) \cup {e} PROVE Fresh(en, h, t)
  <2> SUFFICES ASSUME NEW x \in Producers, h \in Left(en[x]) PROVE en[x].event \notin ToSet(t)
    BY DEF Fresh
  <2>1. x # p /\ h \in Left(em[x]) /\ en[x].event = em[x].event
    BY <1>1, <1>5
  <2>2. em[x].event \notin ToSet(s)
    BY <2>1 DEF Fresh
  <2>3. em[x].event # e
    <3>1. Flight(o, x, em[x]) /\ Flight(o, p, em[p])
      BY <1>2 DEF Delivering
    <3>. QED
      BY <1>2, <2>1, <3>1 DEF Flight
  <2>. QED
    BY <1>5, <2>1, <2>2, <2>3
<1>. QED
  BY <1>3, <1>4, <1>5

LEMMA DeliveredBuffer ==
  ASSUME NEW n, NEW o, NEW em, NEW p, NEW e, NEW hs, Delivering(n, o, em, p, e, hs),
         NEW en, en = Delivered(em, p, e, hs), NEW b, BufferAt(n, o, em, b)
  PROVE  BufferAt(n, o, en, IF "buffer" \in Now(hs) THEN Record(b, e) ELSE b)
<1>1. n \in Nat /\ e \in 1..n /\ b \in Seq(1..n) /\ Len(b) <= BufferSize /\ Ordered(o, b)
      /\ Fresh(em, "buffer", b) /\ BufferSize \in Nat \ {0}
  BY SizeAssumption DEF Delivering, BufferAt
<1>2. /\ Fresh(en, "buffer", b)
      /\ "buffer" \in Now(hs) => e \notin ToSet(b)
      /\ \A t : "buffer" \in Now(hs) /\ ToSet(t) \subseteq ToSet(b) \cup {e} => Fresh(en, "buffer", t)
  BY <1>1, DeliveredFresh
<1>3. CASE "buffer" \notin Now(hs)
  BY <1>1, <1>2, <1>3 DEF BufferAt
<1>4. CASE "buffer" \in Now(hs)
  <2> DEFINE t == Record(b, e)
  <2>1. t = IF Len(b) < BufferSize THEN Append(b, e) ELSE Append(Tail(b), e)
    BY DEF Record
  <2> HIDE DEF t
  <2>2. t \in Seq(1..n) /\ Len(t) <= BufferSize
    BY <1>1, <2>1, BoundedAppend
  <2>3. ToSet(t) \subseteq ToSet(b) \cup {e}
    BY <1>1, <2>1, BoundedElements
  <2>4. \A x \in 1..n : o[x] = o[e] => x <= e
    BY DEF Delivering, Flight
  <2>6. Ordered(o, t)
    BY <1>1, <1>2, <1>4, <2>4, OrderRecorded DEF t
  <2>7. Fresh(en, "buffer", t)
    BY <1>2, <1>4, <2>3
  <2>8. BufferAt(n, o, en, t)
    BY <2>2, <2>6, <2>7 DEF BufferAt
  <2>. QED
    BY <1>4, <2>8 DEF t
<1>. QED
  BY <1>3, <1>4

LEMMA DeliveredStream ==
  ASSUME NEW n, NEW o, NEW em, NEW p, NEW e, NEW hs, Delivering(n, o, em, p, e, hs),
         NEW en, en = Delivered(em, p, e, hs), NEW c,
         NEW r, NEW h, NEW q, NEW w, StreamAt(n, o, em, c, r, h, q, w)
  PROVE  /\ c \notin Now(hs) => StreamAt(n, o, en, c, r, h, q, w)
         /\ c \in Now(hs) => StreamAt(n, o, en, c, r, h, Push(q, e), Append(w, e))
<1>1. /\ n \in Nat /\ e \in 1..n /\ QueueSize \in Nat \ {0}
      /\ r \in Seq(1..n) /\ h \in Seq(1..n) /\ q \in Seq(1..n) /\ w \in Seq(1..n)
      /\ Len(q) <= QueueSize /\ InOrder(o, r, h, q) /\ Kept(r, q, w)
      /\ Fresh(em, c, r) /\ Fresh(em, c, h) /\ Fresh(em, c, q)
  BY SizeAssumption DEF Delivering, StreamAt
<1>2. \A s : Fresh(em, c, s) =>
         /\ Fresh(en, c, s)
         /\ c \in Now(hs) => e \notin ToSet(s)
         /\ \A t : c \in Now(hs) /\ ToSet(t) \subseteq ToSet(s) \cup {e} => Fresh(en, c, t)
  BY DeliveredFresh
<1>3. CASE c \notin Now(hs)
  BY <1>1, <1>2, <1>3 DEF StreamAt
<1>4. CASE c \in Now(hs)
  <2> DEFINE t == Push(q, e)
             v == Append(w, e)
  <2>1. t = IF Len(q) < QueueSize THEN Append(q, e) ELSE Append(Tail(q), e)
    BY DEF Push
  <2>2. v \in Seq(1..n)
    BY <1>1, AppendFacts
  <2>3. Kept(r, t, v)
    BY <1>1, KeptPush
  <2> HIDE DEF t, v
  <2>4. t \in Seq(1..n) /\ Len(t) <= QueueSize
    BY <1>1, <2>1, BoundedAppend
  <2>5. ToSet(t) \subseteq ToSet(q) \cup {e}
    BY <1>1, <2>1, BoundedElements
  <2>6. \A x \in 1..n : o[x] = o[e] => x <= e
    BY DEF Delivering, Flight
  <2>10. InOrder(o, r, h, t)
    <3>1. e \notin ToSet(r) \cup ToSet(h) \cup ToSet(q)
      BY <1>1, <1>2, <1>4
    <3>. QED
      BY <1>1, <2>6, <3>1, OrderPushed DEF t
  <2>11. Fresh(en, c, r) /\ Fresh(en, c, h) /\ Fresh(en, c, t)
    BY <1>1, <1>2, <1>4, <2>5
  <2>12. StreamAt(n, o, en, c, r, h, t, v)
    BY <1>1, <2>2, <2>3, <2>4, <2>10, <2>11 DEF StreamAt
  <2>. QED
    BY <1>4, <2>12 DEF t, v
<1>. QED
  BY <1>3, <1>4

LEMMA DeliveredCovered ==
  ASSUME NEW n, NEW o, NEW em, NEW p, NEW e, NEW hs, Delivering(n, o, em, p, e, hs),
         NEW en, en = Delivered(em, p, e, hs), NEW c, c # "slow",
         NEW r, NEW h, NEW q, NEW w, StreamAt(n, o, em, c, r, h, q, w),
         NEW z, NEW k, CoveredFrom(k, n, em, c, r, h, q, w, z)
  PROVE  /\ c \notin Now(hs) => CoveredFrom(k, n, en, c, r, h, q, w, z)
         /\ c \in Now(hs) => CoveredFrom(k, n, en, c, r, h, Push(q, e), Append(w, e), z)
<1>1. /\ n \in Nat /\ e \in 1..n /\ QueueSize \in Nat \ {0}
      /\ q \in Seq(1..n) /\ w \in Seq(1..n) /\ Len(q) <= QueueSize
  BY SizeAssumption DEF Delivering, StreamAt
<1>2. /\ \A x \in Producers : c \in Left(en[x]) => c \in Left(em[x]) /\ en[x].event = em[x].event
      /\ c \in Now(hs) => c \in Left(em[p])
      /\ \A f : OnItsWay(em, c, f) => OnItsWay(en, c, f) \/ (f = e /\ c \in Now(hs))
  BY DeliveredLeft
<1>3. \A x \in Producers : c \in Left(en[x]) => k <= en[x].event
  BY <1>2 DEF CoveredFrom
<1>4. CASE c \notin Now(hs)
  BY <1>2, <1>3, <1>4 DEF CoveredFrom
<1>5. CASE c \in Now(hs)
  <2> DEFINE t == Push(q, e)
             v == Append(w, e)
  <2>1. ToSet(v) = ToSet(w) \cup {e}
    <3>1. v \in Seq(1..n) /\ Len(v) = Len(w) + 1 /\ v[Len(w) + 1] = e
          /\ \A i \in 1..Len(w) : v[i] = w[i]
      BY <1>1, AppendFacts
    <3>2. DOMAIN v = 1..(Len(w) + 1) /\ DOMAIN w = 1..Len(w) /\ Len(w) \in Nat
      BY <1>1, <3>1
    <3> HIDE DEF v
    <3>3. \A i \in DOMAIN v : i \in DOMAIN w \/ i = Len(w) + 1
      BY <3>2
    <3>4. Len(w) + 1 \in DOMAIN v /\ DOMAIN w \subseteq DOMAIN v
      BY <3>2
    <3>5. \A i \in DOMAIN w : v[i] = w[i]
      BY <3>1, <3>2
    <3>. QED
      BY <3>1, <3>3, <3>4, <3>5 DEF ToSet
  <2>2. ToSet(t) \subseteq ToSet(q) \cup {e}
    BY <1>1, BoundedElements DEF Push
  <2> HIDE DEF t, v
  <2>3. k <= e
    <3>1. p \in Producers /\ em[p].event = e
      BY DEF Delivering
    <3>. QED
      BY <1>2, <1>5, <3>1 DEF CoveredFrom
  <2>4. \A f \in ToSet(r) \cup ToSet(h) \cup ToSet(t) : k <= f
    BY <2>2, <2>3 DEF CoveredFrom
  <2>5. \A f \in k..n : f \in ToSet(r) \cup ToSet(h) \cup ToSet(v) \cup z \/ OnItsWay(en, c, f)
    BY <1>2, <2>1 DEF CoveredFrom
  <2>6. CoveredFrom(k, n, en, c, r, h, t, v, z)
    BY <1>3, <2>4, <2>5 DEF CoveredFrom
  <2>. QED
    BY <1>5, <2>6 DEF t, v
<1>. QED
  BY <1>4, <1>5

-----------------------------------------------------------------------------
(* The steps.                                                              *)

LEMMA InitInv == Init => Inv
<1> SUFFICES ASSUME Init PROVE Inv
  OBVIOUS
<1>1. handlers \in Seq({"slow", "buffer"})
      /\ \A i, j \in DOMAIN handlers : handlers[i] = "buffer" /\ handlers[j] = "buffer" => i = j
  BY RegisteredAssumption DEF Init
<1>2. \A i \in DOMAIN handlers : handlers[i] \in {"slow", "buffer"}
  BY <1>1
<1>3. NoRepeats(handlers) /\ ClientsLast(handlers)
  BY <1>1, <1>2, ClientsAssumption DEF NoRepeats, ClientsLast
<1>4. NotEmitting.event = 0 /\ NotEmitting.rest = <<>> /\ Left(NotEmitting) = {}
      /\ NotEmitting \in [event : 0..0, rest : Seq(Handlers)]
  BY DEF NotEmitting, Left, ToSet
<1>5. \A p \in Producers : emitting[p] = NotEmitting
  BY DEF Init
<1>6. Types
  <2>1. published \in 0..MaxEvents /\ owner \in [1..published -> Producers]
    BY MaxEventsAssumption DEF Init
  <2>2. emitting \in EmissionsAt(published)
    BY <1>4 DEF Init, EmissionsAt
  <2>3. handlers \in Seq(Handlers)
    BY <1>1 DEF Handlers
  <2>4. PerStream(replay) /\ PerStream(queue) /\ PerStream(pushed) /\ PerStream(received)
    BY DEF Init, PerStream
  <2>5. cut \in [Clients -> SUBSET (1..published)]
    BY DEF Init
  <2>. QED
    BY <2>1, <2>2, <2>3, <2>4, <2>5 DEF Types, Init
<1>7. HandlersInv
  BY <1>2, <1>3, <1>4, <1>5, ClientsAssumption DEF HandlersInv, Handled, NeverHandled, ToSet, Init
<1>8. FlightInv
  BY <1>4, <1>5 DEF FlightInv, Flight, NoRepeats
<1>9. BufferInv
  BY <1>4, <1>5, SizeAssumption DEF BufferInv, BufferAt, Ordered, Fresh, Init
<1>10. StreamInv
  <2> SUFFICES ASSUME NEW c \in Clients
               PROVE  /\ StreamAt(published, owner, emitting, c, received[c], replay[c], queue[c], pushed[c])
                      /\ Empty(c)
    BY DEF StreamInv
  <2>1. Empty(c)
    BY DEF Init, Empty
  <2>2. StreamAt(published, owner, emitting, c, <<>>, <<>>, <<>>, <<>>)
    <3>1. InOrder(owner, <<>>, <<>>, <<>>)
      BY DEF InOrder, Ordered, Before
    <3>2. Kept(<<>>, <<>>, <<>>)
      BY DEF Kept, Suffix
    <3>3. Fresh(emitting, c, <<>>)
      BY <1>4, <1>5 DEF Fresh
    <3>4. Len(<<>>) <= QueueSize /\ <<>> \in Seq(1..published)
      BY SizeAssumption
    <3>. QED
      BY <3>1, <3>2, <3>3, <3>4 DEF StreamAt
  <2>. QED
    BY <2>1, <2>2 DEF Empty
<1>11. GapInv
  BY <1>4, <1>5 DEF GapInv, BufferFull, Init
<1>. QED
  BY <1>6, <1>7, <1>8, <1>9, <1>10, <1>11 DEF Inv

(* The state seen with n events, owned by o, and the emissions em.         *)
Situated(n, o, em) ==
    /\ n \in 0..MaxEvents
    /\ o \in [1..n -> Producers]
    /\ cut \in [Clients -> SUBSET (1..n)]
    /\ BufferAt(n, o, em, buffer)
    /\ \A c \in Clients :
         /\ StreamAt(n, o, em, c, received[c], replay[c], queue[c], pushed[c])
         /\ status[c] = "new" => /\ Empty(c)
                                 /\ \A x \in Producers : c \notin Left(em[x])

(* em are the emissions once e of p is to go to hs.                        *)
Underway(em, p, e, hs) == em = [emitting EXCEPT ![p] = [event |-> e, rest |-> hs]]

Following(n, em) ==
    \A c \in Clients : status[c] \in {"opened", "streaming"} =>
        \E k \in 1..(n + 1) :
            CoveredFrom(k, n, em, c, received[c], replay[c], queue[c], pushed[c], cut[c])

LEMMA DispatchStep ==
  ASSUME NEW n, NEW o, NEW em, NEW p, NEW e, NEW hs,
         Types, HandlersInv, Delivering(n, o, em, p, e, hs), Situated(n, o, em),
         Underway(em, p, e, hs), Dispatch(p, e, hs),
         published' = n, owner' = o,
         UNCHANGED <<handlers, status, replay, received, cut>>
  PROVE  /\ Types' /\ HandlersInv' /\ FlightInv' /\ BufferInv' /\ StreamInv'
         /\ emitting' = Delivered(em, p, e, hs)
         /\ Following(n, em) => \A c \in Clients : status[c] \in {"opened", "streaming"} => Covered(c)'
<1> DEFINE N == Now(hs)
<1>1. /\ buffer' = IF "buffer" \in N THEN Record(buffer, e) ELSE buffer
      /\ queue' = [c \in Clients |-> IF c \in N THEN Push(queue[c], e) ELSE queue[c]]
      /\ pushed' = [c \in Clients |-> IF c \in N THEN Append(pushed[c], e) ELSE pushed[c]]
      /\ emitting' = [emitting EXCEPT ![p] = Onward(e, hs)]
  BY DEF Dispatch, Onward, Now
<1>2. emitting' = Delivered(em, p, e, hs)
  BY <1>1 DEF Delivered, Types, EmissionsAt, Underway
<1>3. /\ emitting' \in EmissionsAt(n)
      /\ \A x \in Producers : Flight(o, x, emitting'[x])
  BY <1>2, DeliveredFlights
<1>4. /\ \A x \in Producers : \A h \in Left(emitting'[x]) : h \in Left(em[x])
      /\ \A h \in N : h \in Left(em[p])
      /\ p \in Producers
  <2>1. p \in Producers
    BY DEF Delivering
  <2>2. /\ \A x \in Producers : \A h \in Left(emitting'[x]) :
              h \in Left(em[x]) /\ emitting'[x].event = em[x].event
        /\ \A h \in Now(hs) : h \in Left(em[p]) /\ h \notin Left(emitting'[p])
    BY <1>2, DeliveredLeft
  <2>. QED
    BY <2>1, <2>2
<1> HIDE DEF N
<1>5. Types'
  <2>1. PerStream(queue)' /\ PerStream(pushed)' /\ PerStream(replay)' /\ PerStream(received)'
    BY <1>1 DEF Types, PerStream
  <2>2. /\ (published \in 0..MaxEvents)' /\ (owner \in [1..published -> Producers])'
        /\ (cut \in [Clients -> SUBSET (1..published)])'
    BY DEF Situated
  <2>. QED
    BY <1>3, <2>1, <2>2 DEF Types
<1>6. HandlersInv'
  BY <1>4 DEF HandlersInv, Handled, NeverHandled, Situated
<1>7. FlightInv'
  BY <1>3 DEF FlightInv
<1>8. BufferInv'
  <2>1. BufferAt(n, o, em, buffer)
    BY DEF Situated
  <2>2. BufferAt(n, o, emitting', IF "buffer" \in N THEN Record(buffer, e) ELSE buffer)
    BY <1>2, <2>1, DeliveredBuffer DEF N
  <2>. QED
    BY <1>1, <2>2 DEF BufferInv
<1>9. \A c \in Clients : /\ c \in N => queue'[c] = Push(queue[c], e) /\ pushed'[c] = Append(pushed[c], e)
                         /\ c \notin N => queue'[c] = queue[c] /\ pushed'[c] = pushed[c]
  BY <1>1
<1>10. StreamInv'
  <2> SUFFICES ASSUME NEW c \in Clients
               PROVE  /\ StreamAt(n, o, emitting', c, received[c], replay[c], queue'[c], pushed'[c])
                      /\ status[c] = "new" => Empty(c)'
    BY DEF StreamInv
  <2>1. StreamAt(n, o, em, c, received[c], replay[c], queue[c], pushed[c])
    BY DEF Situated
  <2>2. /\ c \notin N => StreamAt(n, o, emitting', c, received[c], replay[c], queue[c], pushed[c])
        /\ c \in N => StreamAt(n, o, emitting', c, received[c], replay[c], Push(queue[c], e), Append(pushed[c], e))
    BY <1>2, <2>1, DeliveredStream DEF N
  <2>3. status[c] = "new" => Empty(c) /\ c \notin N
    BY <1>4 DEF Situated
  <2>. QED
    BY <1>9, <2>2, <2>3 DEF Empty
<1>11. ASSUME Following(n, em), NEW c \in Clients, status[c] \in {"opened", "streaming"}
       PROVE  Covered(c)'
  <2>1. PICK k \in 1..(n + 1) : CoveredFrom(k, n, em, c, received[c], replay[c], queue[c], pushed[c], cut[c])
    BY <1>11 DEF Following
  <2>2. StreamAt(n, o, em, c, received[c], replay[c], queue[c], pushed[c]) /\ c # "slow"
    BY ClientsAssumption DEF Situated
  <2>3. /\ c \notin N => CoveredFrom(k, n, emitting', c, received[c], replay[c], queue[c], pushed[c], cut[c])
        /\ c \in N => CoveredFrom(k, n, emitting', c, received[c], replay[c], Push(queue[c], e), Append(pushed[c], e), cut[c])
    BY <1>2, <2>1, <2>2, DeliveredCovered DEF N
  <2>4. CoveredFrom(k, n, emitting', c, received[c], replay[c], queue'[c], pushed'[c], cut'[c])
    BY <1>9, <2>3
  <2>. QED
    BY <2>4 DEF Covered
<1>. QED
  BY <1>2, <1>5, <1>6, <1>7, <1>8, <1>10, <1>11

(* emit: an event of its own number, for all handlers.                     *)
LEMMA Published ==
  ASSUME Inv, NEW p \in Producers, published < MaxEvents, emitting[p] = NotEmitting,
         NEW n, n = published + 1, NEW o, o = Append(owner, p),
         NEW em, em = [emitting EXCEPT ![p] = [event |-> n, rest |-> handlers]]
  PROVE  /\ Delivering(n, o, em, p, n, handlers)
         /\ Situated(n, o, em)
         /\ BufferFirst => Following(n, em)
<1>1. /\ n \in Nat /\ n \in 1..MaxEvents /\ published \in Nat
      /\ owner \in [1..published -> Producers]
      /\ emitting \in EmissionsAt(published) /\ handlers \in Seq(Handlers) /\ NoRepeats(handlers)
  BY MaxEventsAssumption DEF Inv, Types, HandlersInv
<1>2. o \in [1..n -> Producers] /\ o[n] = p /\ \A x \in 1..published : o[x] = owner[x]
  <2>1. owner \in Seq(Producers) /\ Len(owner) = published
    BY <1>1
  <2>2. /\ o \in Seq(Producers) /\ Len(o) = published + 1
        /\ o[published + 1] = p
        /\ \A x \in 1..published : o[x] = owner[x]
    BY <2>1, AppendFacts
  <2>3. DOMAIN o = 1..n
    BY <1>1, <2>2
  <2>4. o \in [1..Len(o) -> Producers]
    BY <2>2, ElementsFacts
  <2>. QED
    BY <1>1, <2>2, <2>3, <2>4
<1>3. /\ em[p] = [event |-> n, rest |-> handlers]
      /\ \A x \in Producers \ {p} : em[x] = emitting[x]
  BY <1>1 DEF EmissionsAt
<1>4. em \in EmissionsAt(n)
  <2>1. \A x \in Producers : emitting[x] \in [event : 0..published, rest : Seq(Handlers)]
    BY <1>1 DEF EmissionsAt
  <2>2. \A x \in Producers : em[x] \in [event : 0..n, rest : Seq(Handlers)]
    BY <1>1, <1>3, <2>1
  <2>3. em = [x \in Producers |-> em[x]]
    BY <1>1 DEF EmissionsAt
  <2>. QED
    BY <2>2, <2>3 DEF EmissionsAt
<1>5. \A x \in Producers \ {p} : Flight(o, x, em[x])
  <2> SUFFICES ASSUME NEW x \in Producers \ {p} PROVE Flight(o, x, emitting[x])
    BY <1>3
  <2>1. Flight(owner, x, emitting[x]) /\ emitting[x].event \in 0..published
    BY <1>1 DEF Inv, FlightInv, EmissionsAt
  <2>2. DOMAIN owner = 1..published /\ DOMAIN o = 1..n /\ \A y \in 1..n : y \in 1..published \/ y = n
    BY <1>1, <1>2
  <2>3. emitting[x].event # 0 => emitting[x].event \in 1..published
    BY <1>1, <2>1
  <2>. QED
    BY <1>2, <2>1, <2>2, <2>3 DEF Flight
<1>6. Flight(o, p, em[p])
  <2>1. DOMAIN o = 1..n
    BY <1>2
  <2>. QED
    BY <1>1, <1>2, <1>3, <2>1 DEF Flight
<1>7. Delivering(n, o, em, p, n, handlers)
  BY <1>1, <1>2, <1>3, <1>4, <1>5, <1>6 DEF Delivering
<1>8. \A s \in Seq(1..published) : s \in Seq(1..n) /\ n \notin ToSet(s)
  <2>1. \A s \in Seq(1..published) : s \in Seq(1..n)
    BY <1>1, SeqOfMore
  <2>2. n \notin 1..published
    BY <1>1
  <2>3. ASSUME NEW s \in Seq(1..published) PROVE ToSet(s) \subseteq 1..published
    BY ElementsFacts
  <2>. QED
    BY <2>1, <2>2, <2>3
<1>9. \A h, s : s \in Seq(1..published) /\ Fresh(emitting, h, s) => Fresh(em, h, s)
  BY <1>3, <1>8 DEF Fresh
<1>10. \A s, t \in Seq(1..published) : /\ Ordered(owner, s) => Ordered(o, s)
                                       /\ Before(owner, s, t) => Before(o, s, t)
  BY <1>1, <1>2, OrderStays
<1>11. BufferAt(n, o, em, buffer)
  BY <1>8, <1>9, <1>10 DEF Inv, BufferInv, BufferAt
<1>12. ASSUME NEW c \in Clients
       PROVE  StreamAt(n, o, em, c, received[c], replay[c], queue[c], pushed[c])
  <2> DEFINE r == received[c]
             h == replay[c]
             q == queue[c]
             w == pushed[c]
  <2>1. StreamAt(published, owner, emitting, c, r, h, q, w)
    BY DEF Inv, StreamInv
  <2> HIDE DEF r, h, q, w
  <2>2. r \in Seq(1..published) /\ h \in Seq(1..published) /\ q \in Seq(1..published) /\ w \in Seq(1..published)
    BY <2>1 DEF StreamAt
  <2>3. InOrder(o, r, h, q)
    BY <1>10, <2>1, <2>2 DEF StreamAt, InOrder
  <2>4. Fresh(em, c, r) /\ Fresh(em, c, h) /\ Fresh(em, c, q)
    BY <1>9, <2>1, <2>2 DEF StreamAt
  <2>5. StreamAt(n, o, em, c, r, h, q, w)
    BY <1>8, <2>1, <2>2, <2>3, <2>4 DEF StreamAt
  <2>. QED
    BY <2>5 DEF r, h, q, w
<1>13. ASSUME NEW c \in Clients, status[c] = "new"
       PROVE  Empty(c) /\ \A x \in Producers : c \notin Left(em[x])
  BY <1>3, <1>13 DEF Inv, StreamInv, HandlersInv, NeverHandled, Handled, Left
<1>14. Situated(n, o, em)
  <2>1. n \in 0..MaxEvents
    BY <1>1
  <2>2. o \in [1..n -> Producers]
    BY <1>2
  <2>3. cut \in [Clients -> SUBSET (1..n)]
    <3>1. cut \in [Clients -> SUBSET (1..published)] /\ 1..published \subseteq 1..n
      BY <1>1 DEF Inv, Types
    <3>. QED
      BY <3>1
  <2>. QED
    BY <2>1, <2>2, <2>3, <1>11, <1>12, <1>13, Zenon DEF Situated
<1>15. ASSUME BufferFirst, NEW c \in Clients, status[c] \in {"opened", "streaming"}
       PROVE  \E k \in 1..(n + 1) :
                CoveredFrom(k, n, em, c, received[c], replay[c], queue[c], pushed[c], cut[c])
  <2>1. Covered(c) /\ Handled(c)
    BY <1>15 DEF Inv, GapInv, HandlersInv
  <2>2. PICK k \in 1..(published + 1) :
          CoveredFrom(k, published, emitting, c, received[c], replay[c], queue[c], pushed[c], cut[c])
    BY <2>1 DEF Covered
  <2>3. c \in Left(em[p]) /\ em[p].event = n /\ k <= n /\ k \in 1..(n + 1)
    BY <1>1, <1>3, <2>1 DEF Handled, Left
  <2>4. \A f : OnItsWay(emitting, c, f) => OnItsWay(em, c, f)
    <3>1. Left(emitting[p]) = {}
      BY DEF Left, NotEmitting, ToSet
    <3>. QED
      BY <1>3, <3>1 DEF OnItsWay
  <2>5. OnItsWay(em, c, n)
    BY <2>3 DEF OnItsWay
  <2>6. \A f \in k..n : f \in k..published \/ f = n
    BY <1>1
  <2>7. \A x \in Producers : c \in Left(em[x]) => k <= em[x].event
    BY <1>3, <2>2, <2>3 DEF CoveredFrom
  <2>8. CoveredFrom(k, n, em, c, received[c], replay[c], queue[c], pushed[c], cut[c])
    BY <2>2, <2>4, <2>5, <2>6, <2>7 DEF CoveredFrom
  <2>. QED
    BY <2>3, <2>8
<1>. QED
  BY <1>7, <1>14, <1>15 DEF Following

LEMMA EmitStep ==
  ASSUME Inv, NEW p \in Producers, Emit(p)
  PROVE  Inv'
<1> DEFINE n == published + 1
           o == Append(owner, p)
           em == [emitting EXCEPT ![p] = [event |-> n, rest |-> handlers]]
<1>1. /\ published < MaxEvents /\ emitting[p] = NotEmitting
      /\ published' = n /\ owner' = o /\ Dispatch(p, n, handlers)
      /\ UNCHANGED <<handlers, status, replay, received, cut>>
  BY DEF Emit
<1>2. em = [emitting EXCEPT ![p] = [event |-> n, rest |-> handlers]]
  OBVIOUS
<1> HIDE DEF em
<1>3. /\ Delivering(n, o, em, p, n, handlers)
      /\ Situated(n, o, em)
      /\ BufferFirst => Following(n, em)
  BY <1>1, <1>2, Published
<1>4. /\ Types' /\ HandlersInv' /\ FlightInv' /\ BufferInv' /\ StreamInv'
      /\ emitting' = Delivered(em, p, n, handlers)
      /\ Following(n, em) => \A c \in Clients : status[c] \in {"opened", "streaming"} => Covered(c)'
  <2>1. Types /\ HandlersInv
    BY DEF Inv
  <2> HIDE DEF n, o
  <2>. QED
    BY <1>1, <1>2, <1>3, <2>1, DispatchStep DEF Underway
<1>5. ASSUME BufferFirst PROVE BufferFull'
  <2>1. "buffer" \in Now(handlers)
    BY <1>5, NowFacts DEF BufferFirst, Inv, Types
  <2>2. buffer' = Record(buffer, n)
    BY <1>1, <2>1 DEF Dispatch, Now
  <2>3. ASSUME NEW x \in Producers PROVE "buffer" \notin Left(emitting'[x])
    <3>1. /\ "buffer" \in Left(emitting'[x]) => "buffer" \in Left(em[x])
          /\ "buffer" \notin Left(emitting'[p])
      <4> HIDE DEF n, o
      <4>. QED
        BY <1>3, <1>4, <2>1, DeliveredLeft
    <3>2. x # p => em[x] = emitting[x]
      BY <1>2 DEF Inv, Types, EmissionsAt
    <3>. QED
      BY <1>5, <3>1, <3>2 DEF Inv, GapInv, BufferFull
  <2>4. ASSUME NEW i \in DOMAIN buffer' PROVE buffer'[i] = published' - Len(buffer') + i
    <3>1. n \in Nat /\ n \in 1..n /\ buffer \in Seq(1..n) /\ Len(buffer) <= BufferSize /\ BufferSize \in Nat \ {0}
      BY <1>3, SizeAssumption DEF Situated, BufferAt, Delivering
    <3>2. buffer' = IF Len(buffer) < BufferSize THEN Append(buffer, n) ELSE Append(Tail(buffer), n)
      BY <2>2 DEF Record
    <3>3. PICK d \in {0, 1} :
            /\ Len(buffer') = Len(buffer) - d + 1
            /\ buffer'[Len(buffer')] = n
            /\ \A j \in 1..(Len(buffer') - 1) : buffer'[j] = buffer[j + d] /\ j + d \in DOMAIN buffer
      <4> HIDE DEF n
      <4>. QED
        BY <3>1, <3>2, BoundedAppend
    <3>4. i \in 1..Len(buffer') /\ Len(buffer') \in Nat
      <4>1. buffer' \in Seq(1..n)
        <5> HIDE DEF n
        <5>. QED
          BY <3>1, <3>2, BoundedAppend
      <4>. QED
        BY <4>1
    <3>5. \A j \in DOMAIN buffer : buffer[j] = published - Len(buffer) + j
      BY <1>5 DEF Inv, GapInv, BufferFull
    <3>6. published \in Nat /\ Len(buffer) \in Nat
      BY <3>1 DEF Inv, Types
    <3>7. CASE i = Len(buffer')
      BY <1>1, <3>1, <3>3, <3>4, <3>7
    <3>8. CASE i # Len(buffer')
      <4>1. i \in 1..(Len(buffer') - 1)
        BY <3>4, <3>8
      <4>2. buffer'[i] = published - Len(buffer) + (i + d)
        BY <3>3, <3>5, <4>1
      <4>3. published' = published + 1 /\ Len(buffer') = Len(buffer) - d + 1
        BY <1>1, <3>3
      <4>. QED
        BY <3>4, <3>6, <4>2, <4>3
    <3>. QED
      BY <3>7, <3>8
  <2>. QED
    BY <2>3, <2>4 DEF BufferFull
<1>6. GapInv'
  BY <1>1, <1>3, <1>4, <1>5 DEF GapInv, BufferFirst
<1>. QED
  BY <1>4, <1>6 DEF Inv

LEMMA ResumeStep ==
  ASSUME Inv, NEW p \in Producers, Resume(p)
  PROVE  Inv'
<1> DEFINE e == emitting[p].event
           hs == emitting[p].rest
<1>1. /\ emitting[p] # NotEmitting /\ Dispatch(p, e, hs)
      /\ published' = published /\ owner' = owner
      /\ UNCHANGED <<handlers, status, replay, received, cut>>
  BY DEF Resume
<1>2. emitting = [emitting EXCEPT ![p] = [event |-> e, rest |-> hs]]
      /\ emitting[p] = [event |-> e, rest |-> hs]
      /\ e \in 0..published /\ hs \in Seq(Handlers)
  BY DEF Inv, Types, EmissionsAt
<1>3. Delivering(published, owner, emitting, p, e, hs)
  <2>1. e \in 1..published
    BY <1>1, <1>2 DEF Inv, FlightInv, Flight, Types
  <2>2. NoRepeats(hs)
    BY DEF Inv, FlightInv, Flight
  <2>3. published \in Nat /\ DOMAIN owner = 1..published /\ emitting \in EmissionsAt(published)
    BY DEF Inv, Types
  <2>. QED
    BY <1>2, <2>1, <2>2, <2>3 DEF Delivering, Inv, FlightInv
<1>4. Situated(published, owner, emitting)
  BY DEF Situated, Inv, Types, BufferInv, StreamInv, HandlersInv, NeverHandled
<1>5. BufferFirst => Following(published, emitting)
  BY DEF Inv, GapInv, Covered, Following
<1> HIDE DEF e, hs
<1>6. /\ Types' /\ HandlersInv' /\ FlightInv' /\ BufferInv' /\ StreamInv'
      /\ emitting' = Delivered(emitting, p, e, hs)
      /\ Following(published, emitting) =>
           \A c \in Clients : status[c] \in {"opened", "streaming"} => Covered(c)'
  <2>1. Types /\ HandlersInv
    BY DEF Inv
  <2>. QED
    BY <1>1, <1>2, <1>3, <1>4, <2>1, DispatchStep DEF Underway
<1>7. ASSUME BufferFirst PROVE BufferFull'
  <2>1. \A x \in Producers : "buffer" \notin Left(emitting[x])
    BY <1>7 DEF Inv, GapInv, BufferFull
  <2>2. /\ \A x \in Producers : "buffer" \notin Left(emitting'[x])
        /\ "buffer" \notin Now(hs)
    BY <1>3, <1>6, <2>1, DeliveredLeft
  <2>3. buffer' = buffer
    BY <1>1, <2>2 DEF Dispatch, Now
  <2>. QED
    BY <1>1, <1>7, <2>2, <2>3 DEF Inv, GapInv, BufferFull
<1>8. GapInv'
  BY <1>1, <1>5, <1>6, <1>7 DEF GapInv, BufferFirst
<1>. QED
  BY <1>6, <1>8 DEF Inv

(* A cancelled emission is no longer on its way, but cut off.              *)
LEMMA CancelStep ==
  ASSUME Inv, NEW p \in Producers, CancelEmission(p)
  PROVE  Inv'
<1> DEFINE e == emitting[p].event
<1>1. /\ emitting[p] # NotEmitting
      /\ emitting' = [emitting EXCEPT ![p] = NotEmitting]
      /\ cut' = [c \in Clients |-> IF c \in Left(emitting[p]) THEN cut[c] \cup {e} ELSE cut[c]]
      /\ UNCHANGED <<published, owner, handlers, buffer, status, replay, queue, pushed, received>>
  BY DEF CancelEmission, Left
<1>2. /\ Types /\ published \in Nat /\ e \in 1..published
      /\ emitting \in EmissionsAt(published) /\ cut \in [Clients -> SUBSET (1..published)]
  BY <1>1 DEF Inv, FlightInv, Flight, Types, EmissionsAt
<1>3. /\ NotEmitting.event = 0 /\ NotEmitting.rest = <<>> /\ Left(NotEmitting) = {}
      /\ NotEmitting \in [event : 0..published, rest : Seq(Handlers)]
  BY <1>2 DEF NotEmitting, Left, ToSet
<1>4. emitting'[p] = NotEmitting /\ \A x \in Producers \ {p} : emitting'[x] = emitting[x]
  BY <1>1, <1>2 DEF EmissionsAt
<1>5. \A x \in Producers : \A h \in Left(emitting'[x]) :
        h \in Left(emitting[x]) /\ emitting'[x].event = emitting[x].event
  BY <1>3, <1>4
<1> HIDE DEF e
<1>6. Types'
  <2>1. emitting' \in EmissionsAt(published)
    BY <1>1, <1>2, <1>3 DEF EmissionsAt
  <2>2. cut' \in [Clients -> SUBSET (1..published)]
    BY <1>1, <1>2
  <2>. QED
    BY <1>1, <1>2, <2>1, <2>2 DEF Types, PerStream
<1>7. HandlersInv'
  BY <1>1, <1>5 DEF Inv, HandlersInv, Handled, NeverHandled
<1>8. FlightInv'
  <2>1. Flight(owner, p, NotEmitting)
    BY <1>3 DEF Flight, NoRepeats
  <2>. QED
    BY <1>1, <1>4, <2>1 DEF Inv, FlightInv
<1>9. \A h, s : Fresh(emitting, h, s) => Fresh(emitting', h, s)
  BY <1>5 DEF Fresh
<1>10. BufferInv' /\ StreamInv'
  <2>1. BufferInv'
    BY <1>1, <1>9 DEF Inv, BufferInv, BufferAt
  <2>2. StreamInv'
    BY <1>1, <1>9 DEF Inv, StreamInv, StreamAt, Empty
  <2>. QED
    BY <2>1, <2>2
<1>11. BufferFull => BufferFull'
  BY <1>1, <1>5 DEF BufferFull
<1>12. ASSUME NEW c \in Clients, Covered(c) PROVE Covered(c)'
  <2>1. PICK k \in 1..(published + 1) :
          CoveredFrom(k, published, emitting, c, received[c], replay[c], queue[c], pushed[c], cut[c])
    BY <1>12 DEF Covered
  <2>2. cut[c] \subseteq cut'[c] /\ (c \in Left(emitting[p]) => e \in cut'[c])
    BY <1>1
  <2>3. \A f : OnItsWay(emitting, c, f) => OnItsWay(emitting', c, f) \/ f \in cut'[c]
    <3> SUFFICES ASSUME NEW f, NEW x \in Producers, emitting[x].event = f, c \in Left(emitting[x])
                 PROVE  OnItsWay(emitting', c, f) \/ f \in cut'[c]
      BY DEF OnItsWay
    <3>1. CASE x = p
      BY <2>2, <3>1 DEF e
    <3>2. CASE x # p
      BY <1>4, <3>2 DEF OnItsWay
    <3>. QED
      BY <3>1, <3>2
  <2>4. \A x \in Producers : c \in Left(emitting'[x]) => k <= emitting'[x].event
    BY <1>5, <2>1 DEF CoveredFrom
  <2>5. CoveredFrom(k, published, emitting', c, received[c], replay[c], queue[c], pushed[c], cut'[c])
    BY <2>1, <2>2, <2>3, <2>4 DEF CoveredFrom
  <2>. QED
    BY <1>1, <2>5 DEF Covered
<1>13. GapInv'
  BY <1>1, <1>11, <1>12 DEF Inv, GapInv, BufferFirst
<1>. QED
  BY <1>6, <1>7, <1>8, <1>10, <1>13 DEF Inv

(* A new stream: the buffer to replay, nothing else.                       *)
LEMMA OpenStep ==
  ASSUME Inv, NEW c \in Clients, Open(c)
  PROVE  Inv'
<1>1. /\ status[c] = "new" /\ status' = [status EXCEPT ![c] = "opened"]
      /\ handlers' = Append(handlers, c)
      /\ replay' = [replay EXCEPT ![c] = buffer]
      /\ UNCHANGED <<published, owner, emitting, buffer, queue, pushed, received, cut>>
  BY DEF Open
<1>2. handlers \in Seq(Handlers) /\ c \in Handlers /\ PerStream(replay)
      /\ status \in [Clients -> {"new", "opened", "streaming", "closed"}]
  BY DEF Inv, Types, Handlers
<1>3. /\ Len(handlers') = Len(handlers) + 1 /\ handlers' \in Seq(Handlers)
      /\ handlers'[Len(handlers) + 1] = c
      /\ \A i \in 1..Len(handlers) : handlers'[i] = handlers[i]
  BY <1>1, <1>2, AppendFacts
<1>4. /\ Len(handlers) \in Nat /\ DOMAIN handlers = 1..Len(handlers)
      /\ DOMAIN handlers' = 1..(Len(handlers) + 1)
  BY <1>2, <1>3
<1>5. /\ \A i \in DOMAIN handlers' : \/ i \in DOMAIN handlers /\ handlers'[i] = handlers[i]
                                     \/ i = Len(handlers) + 1 /\ handlers'[i] = c
      /\ \A i \in DOMAIN handlers : i \in DOMAIN handlers' /\ handlers'[i] = handlers[i]
      /\ Len(handlers) + 1 \in DOMAIN handlers'
  BY <1>3, <1>4
<1>6. NeverHandled(c) /\ Empty(c)
  BY <1>1 DEF Inv, HandlersInv, StreamInv
<1>7. replay'[c] = buffer /\ \A d \in Clients \ {c} : replay'[d] = replay[d]
  BY <1>1, <1>2 DEF PerStream
<1>8. status'[c] = "opened" /\ \A d \in Clients \ {c} : status'[d] = status[d]
  BY <1>1, <1>2
<1>9. Types'
  <2>1. PerStream(replay)'
    BY <1>1, <1>2 DEF PerStream
  <2>2. (status \in [Clients -> {"new", "opened", "streaming", "closed"}])'
    BY <1>1, <1>2
  <2>3. Types
    BY DEF Inv
  <2>. QED
    BY <1>1, <1>3, <2>1, <2>2, <2>3 DEF Types, PerStream
<1>10. HandlersInv'
  <2>1. NoRepeats(handlers')
    <3>1. \A i \in DOMAIN handlers : handlers[i] # c
      BY <1>6 DEF NeverHandled, Handled, ToSet
    <3>2. NoRepeats(handlers)
      BY DEF Inv, HandlersInv
    <3>. QED
      BY <1>5, <3>1, <3>2 DEF NoRepeats
  <2>2. ClientsLast(handlers')
    <3>1. ClientsLast(handlers)
      BY DEF Inv, HandlersInv
    <3>2. \A i \in DOMAIN handlers', j \in DOMAIN handlers' : i < j => i \in DOMAIN handlers
      BY <1>4
    <3>. QED
      BY <1>5, <3>1, <3>2 DEF ClientsLast
  <2>3. ToSet(handlers') = ToSet(handlers) \cup {c}
    BY <1>5 DEF ToSet
  <2>4. \A d \in Clients : /\ status'[d] \in {"opened", "streaming"} => Handled(d)'
                           /\ status'[d] = "new" => NeverHandled(d)'
    BY <1>1, <1>8, <2>3 DEF Inv, HandlersInv, Handled, NeverHandled
  <2>. QED
    BY <2>1, <2>2, <2>4 DEF HandlersInv
<1>11. FlightInv' /\ BufferInv'
  BY <1>1 DEF Inv, FlightInv, BufferInv
<1>12. StreamInv'
  <2>1. ASSUME NEW d \in Clients \ {c}
        PROVE  /\ StreamAt(published, owner, emitting, d, received[d], replay[d], queue[d], pushed[d])'
               /\ status'[d] = "new" => Empty(d)'
    BY <1>1, <1>7, <1>8 DEF Inv, StreamInv, Empty
  <2>2. StreamAt(published, owner, emitting, c, <<>>, buffer, <<>>, <<>>)
    <3>1. InOrder(owner, <<>>, buffer, <<>>)
      BY DEF Inv, BufferInv, BufferAt, InOrder, Ordered, Before
    <3>2. Kept(<<>>, <<>>, <<>>)
      BY DEF Kept, Suffix
    <3>3. Fresh(emitting, c, <<>>) /\ Fresh(emitting, c, buffer)
      BY <1>6 DEF NeverHandled, Fresh
    <3>4. Len(<<>>) <= QueueSize /\ <<>> \in Seq(1..published) /\ buffer \in Seq(1..published)
      BY SizeAssumption DEF Inv, BufferInv, BufferAt
    <3>. QED
      BY <3>1, <3>2, <3>3, <3>4 DEF StreamAt
  <2>3. StreamAt(published, owner, emitting, c, received[c], replay[c], queue[c], pushed[c])'
    BY <1>1, <1>6, <1>7, <2>2 DEF Empty
  <2>. QED
    BY <1>8, <2>1, <2>3 DEF StreamInv
<1>13. GapInv'
  <2> SUFFICES ASSUME BufferFirst'
               PROVE  /\ BufferFull'
                      /\ \A d \in Clients : status'[d] \in {"opened", "streaming"} => Covered(d)'
    BY DEF GapInv
  <2>1. BufferFirst
    <3>1. handlers'[1] = "buffer" /\ c # "buffer"
      BY ClientsAssumption DEF BufferFirst
    <3>2. Len(handlers) # 0
      BY <1>3, <3>1
    <3>3. 1 \in 1..Len(handlers)
      BY <1>4, <3>2
    <3>. QED
      BY <1>3, <3>1, <3>2, <3>3 DEF BufferFirst
  <2>2. BufferFull
    BY <2>1 DEF Inv, GapInv
  <2>3. BufferFull'
    BY <1>1, <2>2 DEF BufferFull
  <2>4. ASSUME NEW d \in Clients \ {c}, status'[d] \in {"opened", "streaming"} PROVE Covered(d)'
    BY <1>1, <1>7, <1>8, <2>1, <2>4 DEF Inv, GapInv, Covered
  <2>5. Covered(c)'
    <3> DEFINE k == published - Len(buffer) + 1
    <3>1. buffer \in Seq(1..published) /\ published \in Nat
      BY DEF Inv, BufferInv, BufferAt, Types
    <3>2. Len(buffer) \in Nat /\ DOMAIN buffer = 1..Len(buffer)
          /\ \A i \in DOMAIN buffer : buffer[i] \in 1..published /\ buffer[i] = published - Len(buffer) + i
      BY <2>2, <3>1 DEF BufferFull
    <3>3. k \in 1..(published + 1)
      <4>1. CASE Len(buffer) = 0
        BY <3>1, <4>1
      <4>2. CASE Len(buffer) # 0
        <5>1. buffer[1] = k /\ buffer[1] \in 1..published
          BY <3>1, <3>2, <4>2
        <5>. QED
          BY <3>1, <5>1
      <4>. QED
        BY <4>1, <4>2
    <3>4. \A e \in ToSet(buffer) : k <= e
      BY <3>1, <3>2 DEF ToSet
    <3>5. ASSUME NEW e \in k..published PROVE e \in ToSet(buffer)
      <4>1. e - (k - 1) \in DOMAIN buffer
        BY <3>1, <3>2
      <4>2. buffer[e - (k - 1)] = published - Len(buffer) + (e - (k - 1))
        BY <3>2, <4>1
      <4>3. published - Len(buffer) + (e - (k - 1)) = e
        BY <3>1, <3>2
      <4>. QED
        BY <4>1, <4>2, <4>3 DEF ToSet
    <3> HIDE DEF k
    <3>6. CoveredFrom(k, published, emitting, c, <<>>, buffer, <<>>, <<>>, cut[c])
      <4>1. ToSet(<<>>) = {}
        BY DEF ToSet
      <4>. QED
        BY <1>6, <3>4, <3>5, <4>1 DEF CoveredFrom, NeverHandled
    <3>7. CoveredFrom(k, published', emitting', c, received'[c], replay'[c], queue'[c], pushed'[c], cut'[c])
      BY <1>1, <1>6, <1>7, <3>6 DEF Empty
    <3>. QED
      BY <1>1, <3>3, <3>7 DEF Covered
  <2>. QED
    BY <2>3, <2>4, <2>5
<1>. QED
  BY <1>9, <1>10, <1>11, <1>12, <1>13 DEF Inv

(* The next chunk moves what is sent from one part to the next.            *)
LEMMA PulledReplay ==
  ASSUME NEW n \in Nat, NEW o, NEW em, NEW c, NEW r, NEW h, NEW q, NEW w,
         StreamAt(n, o, em, c, r, h, q, w), h # <<>>
  PROVE  /\ StreamAt(n, o, em, c, Append(r, Head(h)), Tail(h), q, w)
         /\ \A k, z : CoveredFrom(k, n, em, c, r, h, q, w, z) =>
                     CoveredFrom(k, n, em, c, Append(r, Head(h)), Tail(h), q, w, z)
<1> DEFINE rr == Append(r, Head(h))
           hh == Tail(h)
<1>1. /\ r \in Seq(1..n) /\ h \in Seq(1..n) /\ q \in Seq(1..n) /\ w \in Seq(1..n)
      /\ InOrder(o, r, h, q) /\ Kept(r, q, w)
      /\ Fresh(em, c, r) /\ Fresh(em, c, h) /\ Fresh(em, c, q)
  BY DEF StreamAt
<1>2. /\ rr \in Seq(1..n) /\ hh \in Seq(1..n)
      /\ ToSet(rr) = ToSet(r) \cup {Head(h)}
      /\ ToSet(h) = ToSet(hh) \cup {Head(h)}
  BY <1>1, MoveFacts
<1>3. InOrder(o, rr, hh, q)
  BY <1>1, OrderPulledReplay
<1>4. Kept(rr, q, w)
  BY <1>1, <1>2, KeptMore
<1> DEFINE x == Head(h)
<1> HIDE DEF rr, hh, x
<1>5. ToSet(rr) = ToSet(r) \cup {x} /\ ToSet(h) = ToSet(hh) \cup {x}
  BY <1>2 DEF x
<1>6. Fresh(em, c, rr) /\ Fresh(em, c, hh)
  BY <1>1, <1>5 DEF Fresh
<1>7. StreamAt(n, o, em, c, rr, hh, q, w)
  BY <1>1, <1>2, <1>3, <1>4, <1>6 DEF StreamAt
<1>8. ASSUME NEW k, NEW z, CoveredFrom(k, n, em, c, r, h, q, w, z) PROVE CoveredFrom(k, n, em, c, rr, hh, q, w, z)
  <2>1. ToSet(r) \cup ToSet(h) = ToSet(rr) \cup ToSet(hh)
    BY <1>5
  <2>. QED
    BY <1>8, <2>1 DEF CoveredFrom
<1>. QED
  BY <1>7, <1>8 DEF rr, hh

LEMMA PulledQueue ==
  ASSUME NEW n \in Nat, NEW o, NEW em, NEW c, NEW r, NEW q, NEW w,
         StreamAt(n, o, em, c, r, <<>>, q, w), q # <<>>
  PROVE  /\ StreamAt(n, o, em, c, Append(r, Head(q)), <<>>, Tail(q), w)
         /\ \A k, z : CoveredFrom(k, n, em, c, r, <<>>, q, w, z) =>
                     CoveredFrom(k, n, em, c, Append(r, Head(q)), <<>>, Tail(q), w, z)
<1> DEFINE rr == Append(r, Head(q))
           qq == Tail(q)
<1>1. /\ r \in Seq(1..n) /\ <<>> \in Seq(1..n) /\ q \in Seq(1..n) /\ w \in Seq(1..n)
      /\ InOrder(o, r, <<>>, q) /\ Kept(r, q, w) /\ Len(q) <= QueueSize
      /\ Fresh(em, c, r) /\ Fresh(em, c, <<>>) /\ Fresh(em, c, q)
  BY DEF StreamAt
<1>2. /\ rr \in Seq(1..n) /\ qq \in Seq(1..n) /\ Len(qq) <= Len(q)
      /\ ToSet(rr) = ToSet(r) \cup {Head(q)}
      /\ ToSet(q) = ToSet(qq) \cup {Head(q)}
  BY <1>1, MoveFacts
<1>3. InOrder(o, rr, <<>>, qq)
  BY <1>1, OrderPulledQueue
<1>4. Kept(rr, qq, w)
  BY <1>1, KeptPull
<1>5. Len(qq) <= QueueSize
  BY <1>1, <1>2, SizeAssumption
<1> DEFINE x == Head(q)
<1> HIDE DEF rr, qq, x
<1>6. ToSet(rr) = ToSet(r) \cup {x} /\ ToSet(q) = ToSet(qq) \cup {x}
  BY <1>2 DEF x
<1>7. Fresh(em, c, rr) /\ Fresh(em, c, qq)
  BY <1>1, <1>6 DEF Fresh
<1>8. StreamAt(n, o, em, c, rr, <<>>, qq, w)
  BY <1>1, <1>2, <1>3, <1>4, <1>5, <1>7 DEF StreamAt
<1>9. ASSUME NEW k, NEW z, CoveredFrom(k, n, em, c, r, <<>>, q, w, z) PROVE CoveredFrom(k, n, em, c, rr, <<>>, qq, w, z)
  <2>1. ToSet(r) \cup ToSet(q) = ToSet(rr) \cup ToSet(qq) /\ ToSet(r) \subseteq ToSet(rr)
    BY <1>6
  <2>. QED
    BY <1>9, <2>1 DEF CoveredFrom
<1>. QED
  BY <1>8, <1>9 DEF rr, qq

LEMMA PullStep ==
  ASSUME Inv, NEW c \in Clients, Pull(c)
  PROVE  Inv'
<1>1. /\ status[c] \in {"opened", "streaming"} /\ status' = [status EXCEPT ![c] = "streaming"]
      /\ UNCHANGED <<published, owner, emitting, handlers, buffer, pushed, cut>>
  BY DEF Pull
<1>2. /\ Types /\ published \in Nat
      /\ status \in [Clients -> {"new", "opened", "streaming", "closed"}]
      /\ PerStream(replay) /\ PerStream(queue) /\ PerStream(received)
  BY DEF Inv, Types
<1>3. status'[c] = "streaming" /\ \A d \in Clients \ {c} : status'[d] = status[d]
  BY <1>1, <1>2
<1>4. \A d \in Clients \ {c} : replay'[d] = replay[d] /\ queue'[d] = queue[d] /\ received'[d] = received[d]
  BY <1>2 DEF Pull, PerStream
<1>5. PerStream(replay)' /\ PerStream(queue)' /\ PerStream(received)'
  BY <1>2 DEF Pull, PerStream
<1>6. Types'
  <2>1. (status \in [Clients -> {"new", "opened", "streaming", "closed"}])'
    BY <1>1, <1>2
  <2>. QED
    BY <1>1, <1>2, <1>5, <2>1 DEF Types, PerStream
<1>7. HandlersInv'
  BY <1>1, <1>3 DEF Inv, HandlersInv, Handled, NeverHandled
<1>8. FlightInv' /\ BufferInv'
  BY <1>1 DEF Inv, FlightInv, BufferInv
<1>9. /\ StreamAt(published, owner, emitting, c, received'[c], replay'[c], queue'[c], pushed[c])
      /\ \A k : CoveredFrom(k, published, emitting, c, received[c], replay[c], queue[c], pushed[c], cut[c]) =>
                CoveredFrom(k, published, emitting, c, received'[c], replay'[c], queue'[c], pushed[c], cut[c])
  <2>1. StreamAt(published, owner, emitting, c, received[c], replay[c], queue[c], pushed[c])
    BY DEF Inv, StreamInv
  <2>2. CASE replay[c] # <<>>
    <3>1. /\ received'[c] = Append(received[c], Head(replay[c]))
          /\ replay'[c] = Tail(replay[c]) /\ queue'[c] = queue[c]
      BY <1>2, <2>2 DEF Pull, PerStream
    <3>. QED
      BY <1>2, <2>1, <2>2, <3>1, PulledReplay
  <2>3. CASE replay[c] = <<>>
    <3>1. /\ queue[c] # <<>>
          /\ received'[c] = Append(received[c], Head(queue[c]))
          /\ queue'[c] = Tail(queue[c]) /\ replay'[c] = <<>>
      BY <1>2, <2>3 DEF Pull, PerStream
    <3>2. StreamAt(published, owner, emitting, c, received[c], <<>>, queue[c], pushed[c])
      BY <2>1, <2>3
    <3>. QED
      BY <1>2, <2>3, <3>1, <3>2, PulledQueue
  <2>. QED
    BY <2>2, <2>3
<1>10. StreamInv'
  BY <1>1, <1>3, <1>4, <1>9 DEF Inv, StreamInv, Empty
<1>11. GapInv'
  <2> SUFFICES ASSUME BufferFirst
               PROVE  /\ BufferFull'
                      /\ \A d \in Clients : status'[d] \in {"opened", "streaming"} => Covered(d)'
    BY <1>1 DEF GapInv, BufferFirst
  <2>1. BufferFull'
    BY <1>1 DEF Inv, GapInv, BufferFull
  <2>2. ASSUME NEW d \in Clients \ {c}, status'[d] \in {"opened", "streaming"} PROVE Covered(d)'
    BY <1>1, <1>3, <1>4, <2>2 DEF Inv, GapInv, Covered
  <2>3. Covered(c)'
    <3>1. Covered(c)
      BY <1>1 DEF Inv, GapInv
    <3>. QED
      BY <1>1, <1>9, <3>1 DEF Covered
  <2>. QED
    BY <2>1, <2>2, <2>3
<1>. QED
  BY <1>6, <1>7, <1>8, <1>10, <1>11 DEF Inv

(* A stream that starts, or is closed before it did, changes its status.   *)
LEMMA StatusStep ==
  ASSUME Inv, NEW c \in Clients, Wait(c) \/ CloseUnstarted(c)
  PROVE  Inv'
<1>1. PICK s \in {"streaming", "closed"} :
        /\ status[c] = "opened" /\ status' = [status EXCEPT ![c] = s]
        /\ UNCHANGED <<published, owner, emitting, handlers, buffer, replay, queue, pushed, received, cut>>
  BY DEF Wait, CloseUnstarted
<1>2. status \in [Clients -> {"new", "opened", "streaming", "closed"}] /\ Types
  BY DEF Inv, Types
<1>3. status'[c] = s /\ \A d \in Clients \ {c} : status'[d] = status[d]
  BY <1>1, <1>2
<1>4. Types'
  <2>1. (status \in [Clients -> {"new", "opened", "streaming", "closed"}])'
    BY <1>1, <1>2
  <2>. QED
    BY <1>1, <1>2, <2>1 DEF Types, PerStream
<1>5. HandlersInv'
  BY <1>1, <1>3 DEF Inv, HandlersInv, Handled, NeverHandled
<1>6. FlightInv' /\ BufferInv'
  BY <1>1 DEF Inv, FlightInv, BufferInv
<1>7. StreamInv'
  BY <1>1, <1>3 DEF Inv, StreamInv, Empty
<1>8. GapInv'
  BY <1>1, <1>3 DEF Inv, GapInv, BufferFirst, BufferFull, Covered
<1>. QED
  BY <1>4, <1>5, <1>6, <1>7, <1>8 DEF Inv

(* A stream leaves the handlers; the others keep their order.              *)
LEMMA CloseStep ==
  ASSUME Inv, NEW c \in Clients, Close(c)
  PROVE  Inv'
<1>1. /\ status[c] = "streaming" /\ status' = [status EXCEPT ![c] = "closed"]
      /\ handlers' = Unsubscribed(handlers, c)
      /\ UNCHANGED <<published, owner, emitting, buffer, replay, queue, pushed, received, cut>>
  BY DEF Close
<1>2. /\ status \in [Clients -> {"new", "opened", "streaming", "closed"}] /\ Types
      /\ handlers \in Seq(Handlers) /\ NoRepeats(handlers) /\ ClientsLast(handlers)
  BY DEF Inv, Types, HandlersInv
<1>3. status'[c] = "closed" /\ \A d \in Clients \ {c} : status'[d] = status[d]
  BY <1>1, <1>2
<1>4. PICK i \in DOMAIN handlers : handlers[i] = c /\ handlers' = RemoveAt(handlers, i)
  <2>1. \E i \in DOMAIN handlers : handlers[i] = c
    BY <1>1 DEF Inv, HandlersInv, Handled, ToSet
  <2>. QED
    BY <1>1, <2>1 DEF Unsubscribed
<1>5. /\ handlers' \in Seq(Handlers) /\ Len(handlers') = Len(handlers) - 1
      /\ \A j \in 1..(Len(handlers) - 1) :
           handlers'[j] = IF j < i THEN handlers[j] ELSE handlers[j + 1]
  BY <1>2, <1>4, RemoveFacts
<1>6. DOMAIN handlers' = 1..(Len(handlers) - 1) /\ DOMAIN handlers = 1..Len(handlers)
      /\ Len(handlers) \in Nat /\ i \in 1..Len(handlers)
  BY <1>2, <1>5
<1> DEFINE old(j) == IF j < i THEN j ELSE j + 1
<1>7. /\ \A j \in DOMAIN handlers' : old(j) \in DOMAIN handlers /\ handlers'[j] = handlers[old(j)]
      /\ \A j, m \in DOMAIN handlers' : (j < m => old(j) < old(m)) /\ (old(j) = old(m) => j = m)
  BY <1>5, <1>6
<1>8. \A j \in DOMAIN handlers \ {i} : \E m \in DOMAIN handlers' : old(m) = j
  <2> SUFFICES ASSUME NEW j \in DOMAIN handlers \ {i} PROVE \E m \in DOMAIN handlers' : old(m) = j
    OBVIOUS
  <2>1. CASE j < i
    BY <1>6, <2>1
  <2>2. CASE ~(j < i)
    <3>1. j - 1 \in DOMAIN handlers' /\ old(j - 1) = j
      BY <1>6, <2>2
    <3>. QED
      BY <3>1
  <2>. QED
    BY <2>1, <2>2
<1> HIDE DEF old
<1>9. Types'
  <2>1. (status \in [Clients -> {"new", "opened", "streaming", "closed"}])'
    BY <1>1, <1>2
  <2>. QED
    BY <1>1, <1>2, <1>5, <2>1 DEF Types, PerStream
<1>10. HandlersInv'
  <2>1. NoRepeats(handlers')
    BY <1>2, <1>7 DEF NoRepeats
  <2>2. ClientsLast(handlers')
    BY <1>2, <1>7 DEF ClientsLast
  <2>3. ToSet(handlers') \subseteq ToSet(handlers)
    BY <1>7 DEF ToSet
  <2>4. ASSUME NEW d \in Clients \ {c}, Handled(d) PROVE Handled(d)'
    <3>1. PICK j \in DOMAIN handlers : handlers[j] = d
      BY <2>4 DEF Handled, ToSet
    <3>2. j # i
      BY <1>4, <3>1
    <3>3. PICK m \in DOMAIN handlers' : old(m) = j
      BY <1>8, <3>2
    <3>. QED
      BY <1>7, <3>1, <3>3 DEF Handled, ToSet
  <2>5. \A d \in Clients : /\ status'[d] \in {"opened", "streaming"} => Handled(d)'
                           /\ status'[d] = "new" => NeverHandled(d)'
    BY <1>1, <1>3, <2>3, <2>4 DEF Inv, HandlersInv, Handled, NeverHandled
  <2>. QED
    BY <2>1, <2>2, <2>5 DEF HandlersInv
<1>11. FlightInv' /\ BufferInv'
  BY <1>1 DEF Inv, FlightInv, BufferInv
<1>12. StreamInv'
  BY <1>1, <1>3 DEF Inv, StreamInv, Empty
<1>13. BufferFirst' => BufferFirst
  <2> SUFFICES ASSUME BufferFirst' PROVE BufferFirst
    OBVIOUS
  <2>1. handlers'[1] = "buffer" /\ 1 \in DOMAIN handlers'
    BY <1>5, <1>6 DEF BufferFirst
  <2>2. old(1) \in DOMAIN handlers /\ handlers[old(1)] = "buffer"
    BY <1>7, <2>1
  <2>3. old(1) = 1
    <3>1. CASE 1 < i
      BY <3>1 DEF old
    <3>2. CASE ~(1 < i)
      <4>1. i = 1 /\ old(1) = 2
        BY <1>6, <3>2 DEF old
      <4>2. handlers[1] \in Clients /\ 1 < 2 /\ handlers[2] = "buffer" /\ {1, 2} \subseteq DOMAIN handlers
        BY <1>4, <2>2, <4>1
      <4>3. handlers[2] \in Clients
        BY <1>2, <4>2 DEF ClientsLast
      <4>. QED
        BY <4>2, <4>3, ClientsAssumption
    <3>. QED
      BY <3>1, <3>2
  <2>4. handlers # <<>>
    BY <1>6, <2>1
  <2>. QED
    BY <2>2, <2>3, <2>4 DEF BufferFirst
<1>14. GapInv'
  BY <1>1, <1>3, <1>13 DEF Inv, GapInv, BufferFull, Covered
<1>. QED
  BY <1>9, <1>10, <1>11, <1>12, <1>14 DEF Inv

LEMMA ResetStep ==
  ASSUME Inv, Reset
  PROVE  Inv'
<1>1. buffer' = <<>> /\ UNCHANGED <<published, owner, emitting, handlers, status, replay, queue, pushed, received, cut>>
  BY DEF Reset
<1>2. BufferAt(published, owner, emitting, <<>>)
  BY SizeAssumption DEF BufferAt, Ordered, Fresh, ToSet
<1>3. Types' /\ HandlersInv' /\ FlightInv'
  BY <1>1 DEF Inv, Types, PerStream, HandlersInv, Handled, NeverHandled, FlightInv
<1>4. StreamInv'
  BY <1>1 DEF Inv, StreamInv, Empty
<1>5. GapInv'
  BY <1>1 DEF Inv, GapInv, BufferFirst, BufferFull, Covered
<1>. QED
  BY <1>1, <1>2, <1>3, <1>4, <1>5 DEF Inv, BufferInv

LEMMA NextInv == Inv /\ [Next]_vars => Inv'
<1> SUFFICES ASSUME Inv, [Next]_vars PROVE Inv'
  OBVIOUS
<1>1. CASE UNCHANGED vars
  BY <1>1 DEF vars, Inv, Types, PerStream, HandlersInv, Handled, NeverHandled, FlightInv,
              BufferInv, StreamInv, Empty, GapInv, BufferFirst, BufferFull, Covered
<1>2. CASE Next
  BY <1>2, EmitStep, ResumeStep, CancelStep, OpenStep, PullStep, StatusStep, CloseStep, ResetStep DEF Next
<1>. QED
  BY <1>1, <1>2

-----------------------------------------------------------------------------
LEMMA InvTypes == Inv => TypeOK
<1> SUFFICES ASSUME Inv PROVE TypeOK
  OBVIOUS
<1>1. Types /\ published \in Nat /\ published <= MaxEvents
  BY MaxEventsAssumption DEF Inv, Types
<1>2. \A p \in Producers : /\ emitting[p].event \in 0..published
                           /\ emitting[p].rest \in Seq({"slow", "buffer"} \cup Clients)
  BY <1>1 DEF Types, EmissionsAt, Handlers
<1>3. buffer \in Seq(Events) /\ Len(buffer) <= BufferSize
  <2>1. buffer \in Seq(1..published) /\ Len(buffer) <= BufferSize
    BY DEF Inv, BufferInv, BufferAt
  <2>. QED
    BY <1>1, <2>1, MaxEventsAssumption DEF Events
<1>4. \A c \in Clients : /\ {replay[c], pushed[c], received[c]} \subseteq Seq(1..published)
                         /\ queue[c] \in Seq(1..published) /\ Len(queue[c]) <= QueueSize
  BY DEF Inv, StreamInv, StreamAt
<1>. QED
  BY <1>1, <1>2, <1>3, <1>4 DEF TypeOK, Types, Handlers

LEMMA InvOrder == Inv => NoDuplicates /\ ProducerOrder
<1> SUFFICES ASSUME Inv, NEW c \in Clients, NEW s, s = received[c] \o replay[c] \o queue[c]
             PROVE  /\ IsInjective(s)
                    /\ \A i, j \in DOMAIN s : i < j /\ owner[s[i]] = owner[s[j]] => s[i] < s[j]
  BY DEF NoDuplicates, ProducerOrder
<1>1. /\ published \in Nat
      /\ received[c] \in Seq(1..published) /\ replay[c] \in Seq(1..published) /\ queue[c] \in Seq(1..published)
      /\ InOrder(owner, received[c], replay[c], queue[c])
  BY DEF Inv, Types, StreamInv, StreamAt
<1>2. Ordered(owner, s) /\ s \in Seq(1..published)
  BY <1>1, SentInOrder
<1>3. \A i, j \in DOMAIN s : i < j \/ j < i \/ i = j
  BY <1>2
<1>. QED
  BY <1>2, <1>3 DEF Ordered, Precedes, IsInjective

LEMMA InvSurvival == Inv => NewestSurvive
<1> SUFFICES ASSUME Inv, NEW c \in Clients, NEW i \in DOMAIN pushed[c],
                    pushed[c][i] \notin ToSet(received[c]) \cup ToSet(queue[c])
             PROVE  Len(pushed[c]) - i >= QueueSize
  BY DEF NewestSurvive
<1> DEFINE q == queue[c]
           w == pushed[c]
<1>1. Kept(received[c], q, w) /\ q \in Seq(1..published) /\ w \in Seq(1..published)
  BY DEF Inv, StreamInv, StreamAt
<1> HIDE DEF q, w
<1>2. Len(q) \in Nat /\ Len(w) \in Nat /\ DOMAIN q = 1..Len(q) /\ DOMAIN w = 1..Len(w) /\ i \in DOMAIN w
  BY <1>1 DEF w
<1>3. CASE i <= Len(w) - Len(q)
  BY <1>1, <1>2, <1>3 DEF Kept, w
<1>4. CASE ~(i <= Len(w) - Len(q))
  <2>1. i - (Len(w) - Len(q)) \in DOMAIN q /\ Len(w) - Len(q) + (i - (Len(w) - Len(q))) = i
    BY <1>2, <1>4
  <2>2. q[i - (Len(w) - Len(q))] = w[i]
    BY <1>1, <2>1 DEF Kept, Suffix
  <2>. QED
    BY <2>1, <2>2 DEF ToSet, q, w
<1>. QED
  BY <1>3, <1>4

LEMMA InvGap == Inv => NoGapBufferFirst
<1> SUFFICES ASSUME Inv, Head(handlers) = "buffer", NEW c \in Clients,
                    status[c] \in {"opened", "streaming"},
                    emitting = [p \in Producers |-> NotEmitting],
                    NEW sent, sent = ToSet(received[c] \o replay[c] \o queue[c]),
                    ToSet(pushed[c]) \subseteq sent,
                    NEW e \in sent
             PROVE  (e..published) \ cut[c] \subseteq sent
  BY DEF NoGapBufferFirst, NoGap
<1>1. handlers \in Seq(Handlers) /\ Handled(c)
  BY DEF Inv, Types, HandlersInv
<1>2. handlers # <<>>
  BY <1>1 DEF Handled, ToSet
<1>3. BufferFirst
  <2>1. Head(handlers) = handlers[1]
    BY <1>1, <1>2, TailFacts
  <2>. QED
    BY <1>2, <2>1 DEF BufferFirst
<1>4. PICK k \in 1..(published + 1) :
        CoveredFrom(k, published, emitting, c, received[c], replay[c], queue[c], pushed[c], cut[c])
  BY <1>3 DEF Inv, GapInv, Covered
<1>5. /\ published \in Nat
      /\ received[c] \in Seq(1..published) /\ replay[c] \in Seq(1..published) /\ queue[c] \in Seq(1..published)
      /\ InOrder(owner, received[c], replay[c], queue[c])
  BY DEF Inv, Types, StreamInv, StreamAt
<1>6. sent = ToSet(received[c]) \cup ToSet(replay[c]) \cup ToSet(queue[c])
      /\ received[c] \o replay[c] \o queue[c] \in Seq(1..published)
  BY <1>5, SentInOrder
<1>7. \A f : ~OnItsWay(emitting, c, f)
  BY DEF OnItsWay, Left, NotEmitting, ToSet
<1>8. \A f \in k..published : f \in sent \cup cut[c]
  BY <1>4, <1>6, <1>7 DEF CoveredFrom
<1>9. k <= e /\ e \in Nat
  <2>1. e \in 1..published
    BY <1>6, ElementsFacts
  <2>. QED
    BY <1>4, <1>6, <2>1 DEF CoveredFrom
<1>. QED
  BY <1>5, <1>8, <1>9

LEMMA InvSound == Inv => StreamsAreSound
BY InvTypes, InvOrder, InvSurvival, InvGap DEF StreamsAreSound

(* Whatever the handlers, the number of producers and streams, and the     *)
(* sizes of queue and buffer (emit, _push, sse_sidecar's replay): a stream *)
(* sends no event twice and each producer's in order, an overflow drops    *)
(* the oldest, and if the buffer is subscribed first nothing is missing    *)
(* between the replay and the live events but what was cancelled on its    *)
(* way.                                                                    *)
THEOREM StreamsSound == Spec => []StreamsAreSound
<1>1. Spec => []Inv
  BY InitInv, NextInv, PTL DEF Spec
<1>. QED
  BY <1>1, InvSound, PTL

-----------------------------------------------------------------------------
(* The plan.  The events about an item are one thread, as if one producer  *)
(* owned them and every other event had an owner to itself: while no two   *)
(* operations touch the item at a time, a stream keeps them in order.      *)
Thread(n, m, i) == [e \in 1..n |-> IF i \in DOMAIN m[e].payload THEN 0 ELSE e]

About(i) == {e \in 1..published : i \in DOMAIN content[e].payload}

Announcing(i, channel) == {e \in About(i) : content[e].channel = channel}

(* The last event of a channel about the item says what the plan says.     *)
Shown(i, channel) ==
    \A e \in Announcing(i, channel) :
        (\A f \in Announcing(i, channel) : f <= e) => content[e].payload[i] = plan[i]

Touching(p, i) == i \in Touches(operation[p])

(* The operation of p writes the item, or announces it on every channel.   *)
Writing(p, i) == operation[p].next # "none" /\ i \in Writes(operation[p])
Showing(p, i) == operation[p].next # "none" /\ i \in Shows(operation[p])

(* No stream was cut off from that event.                                  *)
Whole(i, channel) ==
    \A e \in Announcing(i, channel) :
        (\A f \in Announcing(i, channel) : f <= e) => \A c \in Clients : e \notin cut[c]

(* Every handler had the event f.                                          *)
Reached(f) ==
    /\ \A p \in Producers : emitting[p].event # f
    /\ \A c \in Clients : f \notin cut[c]

(* What a channel says of the item ends with what the plan says, even      *)
(* without the events that are on their way or were cut off.               *)
Settled(i, channel) ==
    \A e \in Announcing(i, channel) : content[e].payload[i] # plan[i] =>
        \E f \in Announcing(i, channel) : e < f /\ Reached(f)

Exclusive(i) == \A p, q \in Producers : Touching(p, i) /\ Touching(q, i) => p = q

Current(i) ==
    \A p \in Producers : emitting[p].event \in About(i) =>
        Touching(p, i) /\ \A e \in About(i) : e <= emitting[p].event

Threaded(i) ==
    /\ Ordered(Thread(published, content, i), buffer)
    /\ \A c \in Clients : InOrder(Thread(published, content, i), received[c], replay[c], queue[c])

Promised(i) ==
    \A p \in Producers : operation[p].next = "delta" /\ operation[p].id = i => operation[p].status = plan[i]

(* What an operation has announced so far, and what is so once no operation *)
(* has written the item and not yet announced it, or was cancelled then.   *)
Told(i) ==
    \A p \in Producers : Showing(p, i) =>
        /\ Whole(i, "plan")
        /\ operation[p].next = "return" /\ i \notin misled => Shown(i, "ui") /\ Whole(i, "ui")

Settles(i) ==
    i \notin torn /\ (\A p \in Producers : ~Writing(p, i)) =>
        /\ Settled(i, "plan")
        /\ i \notin misled => Settled(i, "ui")

OperationsAt(n) == [next : {"none", "delta", "init", "return"}, id : Ids \cup {None}, status : 0..n]

OperationInv ==
    \A p \in Producers :
        /\ operation[p].next = "delta" => operation[p].id \in Ids /\ TaskOf[operation[p].id] # None
        /\ operation[p].next = "init" => operation[p].id = None
        /\ operation[p].next \in {"delta", "init"} => ui

PlanTypes ==
    /\ ui \in BOOLEAN
    /\ plan \in [Items -> 0..published]
    /\ operation \in [Producers -> OperationsAt(published)]
    /\ content = [e \in 1..published |-> content[e]]
    /\ contended \subseteq Items /\ misled \subseteq Items /\ torn \subseteq Items
    /\ ~ui => \A e \in 1..published : content[e].channel = "plan"

ItemInv(i) ==
    /\ Shown(i, "plan")
    /\ i \notin contended =>
         /\ Exclusive(i) /\ Current(i) /\ Promised(i) /\ Threaded(i)
         /\ Told(i) /\ Settles(i)

PlanInv == PlanTypes /\ OperationInv /\ \A i \in Items : ItemInv(i)

LEMMA Largest ==
  ASSUME NEW n \in Nat, NEW V \in SUBSET (1..n), V # {}
  PROVE  Max(V) \in V /\ \A w \in V : w <= Max(V)
<1> DEFINE W == {n + 1 - v : v \in V}
<1>1. W \in SUBSET (1..n) /\ W # {}
  <2>1. \A v \in V : v \in 1..n
    OBVIOUS
  <2>2. \A v \in V : n + 1 - v \in 1..n
    BY <2>1
  <2>3. PICK v \in V : TRUE
    OBVIOUS
  <2>4. n + 1 - v \in W
    OBVIOUS
  <2>. QED
    BY <2>2, <2>4
<1>2. PICK w \in W : \A u \in W : w <= u
  BY <1>1, Smallest
<1>3. PICK v \in V : w = n + 1 - v
  BY <1>2
<1>4. \A u \in V : v >= u
  <2> SUFFICES ASSUME NEW u \in V PROVE v >= u
    OBVIOUS
  <2>1. n + 1 - v <= n + 1 - u
    BY <1>2, <1>3
  <2>2. u \in Int /\ v \in Int
    OBVIOUS
  <2>. QED
    BY <2>1, <2>2
<1>5. Max(V) \in V /\ \A u \in V : Max(V) >= u
  BY <1>4 DEF Max
<1>. QED
  BY <1>5

-----------------------------------------------------------------------------
(* One more event.                                                         *)
Adds(x) ==
    /\ published' = published + 1
    /\ content' = [e \in 1..(published + 1) |-> IF e = published + 1 THEN x ELSE content[e]]

LEMMA ExtendedFacts ==
  ASSUME NEW n \in Nat, NEW m, m = [e \in 1..n |-> m[e]], NEW x
  PROVE  Append(m, x) = [e \in 1..(n + 1) |-> IF e = n + 1 THEN x ELSE m[e]]
<1> DEFINE S == {m[e] : e \in 1..n} \cup {x}
<1>1. m \in [1..n -> S]
  OBVIOUS
<1>2. m \in Seq(S) /\ Len(m) = n /\ x \in S
  BY <1>1
<1> HIDE DEF S
<1>3. /\ Append(m, x) \in Seq(S) /\ Len(Append(m, x)) = n + 1
      /\ Append(m, x)[n + 1] = x
      /\ \A e \in 1..n : Append(m, x)[e] = m[e]
  BY <1>2, AppendFacts
<1>4. Append(m, x) \in [1..(n + 1) -> S]
  BY <1>3, ElementsFacts
<1>. QED
  BY <1>3, <1>4

LEMMA AddedFacts ==
  ASSUME published \in Nat, NEW x, Adds(x)
  PROVE  /\ published' = published + 1
         /\ published + 1 \notin 1..published
         /\ content' = [e \in 1..published' |-> content'[e]]
         /\ content'[published + 1] = x
         /\ \A e \in 1..published : content'[e] = content[e]
         /\ \A i : About(i)' = About(i) \cup {e \in {published + 1} : i \in DOMAIN x.payload}
         /\ \A i, channel :
              Announcing(i, channel)' = Announcing(i, channel) \cup
                {e \in {published + 1} : i \in DOMAIN x.payload /\ x.channel = channel}
<1>1. published' = published + 1 /\ published + 1 \notin 1..published
  BY DEF Adds
<1>2. /\ content' = [e \in 1..published' |-> content'[e]]
      /\ content'[published + 1] = x
      /\ \A e \in 1..published : content'[e] = content[e]
  BY DEF Adds
<1>3. 1..published' = 1..published \cup {published + 1}
  BY <1>1
<1>4. \A i : About(i)' = About(i) \cup {e \in {published + 1} : i \in DOMAIN x.payload}
  BY <1>2, <1>3 DEF About
<1>5. \A i, channel :
        Announcing(i, channel)' = Announcing(i, channel) \cup
          {e \in {published + 1} : i \in DOMAIN x.payload /\ x.channel = channel}
  <2> SUFFICES ASSUME NEW i, NEW channel
               PROVE  Announcing(i, channel)' = Announcing(i, channel) \cup
                        {e \in {published + 1} : i \in DOMAIN x.payload /\ x.channel = channel}
    OBVIOUS
  <2>1. About(i) \subseteq 1..published
    BY DEF About
  <2>. QED
    BY <1>2, <1>4, <2>1 DEF Announcing
<1>. QED
  BY <1>1, <1>2, <1>4, <1>5

(* What the new event says becomes the last word on its items.             *)
LEMMA ShownStays ==
  ASSUME published \in Nat, NEW x, Adds(x), NEW i, NEW channel, Shown(i, channel),
         plan'[i] = plan[i], ~(i \in DOMAIN x.payload /\ x.channel = channel)
  PROVE  Shown(i, channel)'
<1>1. /\ Announcing(i, channel)' = Announcing(i, channel)
      /\ \A e \in 1..published : content'[e] = content[e]
  <2>1. Announcing(i, channel)' = Announcing(i, channel) \cup
          {e \in {published + 1} : i \in DOMAIN x.payload /\ x.channel = channel}
    BY AddedFacts
  <2>2. \A e \in 1..published : content'[e] = content[e]
    BY AddedFacts
  <2>. QED
    BY <2>1, <2>2
<1>2. Announcing(i, channel) \subseteq 1..published
  BY DEF Announcing, About
<1>. QED
  BY <1>1, <1>2 DEF Shown

LEMMA ShownNew ==
  ASSUME published \in Nat, NEW x, Adds(x), NEW i, NEW channel,
         i \in DOMAIN x.payload, x.channel = channel, x.payload[i] = plan'[i]
  PROVE  Shown(i, channel)'
<1>1. /\ Announcing(i, channel)' = Announcing(i, channel) \cup {published + 1}
      /\ content'[published + 1] = x
  BY AddedFacts
<1>2. \A e \in Announcing(i, channel) : e \in 1..published
  BY DEF Announcing, About
<1>3. ASSUME NEW e \in Announcing(i, channel)', \A f \in Announcing(i, channel)' : f <= e
      PROVE  e = published + 1
  <2>1. published + 1 <= e /\ (e \in 1..published \/ e = published + 1)
    BY <1>1, <1>2, <1>3
  <2>. QED
    BY <2>1
<1>. QED
  BY <1>1, <1>3 DEF Shown

LEMMA WholeStays ==
  ASSUME published \in Nat, NEW x, Adds(x), UNCHANGED cut, NEW i, NEW channel, Whole(i, channel),
         ~(i \in DOMAIN x.payload /\ x.channel = channel)
  PROVE  Whole(i, channel)'
<1>1. Announcing(i, channel)' = Announcing(i, channel) \cup
        {e \in {published + 1} : i \in DOMAIN x.payload /\ x.channel = channel}
  BY AddedFacts
<1>2. Announcing(i, channel)' = Announcing(i, channel)
  BY <1>1
<1>. QED
  BY <1>2 DEF Whole

LEMMA WholeNew ==
  ASSUME published \in Nat, NEW x, Adds(x), UNCHANGED cut, cut \in [Clients -> SUBSET (1..published)],
         NEW i, NEW channel, i \in DOMAIN x.payload, x.channel = channel
  PROVE  Whole(i, channel)'
<1>1. Announcing(i, channel)' = Announcing(i, channel) \cup {published + 1}
      /\ published + 1 \notin 1..published
  BY AddedFacts
<1>2. \A e \in Announcing(i, channel) : e \in 1..published
  BY DEF Announcing, About
<1>3. ASSUME NEW e \in Announcing(i, channel)', \A f \in Announcing(i, channel)' : f <= e
      PROVE  e = published + 1
  <2>1. published + 1 <= e /\ (e \in 1..published \/ e = published + 1)
    BY <1>1, <1>2, <1>3
  <2>. QED
    BY <2>1
<1>. QED
  BY <1>1, <1>3 DEF Whole

(* A new event that says what the plan says unsettles nothing.             *)
LEMMA SettledStays ==
  ASSUME published \in Nat, NEW p \in Producers, NEW x, Adds(x), UNCHANGED cut,
         emitting'[p].event \in {0, published + 1},
         \A q \in Producers \ {p} : emitting'[q] = emitting[q],
         NEW i, NEW channel, Settled(i, channel), plan'[i] = plan[i],
         i \in DOMAIN x.payload /\ x.channel = channel => x.payload[i] = plan[i]
  PROVE  Settled(i, channel)'
<1>1. /\ Announcing(i, channel)' = Announcing(i, channel) \cup
           {e \in {published + 1} : i \in DOMAIN x.payload /\ x.channel = channel}
      /\ content'[published + 1] = x
      /\ \A e \in 1..published : content'[e] = content[e]
  BY AddedFacts
<1>2. \A e \in Announcing(i, channel) : e \in 1..published /\ e # 0 /\ e # published + 1
  BY DEF Announcing, About
<1>3. \A f \in Announcing(i, channel) : Reached(f) => Reached(f)'
  BY <1>2 DEF Reached
<1>4. ASSUME NEW e \in Announcing(i, channel)', content'[e].payload[i] # plan'[i]
      PROVE  \E f \in Announcing(i, channel)' : e < f /\ Reached(f)'
  <2>1. e \in Announcing(i, channel)
    BY <1>1, <1>4
  <2>2. content[e].payload[i] # plan[i]
    BY <1>1, <1>2, <1>4, <2>1
  <2>3. PICK f \in Announcing(i, channel) : e < f /\ Reached(f)
    BY <2>1, <2>2 DEF Settled
  <2>. QED
    BY <1>1, <1>3, <2>3
<1>. QED
  BY <1>4 DEF Settled

(* The last event about an item settles it, once it is on its way no more. *)
LEMMA LastSettles ==
  ASSUME published \in Nat, NEW i, NEW channel, Shown(i, channel), Whole(i, channel),
         \A q \in Producers : emitting[q].event \notin About(i)
  PROVE  Settled(i, channel)
<1> SUFFICES ASSUME NEW e \in Announcing(i, channel), content[e].payload[i] # plan[i]
             PROVE  \E f \in Announcing(i, channel) : e < f /\ Reached(f)
  BY DEF Settled
<1>1. Announcing(i, channel) \in SUBSET (1..published) /\ Announcing(i, channel) \subseteq About(i)
  BY DEF Announcing, About
<1> DEFINE f == Max(Announcing(i, channel))
<1>2. f \in Announcing(i, channel) /\ \A g \in Announcing(i, channel) : g <= f
  BY <1>1, Largest
<1> HIDE DEF f
<1>3. content[f].payload[i] = plan[i] /\ \A c \in Clients : f \notin cut[c]
  BY <1>2 DEF Shown, Whole
<1>4. e <= f /\ e # f /\ e \in Int /\ f \in Int
  BY <1>1, <1>2, <1>3
<1>5. e < f
  BY <1>4
<1>6. Reached(f)
  BY <1>1, <1>2, <1>3 DEF Reached
<1>. QED
  BY <1>2, <1>5, <1>6

(* Without typed events the "ui" channel says nothing.                     *)
LEMMA NoTyped ==
  ASSUME PlanTypes', ~ui', NEW i
  PROVE  Shown(i, "ui")' /\ Whole(i, "ui")'
<1>1. Announcing(i, "ui")' = {}
  BY DEF PlanTypes, Announcing, About
<1>. QED
  BY <1>1 DEF Shown, Whole

-----------------------------------------------------------------------------
(* Threads.                                                                *)
LEMMA ThreadFacts ==
  ASSUME NEW n \in Nat, NEW m, NEW i, NEW e \in 1..n
  PROVE  /\ i \in DOMAIN m[e].payload =>
              \A x \in 1..n : Thread(n, m, i)[x] = Thread(n, m, i)[e] => i \in DOMAIN m[x].payload
         /\ i \notin DOMAIN m[e].payload =>
              \A x \in 1..n : Thread(n, m, i)[x] = Thread(n, m, i)[e] => x = e
BY DEF Thread

(* Everything a stream can send of n events is in the order of o.          *)
Sorted(n, o) ==
    /\ buffer \in Seq(1..n) /\ Len(buffer) <= BufferSize /\ Ordered(o, buffer)
    /\ \A c \in Clients :
         /\ received[c] \in Seq(1..n) /\ replay[c] \in Seq(1..n) /\ queue[c] \in Seq(1..n)
         /\ Len(queue[c]) <= QueueSize
         /\ InOrder(o, received[c], replay[c], queue[c])

(* None of the handlers that run now has e.                                *)
Unseen(e, hs) ==
    /\ "buffer" \in Now(hs) => e \notin ToSet(buffer)
    /\ \A c \in Clients : c \in Now(hs) =>
         e \notin ToSet(received[c]) \cup ToSet(replay[c]) \cup ToSet(queue[c])

LEMMA ThreadedSorted ==
  ASSUME Inv, NEW i, Threaded(i)
  PROVE  Sorted(published, Thread(published, content, i))
<1>1. buffer \in Seq(1..published) /\ Len(buffer) <= BufferSize
  BY DEF Inv, BufferInv, BufferAt
<1>2. \A c \in Clients :
        /\ received[c] \in Seq(1..published) /\ replay[c] \in Seq(1..published) /\ queue[c] \in Seq(1..published)
        /\ Len(queue[c]) <= QueueSize
  BY DEF Inv, StreamInv, StreamAt
<1>. QED
  BY <1>1, <1>2 DEF Sorted, Threaded

LEMMA DispatchSorted ==
  ASSUME NEW n \in Nat, NEW o, NEW p, NEW e \in 1..n, NEW hs,
         Sorted(n, o), Unseen(e, hs), \A x \in 1..n : o[x] = o[e] => x <= e,
         Dispatch(p, e, hs), UNCHANGED <<replay, received>>
  PROVE  /\ Ordered(o, buffer')
         /\ \A c \in Clients : InOrder(o, received'[c], replay'[c], queue'[c])
<1>1. /\ buffer' = IF "buffer" \in Now(hs) THEN Record(buffer, e) ELSE buffer
      /\ queue' = [c \in Clients |-> IF c \in Now(hs) THEN Push(queue[c], e) ELSE queue[c]]
  BY DEF Dispatch, Now
<1>2. Ordered(o, buffer')
  <2>1. CASE "buffer" \in Now(hs)
    <3>1. e \notin ToSet(buffer) /\ buffer' = Record(buffer, e)
      BY <1>1, <2>1 DEF Unseen
    <3>. QED
      BY <3>1, OrderRecorded DEF Sorted
  <2>2. CASE "buffer" \notin Now(hs)
    BY <1>1, <2>2 DEF Sorted
  <2>. QED
    BY <2>1, <2>2
<1>3. ASSUME NEW c \in Clients PROVE InOrder(o, received[c], replay[c], queue'[c])
  <2>1. CASE c \in Now(hs)
    <3>1. /\ e \notin ToSet(received[c]) \cup ToSet(replay[c]) \cup ToSet(queue[c])
          /\ queue'[c] = Push(queue[c], e)
      BY <1>1, <2>1 DEF Unseen
    <3>. QED
      BY <3>1, OrderPushed DEF Sorted
  <2>2. CASE c \notin Now(hs)
    BY <1>1, <2>2 DEF Sorted
  <2>. QED
    BY <2>1, <2>2
<1>. QED
  BY <1>2, <1>3

LEMMA EmitThreaded ==
  ASSUME Inv, NEW p \in Producers, Emit(p), NEW x, Adds(x), NEW i, Threaded(i)
  PROVE  Threaded(i)'
<1> DEFINE n == published + 1
           o == Thread(published, content, i)
           oo == Thread(n, content', i)
<1>1. /\ published \in Nat /\ n \in 1..n /\ published' = n
      /\ \A e \in 1..published : content'[e] = content[e]
  <2>1. published \in Nat
    BY DEF Inv, Types
  <2>. QED
    BY <2>1, AddedFacts
<1>2. Dispatch(p, n, handlers) /\ UNCHANGED <<replay, received>>
  BY DEF Emit
<1>3. \A e \in 1..published : oo[e] = o[e]
  BY <1>1 DEF Thread
<1>4. Sorted(published, o)
  BY ThreadedSorted
<1> HIDE DEF o, oo
<1>5. \A s \in Seq(1..published) : s \in Seq(1..n) /\ n \notin ToSet(s)
  <2>1. \A s \in Seq(1..published) : s \in Seq(1..n)
    BY <1>1, SeqOfMore
  <2>2. n \notin 1..published
    BY <1>1
  <2>3. ASSUME NEW s \in Seq(1..published) PROVE ToSet(s) \subseteq 1..published
    BY ElementsFacts
  <2>. QED
    BY <2>1, <2>2, <2>3
<1>6. \A s, t \in Seq(1..published) : /\ Ordered(o, s) => Ordered(oo, s)
                                      /\ Before(o, s, t) => Before(oo, s, t)
  BY <1>1, <1>3, OrderStays
<1> HIDE DEF n
<1>7. Sorted(n, oo)
  <2>1. ASSUME NEW r \in Seq(1..published), NEW h \in Seq(1..published), NEW q \in Seq(1..published),
               InOrder(o, r, h, q)
        PROVE  InOrder(oo, r, h, q)
    BY <1>6, <2>1 DEF InOrder
  <2>. QED
    BY <1>4, <1>5, <1>6, <2>1 DEF Sorted
<1>8. Unseen(n, handlers)
  BY <1>4, <1>5 DEF Unseen, Sorted
<1>9. n \in Nat /\ \A e \in 1..n : e <= n
  BY <1>1 DEF n
<1>10. /\ Ordered(oo, buffer')
       /\ \A c \in Clients : InOrder(oo, received'[c], replay'[c], queue'[c])
  BY <1>1, <1>2, <1>7, <1>8, <1>9, DispatchSorted
<1>. QED
  BY <1>1, <1>10 DEF Threaded, oo

LEMMA ResumeThreaded ==
  ASSUME Inv, NEW p \in Producers, Resume(p), UNCHANGED planVars, NEW i, Current(i), Threaded(i)
  PROVE  Current(i)' /\ Threaded(i)'
<1> DEFINE e == emitting[p].event
           hs == emitting[p].rest
           o == Thread(published, content, i)
<1>1. /\ emitting[p] # NotEmitting /\ Dispatch(p, e, hs)
      /\ UNCHANGED <<published, replay, received, operation, content>>
  BY DEF Resume, planVars
<1>2. /\ published \in Nat /\ e \in 1..published /\ hs \in Seq(Handlers)
      /\ emitting \in [Producers -> [event : 0..published, rest : Seq(Handlers)]]
  BY <1>1 DEF Inv, FlightInv, Flight, Types, EmissionsAt
<1>3. Sorted(published, o)
  BY ThreadedSorted
<1>4. Unseen(e, hs)
  <2>1. Now(hs) \subseteq ToSet(hs) /\ ToSet(hs) = Left(emitting[p])
    BY <1>2, NowFacts DEF Left
  <2>2. Fresh(emitting, "buffer", buffer)
    BY DEF Inv, BufferInv, BufferAt
  <2>3. \A c \in Clients : /\ Fresh(emitting, c, received[c]) /\ Fresh(emitting, c, replay[c])
                           /\ Fresh(emitting, c, queue[c])
    BY DEF Inv, StreamInv, StreamAt
  <2>. QED
    BY <2>1, <2>2, <2>3 DEF Unseen, Fresh
<1>5. \A x \in 1..published : o[x] = o[e] => x <= e
  <2>1. CASE i \in DOMAIN content[e].payload
    <3>1. e \in About(i)
      BY <1>2, <2>1 DEF About
    <3>2. \A x \in About(i) : x <= e
      BY <3>1 DEF Current
    <3>3. \A x \in 1..published : o[x] = o[e] => x \in About(i)
      BY <1>2, <2>1, ThreadFacts DEF About
    <3>. QED
      BY <3>2, <3>3
  <2>2. CASE i \notin DOMAIN content[e].payload
    <3>1. \A x \in 1..published : o[x] = o[e] => x = e
      BY <1>2, <2>2, ThreadFacts
    <3>. QED
      BY <1>2, <3>1
  <2>. QED
    BY <2>1, <2>2
<1>6. emitting'[p].event \in {0, e} /\ \A q \in Producers \ {p} : emitting'[q] = emitting[q]
  BY <1>1, <1>2 DEF Dispatch, NotEmitting
<1> HIDE DEF e, hs, o
<1>7. /\ Ordered(o, buffer')
      /\ \A c \in Clients : InOrder(o, received'[c], replay'[c], queue'[c])
  BY <1>1, <1>2, <1>3, <1>4, <1>5, DispatchSorted
<1>8. Threaded(i)'
  BY <1>1, <1>7 DEF Threaded, o
<1>9. Current(i)'
  <2>1. About(i)' = About(i) /\ 0 \notin About(i)
    BY <1>1 DEF About
  <2>2. \A q \in Producers : Touching(q, i)' = Touching(q, i)
    BY <1>1 DEF Touching
  <2>. QED
    BY <1>6, <2>1, <2>2 DEF Current, e
<1>. QED
  BY <1>8, <1>9

(* Streams come, send and go.                                              *)
LEMMA StreamingThreaded ==
  ASSUME Inv, Streaming, NEW i, Current(i), Threaded(i)
  PROVE  Current(i)' /\ Threaded(i)'
<1> DEFINE o == Thread(published, content, i)
<1>1. UNCHANGED <<published, emitting, operation, content>>
  BY DEF Streaming, planVars, Open, Pull, Wait, Close, CloseUnstarted, Reset
<1>2. Current(i)'
  BY <1>1 DEF Current, About, Touching
<1>3. Sorted(published, o) /\ published \in Nat
  BY ThreadedSorted DEF Inv, Types
<1>4. PerStream(replay) /\ PerStream(queue) /\ PerStream(received)
  BY DEF Inv, Types
<1> HIDE DEF o
<1>5. /\ Ordered(o, buffer')
      /\ \A c \in Clients : InOrder(o, received'[c], replay'[c], queue'[c])
  <2>1. ASSUME NEW c \in Clients, Open(c)
        PROVE  /\ Ordered(o, buffer')
               /\ \A d \in Clients : InOrder(o, received'[d], replay'[d], queue'[d])
    <3>1. /\ replay'[c] = buffer /\ received'[c] = <<>> /\ queue'[c] = <<>> /\ buffer' = buffer
          /\ \A d \in Clients \ {c} : replay'[d] = replay[d] /\ received'[d] = received[d] /\ queue'[d] = queue[d]
      BY <1>4, <2>1 DEF Open, PerStream, Inv, StreamInv, Empty
    <3>2. InOrder(o, <<>>, buffer, <<>>)
      BY <1>3 DEF Sorted, InOrder, Ordered, Before
    <3>. QED
      BY <1>3, <3>1, <3>2 DEF Sorted
  <2>2. ASSUME NEW c \in Clients, Pull(c)
        PROVE  /\ Ordered(o, buffer')
               /\ \A d \in Clients : InOrder(o, received'[d], replay'[d], queue'[d])
    <3>1. /\ buffer' = buffer
          /\ \A d \in Clients \ {c} : replay'[d] = replay[d] /\ received'[d] = received[d] /\ queue'[d] = queue[d]
      BY <1>4, <2>2 DEF Pull, PerStream
    <3>2. InOrder(o, received'[c], replay'[c], queue'[c])
      <4>1. CASE replay[c] # <<>>
        <5>1. /\ received'[c] = Append(received[c], Head(replay[c]))
              /\ replay'[c] = Tail(replay[c]) /\ queue'[c] = queue[c]
          BY <1>4, <2>2, <4>1 DEF Pull, PerStream
        <5>. QED
          BY <1>3, <4>1, <5>1, OrderPulledReplay DEF Sorted
      <4>2. CASE replay[c] = <<>>
        <5>1. /\ queue[c] # <<>>
              /\ received'[c] = Append(received[c], Head(queue[c]))
              /\ queue'[c] = Tail(queue[c]) /\ replay'[c] = <<>>
          BY <1>4, <2>2, <4>2 DEF Pull, PerStream
        <5>2. InOrder(o, received[c], <<>>, queue[c])
          BY <1>3, <4>2 DEF Sorted
        <5>. QED
          BY <1>3, <5>1, <5>2, OrderPulledQueue DEF Sorted
      <4>. QED
        BY <4>1, <4>2
    <3>. QED
      BY <1>3, <3>1, <3>2 DEF Sorted
  <2>3. ASSUME NEW c \in Clients, Wait(c) \/ Close(c) \/ CloseUnstarted(c)
        PROVE  /\ Ordered(o, buffer')
               /\ \A d \in Clients : InOrder(o, received'[d], replay'[d], queue'[d])
    BY <1>3, <2>3 DEF Wait, Close, CloseUnstarted, Sorted
  <2>4. CASE Reset
    BY <1>3, <2>4 DEF Reset, Sorted, Ordered
  <2>. QED
    BY <2>1, <2>2, <2>3, <2>4 DEF Streaming
<1>6. Threaded(i)'
  BY <1>1, <1>5 DEF Threaded, o
<1>. QED
  BY <1>2, <1>6

-----------------------------------------------------------------------------
(* Operations.                                                             *)
LEMMA TouchesFacts ==
  ASSUME NEW o
  PROVE  /\ o.next = "none" => Touches(o) = {}
         /\ o.next # "none" /\ o.id = None => Touches(o) = Items
         /\ o.next # "none" /\ o.id \in Items => Touches(o) = {o.id}
         /\ o.next # "none" /\ o.id \in Missing => Touches(o) = {TaskOf[o.id]} \cap Items
BY PlanAssumption DEF Touches, DeltaTarget, Ids

LEMMA ShowsFacts ==
  ASSUME NEW i \in Items, NEW p
  PROVE  /\ Showing(p, i) => Touching(p, i)
         /\ Writing(p, i) => Showing(p, i) /\ operation[p].id = i
         /\ Showing(p, i) => operation[p].id \in {i, None}
BY PlanAssumption DEF Showing, Writing, Shows, Writes, Touching, Touches, Ids

LEMMA EmitsFacts ==
  ASSUME Inv, PlanTypes, NEW p \in Producers, NEW channel, NEW payload, Emits(p, channel, payload)
  PROVE  /\ Emit(p) /\ Adds([channel |-> channel, payload |-> payload])
         /\ published \in Nat
         /\ emitting'[p].event \in {0, published + 1}
         /\ \A q \in Producers \ {p} : emitting'[q] = emitting[q]
         /\ UNCHANGED cut /\ cut \in [Clients -> SUBSET (1..published)]
<1>1. Emit(p) /\ content' = Append(content, [channel |-> channel, payload |-> payload])
  BY DEF Emits
<1>2. published \in Nat /\ emitting \in EmissionsAt(published)
  BY DEF Inv, Types
<1>3. Adds([channel |-> channel, payload |-> payload])
  <2>1. published' = published + 1
    BY <1>1 DEF Emit
  <2>2. content = [e \in 1..published |-> content[e]]
    BY DEF PlanTypes
  <2> DEFINE x == [channel |-> channel, payload |-> payload]
  <2> HIDE DEF x
  <2>3. Append(content, x) = [e \in 1..(published + 1) |-> IF e = published + 1 THEN x ELSE content[e]]
    BY <1>2, <2>2, ExtendedFacts
  <2>. QED
    BY <1>1, <2>1, <2>3 DEF Adds, x
<1>4. /\ emitting'[p].event \in {0, published + 1}
      /\ \A q \in Producers \ {p} : emitting'[q] = emitting[q]
  BY <1>1, <1>2 DEF Emit, Dispatch, EmissionsAt, NotEmitting
<1>5. UNCHANGED cut /\ cut \in [Clients -> SUBSET (1..published)]
  BY <1>1 DEF Emit, Inv, Types
<1>. QED
  BY <1>1, <1>2, <1>3, <1>4, <1>5

(* An event about an item comes from the only operation that touches it.   *)
LEMMA EmittedItem ==
  ASSUME Inv, NEW p \in Producers, Emit(p), NEW x, Adds(x),
         emitting'[p].event \in {0, published + 1},
         \A q \in Producers \ {p} : emitting'[q] = emitting[q] /\ operation'[q] = operation[q],
         NEW i, Current(i), Threaded(i), Exclusive(i)',
         i \in DOMAIN x.payload => Touching(p, i)'
  PROVE  Current(i)' /\ Threaded(i)'
<1>1. Threaded(i)'
  BY EmitThreaded
<1>2. /\ published \in Nat
      /\ About(i)' = About(i) \cup {e \in {published + 1} : i \in DOMAIN x.payload}
      /\ About(i) \subseteq 1..published
      /\ emitting \in EmissionsAt(published)
  BY AddedFacts DEF Inv, Types, About
<1>3. ASSUME NEW q \in Producers, emitting'[q].event \in About(i)'
      PROVE  Touching(q, i)' /\ \A e \in About(i)' : e <= emitting'[q].event
  <2>1. CASE q = p
    <3>1. emitting'[p].event = published + 1 /\ i \in DOMAIN x.payload
      BY <1>2, <1>3, <2>1
    <3>. QED
      BY <1>2, <2>1, <3>1
  <2>2. CASE q # p
    <3>1. emitting[q].event \in About(i) /\ emitting'[q] = emitting[q]
      <4>1. emitting[q].event \in 0..published
        BY <1>2 DEF EmissionsAt
      <4>. QED
        BY <1>2, <1>3, <2>2, <4>1
    <3>2. Touching(q, i) /\ \A e \in About(i) : e <= emitting[q].event
      BY <3>1 DEF Current
    <3>3. Touching(q, i)'
      BY <2>2, <3>2 DEF Touching
    <3>4. i \notin DOMAIN x.payload
      BY <2>2, <3>3 DEF Exclusive
    <3>. QED
      BY <1>2, <3>1, <3>2, <3>3, <3>4
  <2>. QED
    BY <2>1, <2>2
<1>. QED
  BY <1>1, <1>3 DEF Current

(* A beginning operation shares no item that is not contended.             *)
LEMMA StartsFacts ==
  ASSUME PlanTypes, NEW p \in Producers, NEW o, Starts(p, o)
  PROVE  /\ operation[p] = Idle /\ operation'[p] = o
         /\ \A q \in Producers \ {p} : operation'[q] = operation[q]
         /\ contended \subseteq contended'
         /\ \A i : ~Touching(p, i)
         /\ \A i : Exclusive(i) /\ i \notin contended' => Exclusive(i)'
<1>1. /\ operation[p] = Idle /\ operation' = [operation EXCEPT ![p] = o]
      /\ contended' = contended \cup (Touches(o) \cap UNION {Touches(operation[q]) : q \in Producers})
      /\ operation \in [Producers -> OperationsAt(published)]
  BY DEF Starts, PlanTypes
<1>2. operation'[p] = o /\ \A q \in Producers \ {p} : operation'[q] = operation[q]
  BY <1>1
<1>3. \A i : ~Touching(p, i)
  BY <1>1, TouchesFacts DEF Touching, Idle
<1>4. ASSUME NEW i, Exclusive(i), i \notin contended' PROVE Exclusive(i)'
  <2>1. ASSUME NEW q \in Producers \ {p}, Touching(q, i)' PROVE ~Touching(p, i)'
    BY <1>1, <1>2, <1>4, <2>1 DEF Touching
  <2>2. \A q \in Producers \ {p} : Touching(q, i)' => Touching(q, i)
    BY <1>2 DEF Touching
  <2>. QED
    BY <1>4, <2>1, <2>2 DEF Exclusive
<1>. QED
  BY <1>1, <1>2, <1>3, <1>4

(* The types, when an operation of p becomes o and says x.                 *)
LEMMA PlanTypesNext ==
  ASSUME PlanTypes, OperationInv, NEW p \in Producers, NEW o, NEW x,
         published \in Nat, Adds(x),
         operation' = [operation EXCEPT ![p] = o], o \in OperationsAt(published + 1),
         o.next = "delta" => o.id \in Ids /\ TaskOf[o.id] # None,
         o.next = "init" => o.id = None,
         o.next \in {"delta", "init"} => ui,
         ui' = ui, plan' \in [Items -> 0..(published + 1)],
         contended' \subseteq Items, misled' \subseteq Items, torn' \subseteq Items,
         ~ui => x.channel = "plan"
  PROVE  PlanTypes' /\ OperationInv'
<1>1. /\ published' = published + 1
      /\ content' = [e \in 1..published' |-> content'[e]]
      /\ content'[published + 1] = x
      /\ \A e \in 1..published : content'[e] = content[e]
  BY AddedFacts
<1>2. operation \in [Producers -> OperationsAt(published)]
  BY DEF PlanTypes
<1>3. \A a \in OperationsAt(published) : a \in OperationsAt(published + 1)
  BY DEF OperationsAt
<1>4. operation' \in [Producers -> OperationsAt(published + 1)]
  BY <1>2, <1>3
<1>5. ~ui => \A e \in 1..published' : content'[e].channel = "plan"
  <2>1. \A e \in 1..published' : e \in 1..published \/ e = published + 1
    BY <1>1
  <2>2. ~ui => \A e \in 1..published : content[e].channel = "plan"
    BY DEF PlanTypes
  <2>. QED
    BY <1>1, <2>1, <2>2
<1>6. PlanTypes'
  BY <1>1, <1>4, <1>5 DEF PlanTypes
<1>7. operation'[p] = o /\ \A q \in Producers \ {p} : operation'[q] = operation[q]
  BY <1>2
<1>8. OperationInv'
  BY <1>7 DEF OperationInv
<1>. QED
  BY <1>6, <1>8

-----------------------------------------------------------------------------
(* The steps of a plan.                                                    *)
LEMMA SetTaskStatusStep ==
  ASSUME Inv, PlanInv, NEW p \in Producers, SetTaskStatus(p)
  PROVE  PlanInv'
<1> DEFINE n == published + 1
<1>1. PICK id \in Announced :
        LET o == [next |-> IF ui /\ TaskOf[id] # None THEN "delta" ELSE "return", id |-> id, status |-> n]
        IN  /\ Starts(p, o)
            /\ plan' = [i \in Items |-> IF i = id THEN n ELSE plan[i]]
            /\ Emits(p, "plan", Update(id, n))
            /\ UNCHANGED <<ui, misled, torn>>
  BY DEF SetTaskStatus
<1> DEFINE o == [next |-> IF ui /\ TaskOf[id] # None THEN "delta" ELSE "return", id |-> id, status |-> n]
           x == [channel |-> "plan", payload |-> Update(id, n)]
<1>2. id \in Ids /\ id # None
  <2>1. (CHOOSE i \in Items : TRUE) \in Items
    BY PlanAssumption
  <2>. QED
    BY <2>1, PlanAssumption DEF Announced, Ids
<1>3. PlanTypes /\ OperationInv /\ \A i \in Items : ItemInv(i)
  BY DEF PlanInv
<1>4. /\ Emit(p) /\ Adds(x) /\ published \in Nat
      /\ emitting'[p].event \in {0, published + 1}
      /\ \A q \in Producers \ {p} : emitting'[q] = emitting[q]
      /\ UNCHANGED cut /\ cut \in [Clients -> SUBSET (1..published)]
  BY <1>1, <1>3, EmitsFacts
<1>5. DOMAIN x.payload = {id} /\ x.payload[id] = n /\ x.channel = "plan"
  BY DEF Update
<1>6. /\ o.next \in {"delta", "return"} /\ (o.next = "delta" <=> ui /\ TaskOf[id] # None)
      /\ o.id = id /\ o.status = n
      /\ o \in OperationsAt(n)
  BY <1>2, <1>4 DEF OperationsAt
<1>7. Starts(p, o) /\ plan' = [i \in Items |-> IF i = id THEN n ELSE plan[i]] /\ UNCHANGED <<ui, misled, torn>>
  BY <1>1
<1> HIDE DEF o, x
<1>8. /\ operation[p] = Idle /\ operation'[p] = o
      /\ \A q \in Producers \ {p} : operation'[q] = operation[q]
      /\ contended \subseteq contended'
      /\ \A i : ~Touching(p, i)
      /\ \A i : Exclusive(i) /\ i \notin contended' => Exclusive(i)'
  BY <1>3, <1>7, StartsFacts
<1>9. PlanTypes' /\ OperationInv'
  <2>1. plan' \in [Items -> 0..(published + 1)]
    <3>1. plan \in [Items -> 0..published]
      BY <1>3 DEF PlanTypes
    <3>. QED
      BY <1>4, <1>7, <3>1
  <2>2. contended' \subseteq Items /\ misled' \subseteq Items /\ torn' \subseteq Items
    BY <1>3, <1>7 DEF PlanTypes, Starts, Touches
  <2>3. operation' = [operation EXCEPT ![p] = o]
    BY <1>7 DEF Starts
  <2>. QED
    BY <1>2, <1>3, <1>4, <1>5, <1>6, <1>7, <2>1, <2>2, <2>3, PlanTypesNext
<1> HIDE DEF n
<1>10. ASSUME NEW i \in Items PROVE ItemInv(i)'
  <2>1. ItemInv(i)
    BY <1>3
  <2>2. plan'[i] = IF i = id THEN n ELSE plan[i]
    BY <1>7
  <2>3. Shown(i, "plan")'
    <3>1. CASE i = id
      BY <1>4, <1>5, <2>2, <3>1, ShownNew
    <3>2. CASE i # id
      BY <1>4, <1>5, <2>1, <2>2, <3>2, ShownStays DEF ItemInv
    <3>. QED
      BY <3>1, <3>2
  <2>4. Touching(p, i)' <=> i \in Touches(o)
    BY <1>8 DEF Touching
  <2>5. i = id => Touching(p, i)'
    BY <1>6, <2>4, TouchesFacts
  <2>6. ASSUME i \notin contended'
        PROVE  /\ Exclusive(i)' /\ Current(i)' /\ Promised(i)' /\ Threaded(i)'
               /\ Told(i)' /\ Settles(i)'
    <3>1. /\ Exclusive(i) /\ Current(i) /\ Promised(i) /\ Threaded(i)
          /\ Told(i) /\ Settles(i)
      BY <1>8, <2>1, <2>6 DEF ItemInv
    <3>2. Exclusive(i)'
      BY <1>8, <2>6, <3>1
    <3>3. Current(i)' /\ Threaded(i)'
      BY <1>4, <1>5, <1>8, <2>5, <3>1, <3>2, EmittedItem
    <3>4. Promised(i)'
      <4> SUFFICES ASSUME NEW q \in Producers, operation'[q].next = "delta", operation'[q].id = i
                   PROVE  operation'[q].status = plan'[i]
        BY DEF Promised
      <4>1. CASE q = p
        BY <1>6, <1>8, <2>2, <4>1
      <4>2. CASE q # p
        <5>1. Touching(q, i)'
          BY TouchesFacts DEF Touching
        <5>2. i # id
          BY <2>5, <3>2, <4>2, <5>1 DEF Exclusive
        <5>. QED
          BY <1>8, <2>2, <3>1, <4>2, <5>2 DEF Promised
      <4>. QED
        BY <4>1, <4>2
    <3>5. ASSUME i # id, NEW channel
          PROVE  /\ Shown(i, channel) => Shown(i, channel)'
                 /\ Whole(i, channel) => Whole(i, channel)'
                 /\ Settled(i, channel) => Settled(i, channel)'
      <4>1. plan'[i] = plan[i] /\ i \notin DOMAIN x.payload
        BY <1>5, <2>2, <3>5
      <4>. QED
        BY <1>4, <4>1, ShownStays, WholeStays, SettledStays
    <3>6. Told(i)'
      <4> SUFFICES ASSUME NEW q \in Producers, Showing(q, i)'
                   PROVE  /\ Whole(i, "plan")'
                          /\ operation'[q].next = "return" /\ i \notin misled' =>
                               Shown(i, "ui")' /\ Whole(i, "ui")'
        BY DEF Told
      <4>1. CASE q = p
        <5>1. i = id
          BY <1>2, <1>6, <1>8, <4>1 DEF Showing, Shows
        <5>2. Whole(i, "plan")'
          BY <1>4, <1>5, <5>1, WholeNew
        <5>3. ASSUME operation'[q].next = "return" PROVE Shown(i, "ui")' /\ Whole(i, "ui")'
          <6>1. ~ui'
            BY <1>6, <1>7, <1>8, <4>1, <5>1, <5>3, PlanAssumption DEF Ids
          <6>. QED
            BY <1>9, <6>1, NoTyped
        <5>. QED
          BY <5>2, <5>3
      <4>2. CASE q # p
        <5>1. Showing(q, i)
          BY <1>8, <4>2 DEF Showing
        <5>2. Touching(q, i)'
          BY <1>8, <4>2, <5>1, ShowsFacts DEF Touching
        <5>3. i # id
          BY <2>5, <3>2, <4>2, <5>2 DEF Exclusive
        <5>. QED
          BY <1>7, <1>8, <3>1, <3>5, <4>2, <5>1, <5>3 DEF Told
      <4>. QED
        BY <4>1, <4>2
    <3>7. Settles(i)'
      <4> SUFFICES ASSUME i \notin torn', \A q \in Producers : ~Writing(q, i)'
                   PROVE  Settled(i, "plan")' /\ (i \notin misled' => Settled(i, "ui")')
        BY DEF Settles
      <4>1. i # id
        BY <1>6, <1>8 DEF Writing, Writes
      <4>2. \A q \in Producers : ~Writing(q, i)
        BY <1>8 DEF Writing, Idle
      <4>. QED
        BY <1>7, <3>1, <3>5, <4>1, <4>2 DEF Settles
    <3>. QED
      BY <3>2, <3>3, <3>4, <3>6, <3>7
  <2>. QED
    BY <2>3, <2>6 DEF ItemInv
<1>. QED
  BY <1>9, <1>10 DEF PlanInv

LEMMA EmitInitStep ==
  ASSUME Inv, PlanInv, NEW p \in Producers, EmitInit(p)
  PROVE  PlanInv'
<1> DEFINE o == [next |-> IF ui THEN "init" ELSE "return", id |-> None, status |-> 0]
           x == [channel |-> "plan", payload |-> plan]
<1>1. Starts(p, o) /\ Emits(p, "plan", plan) /\ UNCHANGED <<plan, ui, misled, torn>>
  BY DEF EmitInit, Snapshot
<1>2. PlanTypes /\ OperationInv /\ \A i \in Items : ItemInv(i)
  BY DEF PlanInv
<1>3. /\ Emit(p) /\ Adds(x) /\ published \in Nat
      /\ emitting'[p].event \in {0, published + 1}
      /\ \A q \in Producers \ {p} : emitting'[q] = emitting[q]
      /\ UNCHANGED cut /\ cut \in [Clients -> SUBSET (1..published)]
  BY <1>1, <1>2, EmitsFacts
<1>4. x.payload = plan /\ DOMAIN plan = Items /\ x.channel = "plan"
  BY <1>2 DEF PlanTypes
<1>5. /\ o.next = (IF ui THEN "init" ELSE "return") /\ o.id = None
      /\ o \in OperationsAt(published + 1)
  BY <1>3 DEF OperationsAt
<1> HIDE DEF o, x
<1>6. /\ operation[p] = Idle /\ operation'[p] = o
      /\ \A q \in Producers \ {p} : operation'[q] = operation[q]
      /\ contended \subseteq contended'
      /\ \A i : ~Touching(p, i)
      /\ \A i : Exclusive(i) /\ i \notin contended' => Exclusive(i)'
  BY <1>1, <1>2, StartsFacts
<1>7. PlanTypes' /\ OperationInv'
  <2>1. plan' \in [Items -> 0..(published + 1)]
    <3>1. plan \in [Items -> 0..published]
      BY <1>2 DEF PlanTypes
    <3>. QED
      BY <1>1, <1>3, <3>1
  <2>2. contended' \subseteq Items /\ misled' \subseteq Items /\ torn' \subseteq Items
    BY <1>1, <1>2 DEF PlanTypes, Starts, Touches
  <2>3. operation' = [operation EXCEPT ![p] = o]
    BY <1>1 DEF Starts
  <2>. QED
    BY <1>1, <1>2, <1>3, <1>4, <1>5, <2>1, <2>2, <2>3, PlanTypesNext
<1>8. ASSUME NEW i \in Items PROVE ItemInv(i)'
  <2>1. ItemInv(i) /\ plan'[i] = plan[i]
    BY <1>1, <1>2
  <2>2. Shown(i, "plan")'
    BY <1>3, <1>4, <2>1, ShownNew
  <2>3. Touching(p, i)'
    BY <1>5, <1>6, TouchesFacts DEF Touching
  <2>4. ASSUME i \notin contended'
        PROVE  /\ Exclusive(i)' /\ Current(i)' /\ Promised(i)' /\ Threaded(i)'
               /\ Told(i)' /\ Settles(i)'
    <3>1. Exclusive(i) /\ Current(i) /\ Promised(i) /\ Threaded(i) /\ Settles(i)
      BY <1>6, <2>1, <2>4 DEF ItemInv
    <3>2. Exclusive(i)'
      BY <1>6, <2>4, <3>1
    <3>3. Current(i)' /\ Threaded(i)'
      BY <1>3, <1>6, <2>3, <3>1, <3>2, EmittedItem
    <3>4. Promised(i)'
      BY <1>5, <1>6, <2>1, <3>1 DEF Promised
    <3>5. Told(i)'
      <4> SUFFICES ASSUME NEW q \in Producers, Showing(q, i)'
                   PROVE  /\ Whole(i, "plan")'
                          /\ operation'[q].next = "return" => Shown(i, "ui")' /\ Whole(i, "ui")'
        BY DEF Told
      <4>1. Touching(q, i)'
        BY DEF Showing, Shows, Touching, Touches
      <4>2. q = p
        BY <2>3, <3>2, <4>1 DEF Exclusive
      <4>3. Whole(i, "plan")'
        BY <1>3, <1>4, WholeNew
      <4>4. ASSUME operation'[q].next = "return" PROVE Shown(i, "ui")' /\ Whole(i, "ui")'
        <5>1. ~ui'
          BY <1>1, <1>5, <1>6, <4>2, <4>4
        <5>. QED
          BY <1>7, <5>1, NoTyped
      <4>. QED
        BY <4>3, <4>4
    <3>6. Settles(i)'
      <4> SUFFICES ASSUME i \notin torn', \A q \in Producers : ~Writing(q, i)'
                   PROVE  Settled(i, "plan")' /\ (i \notin misled' => Settled(i, "ui")')
        BY DEF Settles
      <4>1. \A q \in Producers : ~Writing(q, i)
        BY <1>6 DEF Writing, Idle
      <4>2. Settled(i, "plan") /\ (i \notin misled => Settled(i, "ui"))
        BY <1>1, <3>1, <4>1 DEF Settles
      <4>3. x.payload[i] = plan[i]
        BY <1>4
      <4>. QED
        BY <1>1, <1>3, <2>1, <4>2, <4>3, SettledStays
    <3>. QED
      BY <3>2, <3>3, <3>4, <3>5, <3>6
  <2>. QED
    BY <2>2, <2>4 DEF ItemInv
<1>. QED
  BY <1>7, <1>8 DEF PlanInv

LEMMA EmitTypedStep ==
  ASSUME Inv, PlanInv, NEW p \in Producers, EmitTyped(p)
  PROVE  PlanInv'
<1> DEFINE o == operation[p]
           oo == [o EXCEPT !.next = "return"]
<1>1. PlanTypes /\ OperationInv /\ \A i \in Items : ItemInv(i)
  BY DEF PlanInv
<1>2. o \in OperationsAt(published) /\ published \in Nat
  BY <1>1 DEF PlanTypes, Inv, Types
<1>3. PICK payload :
        /\ Emits(p, "ui", payload)
        /\ \/ o.next = "delta" /\ payload = Update(DeltaTarget(o.id), o.status)
           \/ o.next = "init" /\ payload = plan
  BY DEF EmitTyped, Snapshot
<1>4. /\ operation' = [operation EXCEPT ![p] = oo]
      /\ misled' = misled \cup IF o.id \in Missing THEN {TaskOf[o.id]} ELSE {}
      /\ UNCHANGED <<ui, plan, contended, torn>>
  BY DEF EmitTyped
<1> DEFINE x == [channel |-> "ui", payload |-> payload]
<1>5. /\ Emit(p) /\ Adds(x)
      /\ emitting'[p].event \in {0, published + 1}
      /\ \A q \in Producers \ {p} : emitting'[q] = emitting[q]
      /\ UNCHANGED cut /\ cut \in [Clients -> SUBSET (1..published)]
  BY <1>1, <1>3, EmitsFacts
<1>6. x.payload = payload /\ x.channel = "ui"
  OBVIOUS
<1>7. /\ o.next = "delta" => o.id \in Ids /\ TaskOf[o.id] # None
      /\ o.next = "init" => o.id = None
      /\ ui
  BY <1>1, <1>3 DEF OperationInv
<1>8. /\ oo.next = "return" /\ oo.id = o.id /\ oo.status = o.status
      /\ oo \in OperationsAt(published + 1)
  BY <1>2 DEF OperationsAt
<1>9. Touches(oo) = Touches(o)
  BY <1>3, <1>8 DEF Touches
<1> HIDE DEF oo, x
<1>10. operation'[p] = oo /\ \A q \in Producers \ {p} : operation'[q] = operation[q]
  BY <1>1, <1>4 DEF PlanTypes
<1> HIDE DEF o
<1>11. \A i : \A q \in Producers : Touching(q, i)' <=> Touching(q, i)
  BY <1>9, <1>10 DEF Touching, o
<1>12. PlanTypes' /\ OperationInv'
  <2>1. plan' \in [Items -> 0..(published + 1)]
    <3>1. plan \in [Items -> 0..published]
      BY <1>1 DEF PlanTypes
    <3>. QED
      BY <1>2, <1>4, <3>1
  <2>2. contended' \subseteq Items /\ torn' \subseteq Items
    BY <1>1, <1>4 DEF PlanTypes
  <2>3. misled' \subseteq Items
    <3>1. CASE o.id \in Missing
      <4>1. o.next = "delta"
        BY <1>3, <1>7, <3>1, PlanAssumption DEF Ids
      <4>2. TaskOf[o.id] \in Items
        BY <1>7, <4>1, PlanAssumption
      <4>. QED
        BY <1>1, <1>4, <4>2 DEF PlanTypes
    <3>2. CASE o.id \notin Missing
      BY <1>1, <1>4, <3>2 DEF PlanTypes
    <3>. QED
      BY <3>1, <3>2
  <2>. QED
    BY <1>1, <1>2, <1>4, <1>5, <1>7, <1>8, <2>1, <2>2, <2>3, PlanTypesNext
(* What the typed event is about is touched by its operation.              *)
<1>13. ASSUME NEW i \in Items
       PROVE  /\ i \in DOMAIN payload => Touching(p, i)
              /\ Touching(p, i) /\ i \notin misled' => i \in DOMAIN payload
              /\ i \in DOMAIN payload /\ i \notin misled' /\ Promised(i) => payload[i] = plan[i]
  <2>1. CASE o.next = "init"
    <3>1. payload = plan /\ DOMAIN plan = Items
      BY <1>1, <1>3, <2>1 DEF PlanTypes
    <3>2. Touching(p, i)
      BY <1>7, <2>1, TouchesFacts DEF Touching, o
    <3>. QED
      BY <3>1, <3>2
  <2>2. CASE o.next = "delta"
    <3>1. payload = Update(DeltaTarget(o.id), o.status)
      BY <1>3, <2>2
    <3>2. DOMAIN payload = {DeltaTarget(o.id)} /\ payload[DeltaTarget(o.id)] = o.status
      BY <3>1 DEF Update
    <3>3. CASE o.id \in Items
      <4>1. DeltaTarget(o.id) = o.id /\ (Touching(p, i) <=> i = o.id)
        BY <2>2, <3>3, TouchesFacts DEF Touching, DeltaTarget, o
      <4>2. Promised(i) /\ i = o.id => o.status = plan[i]
        BY <2>2 DEF Promised, o
      <4>. QED
        BY <3>2, <4>1, <4>2
    <3>4. CASE o.id \in Missing
      <4>1. DeltaTarget(o.id) = TaskOf[o.id] /\ (Touching(p, i) <=> i = TaskOf[o.id])
        BY <2>2, <3>4, TouchesFacts, PlanAssumption DEF Touching, DeltaTarget, o
      <4>2. TaskOf[o.id] \in misled'
        BY <1>4, <3>4
      <4>. QED
        BY <3>2, <4>1, <4>2
    <3>. QED
      BY <1>7, <2>2, <3>3, <3>4 DEF Ids
  <2>. QED
    BY <1>3, <2>1, <2>2
<1>14. ASSUME NEW i \in Items PROVE ItemInv(i)'
  <2>1. ItemInv(i) /\ plan'[i] = plan[i]
    BY <1>1, <1>4
  <2>2. Shown(i, "plan")'
    BY <1>2, <1>5, <1>6, <2>1, ShownStays DEF ItemInv
  <2>3. ASSUME i \notin contended'
        PROVE  /\ Exclusive(i)' /\ Current(i)' /\ Promised(i)' /\ Threaded(i)'
               /\ Told(i)' /\ Settles(i)'
    <3>1. /\ Exclusive(i) /\ Current(i) /\ Promised(i) /\ Threaded(i)
          /\ Told(i) /\ Settles(i)
      BY <1>4, <2>1, <2>3 DEF ItemInv
    <3>2. Exclusive(i)'
      BY <1>11, <3>1 DEF Exclusive
    <3>3. Current(i)' /\ Threaded(i)'
      <4>1. i \in DOMAIN x.payload => Touching(p, i)'
        BY <1>6, <1>11, <1>13
      <4>. QED
        BY <1>5, <1>10, <3>1, <3>2, <4>1, EmittedItem
    <3>4. Promised(i)'
      BY <1>8, <1>10, <2>1, <3>1 DEF Promised
    <3>5. \A q \in Producers : (Showing(q, i)' <=> Showing(q, i)) /\ (Writing(q, i)' <=> Writing(q, i))
      BY <1>3, <1>8, <1>10 DEF Showing, Writing, Shows, Writes, o
    <3>6. Told(i)'
      <4> SUFFICES ASSUME NEW q \in Producers, Showing(q, i)
                   PROVE  /\ Whole(i, "plan")'
                          /\ operation'[q].next = "return" /\ i \notin misled' =>
                               Shown(i, "ui")' /\ Whole(i, "ui")'
        BY <3>5 DEF Told
      <4>1. Whole(i, "plan")'
        BY <1>2, <1>5, <1>6, <3>1, WholeStays DEF Told
      <4>2. ASSUME operation'[q].next = "return", i \notin misled'
            PROVE  Shown(i, "ui")' /\ Whole(i, "ui")'
        <5>1. Touching(q, i)
          BY ShowsFacts
        <5>2. CASE q = p
          <6>1. i \in DOMAIN payload /\ payload[i] = plan'[i]
            BY <1>13, <2>1, <3>1, <4>2, <5>1, <5>2
          <6>. QED
            BY <1>2, <1>5, <1>6, <6>1, ShownNew, WholeNew
        <5>3. CASE q # p
          <6>1. i \notin DOMAIN payload
            BY <1>13, <3>1, <5>1, <5>3 DEF Exclusive
          <6>2. Shown(i, "ui") /\ Whole(i, "ui")
            BY <1>4, <1>10, <3>1, <4>2, <5>3 DEF Told
          <6>. QED
            BY <1>2, <1>5, <1>6, <2>1, <6>1, <6>2, ShownStays, WholeStays
        <5>. QED
          BY <5>2, <5>3
      <4>. QED
        BY <4>1, <4>2
    <3>7. Settles(i)'
      <4> SUFFICES ASSUME i \notin torn', \A q \in Producers : ~Writing(q, i)
                   PROVE  Settled(i, "plan")' /\ (i \notin misled' => Settled(i, "ui")')
        BY <3>5 DEF Settles
      <4>1. Settled(i, "plan")'
        BY <1>2, <1>4, <1>5, <1>6, <2>1, <3>1, SettledStays DEF Settles
      <4>2. ASSUME i \notin misled' PROVE Settled(i, "ui")'
        <5>1. Settled(i, "ui")
          BY <1>4, <3>1, <4>2 DEF Settles
        <5>2. i \in DOMAIN x.payload => x.payload[i] = plan[i]
          BY <1>6, <1>13, <3>1, <4>2
        <5>. QED
          BY <1>2, <1>5, <2>1, <5>1, <5>2, SettledStays
      <4>. QED
        BY <4>1, <4>2
    <3>. QED
      BY <3>2, <3>3, <3>4, <3>6, <3>7
  <2>. QED
    BY <2>2, <2>3 DEF ItemInv
<1>. QED
  BY <1>12, <1>14 DEF PlanInv

LEMMA ReturnStep ==
  ASSUME Inv, PlanInv, NEW p \in Producers, Return(p)
  PROVE  PlanInv'
<1>1. /\ operation[p].next = "return" /\ emitting[p] = NotEmitting
      /\ operation' = [operation EXCEPT ![p] = Idle]
      /\ torn' = torn \ Shows(operation[p])
      /\ UNCHANGED <<published, emitting, buffer, replay, queue, received, cut>>
      /\ UNCHANGED <<ui, plan, content, contended, misled>>
  BY DEF Return, vars
<1>2. PlanTypes /\ OperationInv /\ \A i \in Items : ItemInv(i)
  BY DEF PlanInv
<1>3. /\ operation'[p] = Idle /\ \A q \in Producers \ {p} : operation'[q] = operation[q]
      /\ Idle \in OperationsAt(published) /\ Idle.next = "none" /\ published \in Nat
  BY <1>1, <1>2 DEF PlanTypes, Idle, OperationsAt, Inv, Types
<1>4. PlanTypes' /\ OperationInv'
  <2>1. operation' \in [Producers -> OperationsAt(published)]
    BY <1>1, <1>2, <1>3 DEF PlanTypes
  <2>2. PlanTypes'
    BY <1>1, <1>2, <2>1 DEF PlanTypes
  <2>. QED
    BY <1>1, <1>2, <1>3, <2>2 DEF OperationInv
<1>5. \A i : ~Touching(p, i)' /\ ~Showing(p, i)' /\ ~Writing(p, i)'
  BY <1>3, TouchesFacts DEF Touching, Showing, Writing
<1>6. \A i : \A q \in Producers \ {p} : /\ Touching(q, i)' <=> Touching(q, i)
                                        /\ Showing(q, i)' <=> Showing(q, i)
                                        /\ Writing(q, i)' <=> Writing(q, i)
  BY <1>3 DEF Touching, Showing, Writing
<1>7. ASSUME NEW i \in Items PROVE ItemInv(i)'
  <2>1. /\ ItemInv(i) /\ About(i)' = About(i)
        /\ \A channel : /\ Shown(i, channel)' <=> Shown(i, channel)
                        /\ Whole(i, channel)' <=> Whole(i, channel)
                        /\ Settled(i, channel)' <=> Settled(i, channel)
    BY <1>1, <1>2 DEF About, Shown, Whole, Settled, Reached, Announcing
  <2>2. ASSUME i \notin contended'
        PROVE  /\ Exclusive(i)' /\ Current(i)' /\ Promised(i)' /\ Threaded(i)'
               /\ Told(i)' /\ Settles(i)'
    <3>1. /\ Exclusive(i) /\ Current(i) /\ Promised(i) /\ Threaded(i)
          /\ Told(i) /\ Settles(i)
      BY <1>1, <2>1, <2>2 DEF ItemInv
    <3>2. Exclusive(i)'
      BY <1>5, <1>6, <3>1 DEF Exclusive
    <3>3. emitting[p].event \notin About(i)
      BY <1>1 DEF About, NotEmitting
    <3>4. Current(i)'
      BY <1>1, <1>6, <2>1, <3>1, <3>3 DEF Current
    <3>5. Promised(i)'
      BY <1>1, <1>3, <3>1 DEF Promised
    <3>6. Threaded(i)'
      BY <1>1, <3>1 DEF Threaded
    <3>7. Told(i)'
      BY <1>1, <1>3, <1>5, <1>6, <2>1, <3>1 DEF Told
    <3>8. Settles(i)'
      <4> SUFFICES ASSUME i \notin torn', \A q \in Producers : ~Writing(q, i)'
                   PROVE  Settled(i, "plan") /\ (i \notin misled => Settled(i, "ui"))
        BY <1>1, <2>1 DEF Settles
      <4>1. CASE Showing(p, i)
        <5>1. /\ Shown(i, "plan") /\ Whole(i, "plan")
              /\ i \notin misled => Shown(i, "ui") /\ Whole(i, "ui")
          BY <1>1, <2>1, <3>1, <4>1 DEF ItemInv, Told
        <5>2. \A q \in Producers : emitting[q].event \notin About(i)
          BY <3>1, <3>3, <4>1, ShowsFacts DEF Current, Exclusive
        <5>. QED
          BY <1>3, <5>1, <5>2, LastSettles
      <4>2. CASE ~Showing(p, i)
        <5>1. i \notin torn
          BY <1>1, <4>2 DEF Showing
        <5>2. \A q \in Producers : ~Writing(q, i)
          BY <1>6, <4>2, ShowsFacts
        <5>. QED
          BY <3>1, <5>1, <5>2 DEF Settles
      <4>. QED
        BY <4>1, <4>2
    <3>. QED
      BY <3>2, <3>4, <3>5, <3>6, <3>7, <3>8
  <2>. QED
    BY <2>1, <2>2 DEF ItemInv
<1>. QED
  BY <1>4, <1>7 DEF PlanInv

(* A cancelled operation tears what it wrote; what it only announced, or   *)
(* what others announce, is settled as before.                             *)
LEMMA CancelledStep ==
  ASSUME Inv, PlanInv, NEW p \in Producers, Cancelled(p)
  PROVE  PlanInv'
<1> DEFINE e == emitting[p].event
<1>1. /\ emitting' = [emitting EXCEPT ![p] = NotEmitting]
      /\ cut' = [c \in Clients |-> IF c \in ToSet(emitting[p].rest) THEN cut[c] \cup {e} ELSE cut[c]]
      /\ operation' = [operation EXCEPT ![p] = Idle]
      /\ torn' = torn \cup Writes(operation[p])
      /\ UNCHANGED <<published, buffer, replay, queue, received>>
      /\ UNCHANGED <<ui, plan, content, contended, misled>>
  BY DEF Cancelled, CancelEmission
<1>2. PlanTypes /\ OperationInv /\ \A i \in Items : ItemInv(i)
  BY DEF PlanInv
<1>3. /\ operation'[p] = Idle /\ \A q \in Producers \ {p} : operation'[q] = operation[q]
      /\ Idle \in OperationsAt(published) /\ Idle.next = "none" /\ published \in Nat
  BY <1>1, <1>2 DEF PlanTypes, Idle, OperationsAt, Inv, Types
<1>4. PlanTypes' /\ OperationInv'
  <2>1. operation' \in [Producers -> OperationsAt(published)]
    BY <1>1, <1>2, <1>3 DEF PlanTypes
  <2>2. PlanTypes'
    BY <1>1, <1>2, <2>1 DEF PlanTypes, Writes
  <2>. QED
    BY <1>1, <1>2, <1>3, <2>2 DEF OperationInv
<1>5. \A i : ~Touching(p, i)' /\ ~Showing(p, i)' /\ ~Writing(p, i)'
  BY <1>3, TouchesFacts DEF Touching, Showing, Writing
<1>6. \A i : \A q \in Producers \ {p} : /\ Touching(q, i)' <=> Touching(q, i)
                                        /\ Showing(q, i)' <=> Showing(q, i)
                                        /\ Writing(q, i)' <=> Writing(q, i)
  BY <1>3 DEF Touching, Showing, Writing
<1>7. emitting'[p].event = 0 /\ \A q \in Producers \ {p} : emitting'[q] = emitting[q]
  BY <1>1 DEF Inv, Types, EmissionsAt, NotEmitting
<1>8. \A c \in Clients : cut'[c] \subseteq cut[c] \cup {e}
  BY <1>1
<1>9. \A f \in 1..published : Reached(f) => Reached(f)'
  BY <1>7, <1>8 DEF Reached, e
<1> HIDE DEF e
<1>10. ASSUME NEW i \in Items PROVE ItemInv(i)'
  <2>1. /\ ItemInv(i) /\ About(i)' = About(i)
        /\ \A channel : Announcing(i, channel)' = Announcing(i, channel)
        /\ \A channel : Shown(i, channel)' <=> Shown(i, channel)
    BY <1>1, <1>2 DEF About, Shown, Announcing
  <2>2. \A channel : Announcing(i, channel) \subseteq About(i) /\ About(i) \subseteq 1..published
    BY DEF About, Announcing
  <2>3. ASSUME i \notin contended'
        PROVE  /\ Exclusive(i)' /\ Current(i)' /\ Promised(i)' /\ Threaded(i)'
               /\ Told(i)' /\ Settles(i)'
    <3>1. /\ Exclusive(i) /\ Current(i) /\ Promised(i) /\ Threaded(i)
          /\ Told(i) /\ Settles(i)
      BY <1>1, <2>1, <2>3 DEF ItemInv
    <3>2. Exclusive(i)'
      BY <1>5, <1>6, <3>1 DEF Exclusive
    <3>3. Current(i)'
      BY <1>6, <1>7, <2>1, <2>2, <3>1 DEF Current
    <3>4. Promised(i)'
      BY <1>1, <1>3, <3>1 DEF Promised
    <3>5. Threaded(i)'
      BY <1>1, <3>1 DEF Threaded
    <3>6. Told(i)'
      <4> SUFFICES ASSUME NEW q \in Producers, Showing(q, i)'
                   PROVE  /\ Whole(i, "plan")'
                          /\ operation'[q].next = "return" /\ i \notin misled' =>
                               Shown(i, "ui")' /\ Whole(i, "ui")'
        BY DEF Told
      <4>1. q # p /\ Showing(q, i) /\ operation'[q] = operation[q]
        BY <1>3, <1>5, <1>6
      <4>2. e \notin About(i)
        BY <3>1, <4>1, ShowsFacts DEF Current, Exclusive, e
      <4>3. \A channel : Whole(i, channel) => Whole(i, channel)'
        BY <1>8, <2>1, <2>2, <4>2 DEF Whole
      <4>. QED
        BY <1>1, <2>1, <3>1, <4>1, <4>3 DEF Told
    <3>7. Settles(i)'
      <4> SUFFICES ASSUME i \notin torn', \A q \in Producers : ~Writing(q, i)'
                   PROVE  Settled(i, "plan")' /\ (i \notin misled' => Settled(i, "ui")')
        BY DEF Settles
      <4>1. i \notin torn /\ \A q \in Producers : ~Writing(q, i)
        BY <1>1, <1>6 DEF Writing
      <4>2. \A channel : Settled(i, channel) => Settled(i, channel)'
        BY <1>1, <1>9, <2>1, <2>2 DEF Settled
      <4>. QED
        BY <1>1, <3>1, <4>1, <4>2 DEF Settles
    <3>. QED
      BY <3>2, <3>3, <3>4, <3>5, <3>6, <3>7
  <2>. QED
    BY <2>1, <2>3 DEF ItemInv
<1>. QED
  BY <1>4, <1>10 DEF PlanInv

(* A step of the bus or of a stream says nothing new.                      *)
LEMMA QuietStep ==
  ASSUME Inv, PlanInv, UNCHANGED planVars, UNCHANGED <<published, cut>>,
         \A f \in 1..published : Reached(f) => Reached(f)',
         \A i : Current(i) /\ Threaded(i) => Current(i)' /\ Threaded(i)'
  PROVE  PlanInv'
<1>1. UNCHANGED <<published, cut, ui, plan, operation, content, contended, misled, torn>>
  BY DEF planVars
<1>2. PlanTypes /\ OperationInv /\ \A i \in Items : ItemInv(i)
  BY DEF PlanInv
<1>3. PlanTypes' /\ OperationInv'
  BY <1>1, <1>2 DEF PlanTypes, OperationInv
<1>4. ASSUME NEW i \in Items PROVE ItemInv(i)'
  <2>1. /\ \A channel : /\ Announcing(i, channel)' = Announcing(i, channel)
                        /\ Announcing(i, channel) \subseteq 1..published
        /\ Exclusive(i)' <=> Exclusive(i)
        /\ Promised(i)' <=> Promised(i)
        /\ \A q : (Showing(q, i)' <=> Showing(q, i)) /\ (Writing(q, i)' <=> Writing(q, i))
    BY <1>1 DEF Announcing, About, Exclusive, Promised, Showing, Writing, Touching
  <2>2. \A channel : /\ Shown(i, channel)' <=> Shown(i, channel)
                     /\ Whole(i, channel)' <=> Whole(i, channel)
                     /\ Settled(i, channel) => Settled(i, channel)'
    <3> SUFFICES ASSUME NEW channel
                 PROVE  /\ Shown(i, channel)' <=> Shown(i, channel)
                        /\ Whole(i, channel)' <=> Whole(i, channel)
                        /\ Settled(i, channel) => Settled(i, channel)'
      OBVIOUS
    <3>1. (Shown(i, channel)' <=> Shown(i, channel)) /\ (Whole(i, channel)' <=> Whole(i, channel))
      BY <1>1, <2>1 DEF Shown, Whole
    <3>2. Settled(i, channel) => Settled(i, channel)'
      BY <1>1, <2>1 DEF Settled
    <3>. QED
      BY <3>1, <3>2
  <2>3. Told(i) => Told(i)'
    BY <1>1, <2>1, <2>2 DEF Told
  <2>4. Settles(i) => Settles(i)'
    BY <1>1, <2>1, <2>2 DEF Settles
  <2>. QED
    BY <1>1, <1>2, <2>1, <2>2, <2>3, <2>4 DEF ItemInv
<1>. QED
  BY <1>3, <1>4 DEF PlanInv

LEMMA NextPlanInv == Inv /\ PlanInv /\ [PlanNext]_allVars => PlanInv'
<1> SUFFICES ASSUME Inv, PlanInv, [PlanNext]_allVars PROVE PlanInv'
  OBVIOUS
<1>1. CASE UNCHANGED allVars
  <2>1. UNCHANGED planVars /\ UNCHANGED <<published, emitting, buffer, replay, queue, received, cut>>
    BY <1>1 DEF allVars, vars
  <2>2. \A i : Current(i) /\ Threaded(i) => Current(i)' /\ Threaded(i)'
    BY <2>1 DEF planVars, Current, Threaded, About, Touching
  <2>3. \A f \in 1..published : Reached(f) => Reached(f)'
    BY <2>1 DEF Reached
  <2>. QED
    BY <2>1, <2>2, <2>3, QuietStep
<1>2. ASSUME NEW p \in Producers, Resumed(p) PROVE PlanInv'
  <2>1. Resume(p) /\ UNCHANGED planVars /\ UNCHANGED <<published, cut>>
    BY <1>2 DEF Resumed, Resume
  <2>2. \A f \in 1..published : Reached(f) => Reached(f)'
    <3>1. emitting \in EmissionsAt(published)
      BY DEF Inv, Types
    <3>2. emitting'[p].event \in {0, emitting[p].event}
          /\ \A q \in Producers \ {p} : emitting'[q] = emitting[q]
      BY <2>1, <3>1 DEF Resume, Dispatch, NotEmitting, EmissionsAt
    <3>. QED
      BY <2>1, <3>2 DEF Reached
  <2>. QED
    BY <2>1, <2>2, ResumeThreaded, QuietStep
<1>3. CASE Streaming
  <2>1. UNCHANGED planVars /\ UNCHANGED <<published, emitting, cut>>
    BY <1>3 DEF Streaming, Open, Pull, Wait, Close, CloseUnstarted, Reset
  <2>2. \A f \in 1..published : Reached(f) => Reached(f)'
    BY <2>1 DEF Reached
  <2>. QED
    BY <1>3, <2>1, <2>2, StreamingThreaded, QuietStep
<1>. QED
  BY <1>1, <1>2, <1>3, SetTaskStatusStep, EmitInitStep, EmitTypedStep, ReturnStep, CancelledStep
  DEF PlanNext

LEMMA InitPlanInv == PlanInit => PlanInv
<1> SUFFICES ASSUME PlanInit PROVE PlanInv
  OBVIOUS
<1>1. /\ published = 0 /\ buffer = <<>> /\ ui \in BOOLEAN
      /\ \A p \in Producers : emitting[p] = NotEmitting /\ operation[p] = Idle
      /\ \A c \in Clients : received[c] = <<>> /\ replay[c] = <<>> /\ queue[c] = <<>>
      /\ plan = [i \in Items |-> 0] /\ operation = [p \in Producers |-> Idle]
      /\ content = <<>> /\ contended = {} /\ misled = {} /\ torn = {}
  BY DEF PlanInit, Init
<1>2. Idle.next = "none" /\ Idle \in OperationsAt(0)
  BY DEF Idle, OperationsAt
<1>3. 1..published = {}
  BY <1>1
<1>4. PlanTypes
  <2>1. content = [e \in 1..published |-> content[e]]
    BY <1>1, <1>3
  <2>2. operation \in [Producers -> OperationsAt(published)] /\ plan \in [Items -> 0..published]
    BY <1>1, <1>2
  <2>. QED
    BY <1>1, <1>3, <2>1, <2>2 DEF PlanTypes
<1>5. OperationInv
  BY <1>1, <1>2 DEF OperationInv
<1>6. ASSUME NEW i \in Items PROVE ItemInv(i)
  <2>1. About(i) = {} /\ \A channel : Shown(i, channel) /\ Settled(i, channel)
    BY <1>3 DEF About, Shown, Settled, Announcing
  <2>2. \A p \in Producers : ~Touching(p, i) /\ ~Showing(p, i)
    BY <1>1, <1>2, TouchesFacts DEF Touching, Showing
  <2>3. Exclusive(i) /\ Current(i) /\ Promised(i)
    BY <1>1, <1>2, <2>1, <2>2 DEF Exclusive, Current, Promised
  <2>4. Threaded(i)
    BY <1>1 DEF Threaded, Ordered, InOrder, Before
  <2>5. Told(i) /\ Settles(i)
    BY <2>1, <2>2 DEF Told, Settles
  <2>. QED
    BY <2>1, <2>3, <2>4, <2>5 DEF ItemInv
<1>. QED
  BY <1>4, <1>5, <1>6 DEF PlanInv

-----------------------------------------------------------------------------
LEMMA LatestPlace ==
  ASSUME NEW n \in Nat, NEW s \in Seq(1..n), NEW A \in SUBSET DOMAIN s, A # {}
  PROVE  /\ Max(A) \in A /\ Max(A) \in DOMAIN s
         /\ s[Max(A)] \in 1..n /\ s[Max(A)] \in ToSet(s)
         /\ \A j \in A : j # Max(A) => j < Max(A)
<1>1. DOMAIN s = 1..Len(s) /\ Len(s) \in Nat /\ \A j \in DOMAIN s : s[j] \in 1..n
  OBVIOUS
<1>2. A \in SUBSET (1..Len(s))
  BY <1>1
<1>3. Max(A) \in A /\ \A j \in A : j <= Max(A)
  BY <1>1, <1>2, Largest
<1> DEFINE m == Max(A)
<1>4. m \in A /\ m \in DOMAIN s /\ \A j \in A : j <= m
  BY <1>3
<1> HIDE DEF m
<1>5. \A j \in A : j # m => j < m
  BY <1>1, <1>2, <1>4
<1>6. s[m] \in 1..n /\ s[m] \in ToSet(s)
  BY <1>1, <1>4 DEF ToSet
<1>. QED
  BY <1>4, <1>5, <1>6 DEF m

(* Two events about an item belong to one thread: in order, the earlier    *)
(* one is the older one.                                                   *)
LEMMA ThreadedOrder ==
  ASSUME NEW n \in Nat, NEW m, NEW i, NEW s \in Seq(1..n), Ordered(Thread(n, m, i), s),
         NEW j \in DOMAIN s, NEW k \in DOMAIN s, j < k,
         i \in DOMAIN m[s[j]].payload, i \in DOMAIN m[s[k]].payload
  PROVE  s[j] <= s[k]
<1> DEFINE o == Thread(n, m, i)
<1>1. s[j] \in 1..n /\ s[k] \in 1..n
  OBVIOUS
<1>2. o[s[j]] = o[s[k]]
  BY <1>1 DEF Thread
<1>3. Ordered(o, s)
  OBVIOUS
<1> HIDE DEF o
<1>4. Precedes(o, s[j], s[k])
  BY <1>3 DEF Ordered
<1>. QED
  BY <1>1, <1>2, <1>4 DEF Precedes

Sent(c) == received[c] \o replay[c] \o queue[c]

(* Where a sequence of events has a channel's events about an item.        *)
Places(s, channel, i) ==
    {j \in DOMAIN s : content[s[j]].channel = channel /\ i \in DOMAIN content[s[j]].payload}

(* The last word on an item that a stream has is no older than any that    *)
(* reached the streams.                                                    *)
LEMMA LastWord ==
  ASSUME Inv, NEW c \in Clients, status[c] \in {"opened", "streaming"}, Followed,
         NEW i, Threaded(i),
         NEW sent, sent = Sent(c), ToSet(pushed[c]) \subseteq ToSet(sent),
         NEW channel, NEW about, about = Places(sent, channel, i), about # {}
  PROVE  /\ sent[Max(about)] \in Announcing(i, channel)
         /\ sent[Max(about)] \in 1..published
         /\ \A f \in Announcing(i, channel) : Reached(f) => f <= sent[Max(about)]
<1> DEFINE o == Thread(published, content, i)
<1>1. /\ published \in Nat
      /\ received[c] \in Seq(1..published) /\ replay[c] \in Seq(1..published) /\ queue[c] \in Seq(1..published)
      /\ InOrder(o, received[c], replay[c], queue[c])
  BY DEF Inv, Types, StreamInv, StreamAt, Threaded
<1>2. /\ Ordered(o, sent) /\ sent \in Seq(1..published)
      /\ ToSet(sent) = ToSet(received[c]) \cup ToSet(replay[c]) \cup ToSet(queue[c])
  <2> HIDE DEF o
  <2>1. /\ Ordered(o, Sent(c)) /\ Sent(c) \in Seq(1..published)
        /\ ToSet(Sent(c)) = ToSet(received[c]) \cup ToSet(replay[c]) \cup ToSet(queue[c])
    BY <1>1, SentInOrder DEF Sent
  <2>. QED
    BY <2>1
<1>3. about \in SUBSET DOMAIN sent
  BY DEF Places
<1> DEFINE m == Max(about)
<1>4. /\ m \in about /\ m \in DOMAIN sent
      /\ sent[m] \in 1..published /\ sent[m] \in ToSet(sent)
      /\ \A j \in about : j # m => j < m
  BY <1>1, <1>2, <1>3, LatestPlace
<1> HIDE DEF m
<1>5. sent[m] \in Announcing(i, channel) /\ i \in DOMAIN content[sent[m]].payload
  BY <1>4 DEF Announcing, About, Places
<1>6. PICK k \in 1..(published + 1) :
        CoveredFrom(k, published, emitting, c, received[c], replay[c], queue[c], pushed[c], cut[c])
  <2>1. handlers \in Seq(Handlers) /\ Handled(c)
    BY DEF Inv, Types, HandlersInv
  <2>2. handlers # <<>>
    BY <2>1 DEF Handled, ToSet
  <2>3. BufferFirst
    <3>1. Head(handlers) = handlers[1]
      BY <2>1, <2>2, TailFacts
    <3>. QED
      BY <2>2, <3>1 DEF BufferFirst, Followed
  <2>. QED
    BY <2>3 DEF Inv, GapInv, Covered
<1>7. ASSUME NEW f \in Announcing(i, channel), Reached(f) PROVE f <= sent[m]
  <2> DEFINE e == sent[m]
  <2> SUFFICES ASSUME ~(f <= e) PROVE FALSE
    OBVIOUS
  <2>1. f \in About(i) /\ f \in 1..published
    BY DEF Announcing, About
  <2>2. ~OnItsWay(emitting, c, f) /\ f \notin cut[c]
    BY <1>7 DEF OnItsWay, Reached
  <2>3. k <= e
    BY <1>2, <1>4, <1>6 DEF CoveredFrom
  <2> HIDE DEF e
  <2>4. e \in 1..published
    BY <1>4 DEF e
  <2>5. f \in k..published
    BY <1>1, <2>1, <2>3, <2>4
  <2>6. f \in ToSet(sent)
    BY <1>2, <1>6, <2>2, <2>5 DEF CoveredFrom
  <2>7. PICK j \in DOMAIN sent : sent[j] = f
    BY <2>6 DEF ToSet
  <2>8. j \in about /\ i \in DOMAIN content[sent[j]].payload
    BY <2>7 DEF Announcing, About, Places
  <2>9. j # m
    BY <2>1, <2>4, <2>7 DEF e
  <2>10. j < m
    BY <1>4, <2>8, <2>9
  <2>11. sent[j] <= sent[m]
    BY <1>1, <1>2, <1>4, <1>5, <2>8, <2>10, ThreadedOrder
  <2>. QED
    BY <2>7, <2>11 DEF e
<1>. QED
  BY <1>4, <1>5, <1>7 DEF m

LEMMA InvMirrored == Inv /\ PlanInv => PlanIsMirrored
<1> SUFFICES ASSUME Inv, PlanInv PROVE PlanTypeOK /\ CopiesFollow
  BY DEF PlanIsMirrored
<1>1. PlanTypes /\ OperationInv /\ \A i \in Items : ItemInv(i)
  BY DEF PlanInv
<1>2. PlanTypeOK
  <2>1. DOMAIN content = 1..published
    BY <1>1 DEF PlanTypes
  <2>. QED
    BY <1>1, <2>1, InvTypes DEF PlanTypeOK, PlanTypes, OperationsAt
<1>3. ASSUME NEW c \in Clients, NEW channel \in {"plan", "ui"}, NEW i \in Items,
             NEW sent, sent = received[c] \o replay[c] \o queue[c],
             Followed, status[c] \in {"opened", "streaming"},
             ToSet(pushed[c]) \subseteq ToSet(sent),
             i \notin contended, i \notin torn, channel = "ui" => i \notin misled,
             \A p \in Producers : i \notin Touches(operation[p])
      PROVE  Copy(sent, channel, i) \in {None, plan[i]}
  <2> DEFINE about == Places(sent, channel, i)
  <2>1. Copy(sent, channel, i) = IF about = {} THEN None ELSE content[sent[Max(about)]].payload[i]
    BY DEF Copy, Places
  <2>0. sent = Sent(c)
    BY <1>3 DEF Sent
  <2>2. CASE about = {}
    BY <2>1, <2>2
  <2>3. CASE about # {}
    <3>1. ItemInv(i) /\ \A p \in Producers : ~Writing(p, i)
      BY <1>1, <1>3, ShowsFacts DEF Touching
    <3>2. Threaded(i) /\ Settled(i, channel)
      BY <1>3, <3>1 DEF ItemInv, Settles
    <3>3. /\ sent[Max(about)] \in Announcing(i, channel)
          /\ sent[Max(about)] \in 1..published
          /\ \A f \in Announcing(i, channel) : Reached(f) => f <= sent[Max(about)]
      BY <1>3, <2>0, <2>3, <3>2, LastWord
    <3> HIDE DEF about
    <3>4. ASSUME NEW f \in Announcing(i, channel), sent[Max(about)] < f PROVE ~Reached(f)
      <4>1. f \in 1..published
        BY DEF Announcing, About
      <4>. QED
        BY <3>3, <3>4, <4>1
    <3>5. content[sent[Max(about)]].payload[i] = plan[i]
      BY <3>2, <3>3, <3>4 DEF Settled
    <3>. QED
      BY <2>1, <2>3, <3>5
  <2>. QED
    BY <2>2, <2>3
<1>4. CopiesFollow
  BY <1>3 DEF CopiesFollow
<1>. QED
  BY <1>2, <1>4

-----------------------------------------------------------------------------
LEMMA PlanStepInv == Inv /\ [PlanNext]_allVars => Inv'
<1> SUFFICES ASSUME [PlanNext]_allVars PROVE [Next]_vars
  BY NextInv
<1>. QED
  BY DEF PlanNext, allVars, SetTaskStatus, EmitInit, EmitTyped, Emits, Resumed, Return, Cancelled, Streaming, Next

LEMMA PlanSpecInv == PlanSpec => [](Inv /\ PlanInv)
<1>1. PlanInit => Inv
  BY InitInv DEF PlanInit
<1>. QED
  BY <1>1, PlanStepInv, InitPlanInv, NextPlanInv, PTL DEF PlanSpec

(* Of the streams that mirror a plan the same holds: its operations emit   *)
(* as any producer does.                                                   *)
THEOREM PlanStreamsSound == PlanSpec => []StreamsAreSound
BY PlanSpecInv, InvSound, PTL

(* Whatever the plan, its operations and the streams (set_task_status,     *)
(* emit_init and sse_sidecar): what a consumer gets by applying the events *)
(* of one channel is what the plan says of an item, unless operations on   *)
(* the item overlapped, the queue overflowed, a task was named by the      *)
(* delta of a missing subtask, an event is still to come, or the last      *)
(* update of the item was cancelled and nothing has shown it since.        *)
THEOREM CopiesMirrorThePlan == PlanSpec => []PlanIsMirrored
BY PlanSpecInv, InvMirrored, PTL
=============================================================================
