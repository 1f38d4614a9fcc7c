-------------------------- MODULE AgentRunProofs ----------------------------
(***************************************************************************)
(* The proofs about AgentRun, History and ToolCall: for any number of      *)
(* hooks, attempts, refinements and rounds of tool calls, any budgets of   *)
(* the history processors and any overlap of turns, a provider accepts     *)
(* every window, the history stays one conversation, a sub-agent's result  *)
(* is the one the state holds, and a compound call keeps its bounds.       *)
(*                                                                         *)
(* The central fact about the processors is that each of them only drops   *)
(* messages, or turns a call into a summary, and keeps the first message   *)
(* and whatever the model has to answer: WindowKept below.                 *)
(***************************************************************************)
EXTENDS AgentRun, TLAPS, FiniteSetTheorems, SequenceTheorems, FunctionTheorems

-----------------------------------------------------------------------------
(* The inductive invariant.                                                *)

(* A newest tool return directly follows its call. *)
EndsWell(ms) ==
    ms[Len(ms)].kind = "return" => Len(ms) > 1 /\ Answers(ms[Len(ms)], ms[Len(ms) - 1])

(* Each reply was made by a turn that was shown the replies before it. *)
InOrder(ms, seen) ==
    \A i \in DOMAIN ms : \A j \in 1..(i - 1) :
        ms[i].kind = "reply" /\ ms[j].kind = "reply" => ms[j].turn \in seen[ms[i].turn]

(* What a history, and a window at any time, is like. *)
Sound(ms, seen) ==
    /\ Opened(ms)
    /\ InOrder(ms, seen)
    /\ "call" \notin salient => CallsAnswered(ms)

(* A window the model is to answer in a round of turn t. *)
Pending(ms, t, round, seen) ==
    /\ ms # <<>> /\ Sound(ms, seen) /\ EndsWell(ms)
    /\ ms[Len(ms)].turn = t /\ ms[Len(ms)].round = round
    /\ TurnIds(ms) \subseteq seen[t]

NoOrphans(ms) ==
    \A i \in DOMAIN ms : ms[i].kind = "return" => \E j \in 1..(i - 1) : Answers(ms[i], ms[j])

SlotInv(u, seen) ==
    /\ u.pc # "idle" => u.id # 0
    /\ u.pc \in {"request", "sent"} => Pending(u.window, u.id, u.round, seen)
    /\ u.pc = "sent" =>
          /\ NoOrphans(u.window)
          /\ TruncatedHistory > 0 => Len(u.window) <= TruncatedHistory + 2
    /\ u.pc = "answered" => Sound(u.window, seen)

ConversationInv ==
    /\ messages \in Seq(Messages) /\ turn \in [Slots -> TurnStates]
    /\ shown \in [Turns -> SUBSET Turns] /\ shown[0] # {}
    /\ Sound(messages, shown)
    /\ \A s \in Slots : SlotInv(turn[s], shown)

SubInv ==
    /\ sub.torn => sub.pc \in {"returned", "raised"}
    /\ ~sub.torn => sub.result = committed
    /\ sub.refined => sub.result # 0
    /\ sub.pc # "returned" => sub.exit = "passed" /\ ~sub.accepted
    /\ sub.pc \in {"agent", "enrich", "execute", "update"} =>
          (sub.result # 0 => sub.iterations <= MaxRefinements)
    /\ sub.pc \in {"enrich", "execute", "update"} => sub.pending # 0
    /\ sub.pc \in {"execute", "update"} => sub.confidence \in {0, sub.pending}
    /\ sub.pc = "evaluate" => sub.result # 0 /\ sub.confidence \in {0, sub.result}
    /\ protocol = "plain" => sub.confidence = 0 /\ sub.pc # "enrich"

CallInv ==
    /\ runs <= 3
    /\ site \in {"retry_before", "agent", "before", "execute", "skip_after"} => runs = 0
    /\ site \in {"error", "retry"} => runs = 1
    /\ site \in {"after", "reexecute"} => runs \in 1..2
    /\ site \in {"after", "reexecute", "last_after"} => effects > 0
    /\ site = "update" => runs = 0 \/ effects > 0
    /\ site \in Call!CompoundHookSites \cup Call!ExecutorSites \cup {"retry_before", "agent", "update"} =>
          updates = 0
    /\ site \in {"retry_before", "agent", "before", "execute", "skip_after", "retry", "after", "reexecute",
                 "last_after", "update"} => ~unannounced
    /\ ~wrapped => ~ranAborted /\ (aborted => site \in Call!EndSites)

ResultInv ==
    /\ sub \in SubAgentResult /\ committed \in Turns /\ protocol \in Protocols
    /\ SubInv /\ ResultIsCommitted

CompoundInv ==
    Call!TypeOK /\ CallInv /\ Call!UpdatedIffReturned /\ Call!ReturnsSuccess

IInv ==
    /\ client \in {"sub", "compound"} /\ manager \in BOOLEAN
    /\ ConversationInv /\ ResultInv /\ CompoundInv

-----------------------------------------------------------------------------
(* Positions in a sequence.                                                *)

Rank(S, i) == Cardinality({j \in S : j <= i})

LEMMA RankFacts ==
  ASSUME NEW n \in Nat, NEW S \in SUBSET (1..n)
  PROVE  /\ IsFiniteSet(S) /\ Cardinality(S) \in Nat
         /\ \A i \in S : Rank(S, i) \in 1..Cardinality(S)
         /\ \A i, j \in S : i < j => Rank(S, i) < Rank(S, j)
<1>1. IsFiniteSet(1..n)
  BY FS_Interval
<1>2. IsFiniteSet(S)
  BY <1>1, FS_Subset
<1>3. Cardinality(S) \in Nat
  BY <1>2, FS_CardinalityType
<1> DEFINE Below(i) == {j \in S : j <= i}
<1>4. ASSUME NEW i \in S
      PROVE  /\ IsFiniteSet(Below(i)) /\ Cardinality(Below(i)) \in Nat
             /\ Cardinality(Below(i)) <= Cardinality(S) /\ Cardinality(Below(i)) # 0
  <2>1. Below(i) \in SUBSET S /\ i \in Below(i)
    OBVIOUS
  <2> HIDE DEF Below
  <2>2. IsFiniteSet(Below(i)) /\ Cardinality(Below(i)) <= Cardinality(S)
    BY <1>2, <2>1, FS_Subset
  <2>3. Cardinality(Below(i)) \in Nat
    BY <2>2, FS_CardinalityType
  <2>4. Cardinality(Below(i)) # 0
    BY <2>1, <2>2, FS_EmptySet
  <2>. QED
    BY <2>2, <2>3, <2>4
<1>5. ASSUME NEW i \in S, NEW j \in S, i < j
      PROVE  Cardinality(Below(i)) < Cardinality(Below(j))
  <2>1. /\ \A x \in S : x \in Int /\ (x <= i => x <= j)
        /\ j <= j /\ ~(j <= i)
    BY <1>5
  <2>5. Below(i) \in SUBSET Below(j) /\ j \in Below(j) /\ j \notin Below(i)
    BY <2>1
  <2>2. IsFiniteSet(Below(j)) /\ Cardinality(Below(i)) \in Nat /\ Cardinality(Below(j)) \in Nat
    BY <1>4
  <2> HIDE DEF Below
  <2>3. Cardinality(Below(i)) <= Cardinality(Below(j)) /\ Cardinality(Below(j)) # Cardinality(Below(i))
    BY <2>5, <2>2, FS_Subset
  <2>. QED
    BY <2>2, <2>3
<1>6. \A i : Rank(S, i) = Cardinality(Below(i))
  BY DEF Rank
<1> HIDE DEF Below
<1>7. \A i \in S : Rank(S, i) \in 1..Cardinality(S)
  BY <1>3, <1>4, <1>6
<1>8. \A i, j \in S : i < j => Rank(S, i) < Rank(S, j)
  BY <1>5, <1>6
<1>. QED
  BY <1>2, <1>3, <1>7, <1>8

(* Nth(S, _) lists S in increasing order and Rank is its inverse. *)
LEMMA NthFacts ==
  ASSUME NEW n \in Nat, NEW S \in SUBSET (1..n)
  PROVE  /\ Cardinality(S) \in Nat
         /\ \A k \in 1..Cardinality(S) : Nth(S, k) \in S /\ Rank(S, Nth(S, k)) = k
         /\ \A i \in S : Rank(S, i) \in 1..Cardinality(S) /\ Nth(S, Rank(S, i)) = i
         /\ \A k, l \in 1..Cardinality(S) : k < l => Nth(S, k) < Nth(S, l)
<1> DEFINE c == Cardinality(S)
           f == [i \in S |-> Rank(S, i)]
<1>1. /\ IsFiniteSet(S) /\ c \in Nat
      /\ \A i \in S : Rank(S, i) \in 1..c
      /\ \A i, j \in S : i < j => Rank(S, i) < Rank(S, j)
  BY RankFacts
<1>2. \A i \in S : i \in Int /\ Rank(S, i) \in Int
  BY <1>1
<1>3. \A i, j \in S : Rank(S, i) = Rank(S, j) => i = j
  <2> SUFFICES ASSUME NEW i \in S, NEW j \in S, Rank(S, i) = Rank(S, j), i # j PROVE FALSE
    OBVIOUS
  <2>1. i < j \/ j < i
    BY <1>2
  <2>. QED
    BY <1>1, <1>2, <2>1
<1>4. f \in [S -> 1..c] /\ \A i, j \in S : f[i] = f[j] => i = j
  BY <1>1, <1>3
<1>5. IsFiniteSet(1..c) /\ Cardinality(1..c) = c
  BY <1>1, FS_Interval
<1> HIDE DEF c
<1>6. f \in Injection(S, 1..c)
  <2> HIDE DEF f
  <2>. QED
    BY <1>4 DEF Injection, IsInjective
<1>7. f \in Surjection(S, 1..c)
  <2> HIDE DEF f
  <2>. QED
    BY <1>5, <1>6, FS_Injection DEF c
<1>8. \A k \in 1..c : \E i \in S : f[i] = k
  BY <1>7 DEF Surjection
<1>9. ASSUME NEW k \in 1..c
      PROVE  Nth(S, k) \in S /\ Rank(S, Nth(S, k)) = k
  <2>1. \E i \in S : Rank(S, i) = k
    BY <1>8
  <2>. QED
    BY <2>1 DEF Nth, Rank
<1>10. ASSUME NEW i \in S
       PROVE  Rank(S, i) \in 1..c /\ Nth(S, Rank(S, i)) = i
  <2>1. Rank(S, i) \in 1..c
    BY <1>1
  <2>. QED
    BY <1>3, <1>9, <2>1
<1>11. ASSUME NEW k \in 1..c, NEW l \in 1..c, k < l
       PROVE  Nth(S, k) < Nth(S, l)
  <2>1. Nth(S, k) \in S /\ Nth(S, l) \in S /\ Rank(S, Nth(S, k)) = k /\ Rank(S, Nth(S, l)) = l
    BY <1>9
  <2>2. Nth(S, k) \in Int /\ Nth(S, l) \in Int
    BY <1>2, <2>1
  <2>3. k \in Int /\ l \in Int /\ ~(l < k) /\ l # k
    BY <1>1, <1>11
  <2>4. Nth(S, l) < Nth(S, k) => Rank(S, Nth(S, l)) < Rank(S, Nth(S, k))
    BY <1>1, <2>1
  <2>. QED
    BY <2>1, <2>2, <2>3, <2>4
<1>. QED
  BY <1>1, <1>9, <1>10, <1>11 DEF c

(* The messages at S, in order: their number, where each comes from and    *)
(* where each goes to; neighbours stay neighbours.                         *)
LEMMA AtFacts ==
  ASSUME NEW M, NEW ms \in Seq(M), NEW S \in SUBSET DOMAIN ms
  PROVE  /\ At(ms, S) \in Seq(M) /\ Len(At(ms, S)) = Cardinality(S) /\ Cardinality(S) \in Nat
         /\ \A k \in 1..Cardinality(S) :
               Nth(S, k) \in S /\ At(ms, S)[k] = ms[Nth(S, k)] /\ Rank(S, Nth(S, k)) = k
         /\ \A k, l \in 1..Cardinality(S) : k < l => Nth(S, k) < Nth(S, l)
         /\ \A i \in S : Rank(S, i) \in 1..Cardinality(S) /\ At(ms, S)[Rank(S, i)] = ms[i]
                         /\ Nth(S, Rank(S, i)) = i
         /\ \A i, j \in S : i < j => Rank(S, i) < Rank(S, j)
         /\ \A i \in S : i + 1 \in S => Rank(S, i + 1) = Rank(S, i) + 1
<1> DEFINE c == Cardinality(S)
           n == Len(ms)
<1>1. n \in Nat /\ DOMAIN ms = 1..n
  BY LenProperties
<1>2. S \in SUBSET (1..n) /\ S \in SUBSET Int
  BY <1>1
<1> HIDE DEF n
<1>3. /\ c \in Nat
      /\ \A k \in 1..c : Nth(S, k) \in S /\ Rank(S, Nth(S, k)) = k
      /\ \A i \in S : Rank(S, i) \in 1..c /\ Nth(S, Rank(S, i)) = i
      /\ \A k, l \in 1..c : k < l => Nth(S, k) < Nth(S, l)
  BY <1>1, <1>2, NthFacts
<1>4. \A i, j \in S : i < j => Rank(S, i) < Rank(S, j)
  BY <1>1, <1>2, RankFacts
<1>5. At(ms, S) = [k \in 1..c |-> ms[Nth(S, k)]]
  BY DEF At
<1>6. \A k \in 1..c : ms[Nth(S, k)] \in M
  BY <1>1, <1>2, <1>3, ElementOfSeq
<1> HIDE DEF c
<1>7. At(ms, S) \in Seq(M) /\ Len(At(ms, S)) = c
  <2>1. At(ms, S) \in [1..c -> M]
    BY <1>5, <1>6
  <2>2. At(ms, S) \in Seq(M)
    BY <1>3, <2>1, SeqDef
  <2>. QED
    BY <1>3, <2>1, <2>2, LenProperties
<1>8. ASSUME NEW i \in S, i + 1 \in S
      PROVE  Rank(S, i + 1) = Rank(S, i) + 1
  <2> DEFINE k == Rank(S, i)
             l == Rank(S, i + 1)
  <2>1. k \in 1..c /\ l \in 1..c /\ k < l /\ Nth(S, k) = i /\ Nth(S, l) = i + 1 /\ i \in Int
    BY <1>2, <1>3, <1>4, <1>8
  <2> HIDE DEF k, l
  <2>2. ASSUME k + 1 < l PROVE FALSE
    <3>1. k + 1 \in 1..c /\ k < k + 1
      BY <1>3, <2>1, <2>2
    <3>2. Nth(S, k + 1) \in Int /\ i < Nth(S, k + 1) /\ Nth(S, k + 1) < i + 1
      BY <1>2, <1>3, <2>1, <2>2, <3>1
    <3>. QED
      BY <2>1, <3>2
  <2>3. l = k + 1
    BY <1>3, <2>1, <2>2
  <2>. QED
    BY <2>3 DEF k, l
<1>9. \A k \in 1..c : At(ms, S)[k] = ms[Nth(S, k)]
  BY <1>5
<1>. QED
  BY <1>3, <1>4, <1>7, <1>8, <1>9 DEF c

-----------------------------------------------------------------------------
(* What a processor keeps.                                                 *)

(* Positions that hold the first message, the newest with the call it may  *)
(* answer, and with a call the message after it, make a window of a window. *)
LEMMA WindowKept ==
  ASSUME NEW ms \in Seq(Messages), NEW S \in SUBSET DOMAIN ms, NEW t, NEW round, NEW seen,
         Pending(ms, t, round, seen),
         1 \in S, Len(ms) \in S, ms[Len(ms)].kind = "return" => Len(ms) - 1 \in S,
         "call" \notin salient => \A i \in S : ms[i].kind = "call" => i + 1 \in S
  PROVE  At(ms, S) \in Seq(Messages) /\ Pending(At(ms, S), t, round, seen)
<1> DEFINE new == At(ms, S)
           c == Cardinality(S)
           n == Len(ms)
<1>1. n \in Nat /\ DOMAIN ms = 1..n /\ S \in SUBSET (1..n)
  BY LenProperties
<1>2. /\ new \in Seq(Messages) /\ Len(new) = c /\ c \in Nat
      /\ \A k \in 1..c : Nth(S, k) \in S /\ new[k] = ms[Nth(S, k)] /\ Rank(S, Nth(S, k)) = k
      /\ \A k, l \in 1..c : k < l => Nth(S, k) < Nth(S, l)
      /\ \A i \in S : Rank(S, i) \in 1..c /\ new[Rank(S, i)] = ms[i] /\ Nth(S, Rank(S, i)) = i
      /\ \A i, j \in S : i < j => Rank(S, i) < Rank(S, j)
      /\ \A i \in S : i + 1 \in S => Rank(S, i + 1) = Rank(S, i) + 1
  BY AtFacts, ZenonT(40)
<1>3. DOMAIN new = 1..c
  BY <1>2, LenProperties
<1> HIDE DEF new, c, n
<1>4. /\ ms # <<>> /\ Opened(ms) /\ InOrder(ms, seen) /\ EndsWell(ms)
      /\ "call" \notin salient => CallsAnswered(ms)
      /\ ms[n].turn = t /\ ms[n].round = round /\ TurnIds(ms) \subseteq seen[t]
  BY DEF Pending, Sound, n
<1>5. 1 \in S /\ n \in S
  BY DEF n
<1>6. Rank(S, 1) = 1
  <2> DEFINE k == Rank(S, 1)
  <2>1. k \in 1..c /\ Nth(S, k) = 1
    BY <1>2, <1>5
  <2> HIDE DEF k
  <2>2. ASSUME 1 < k PROVE FALSE
    <3>1. 1 \in 1..c /\ Nth(S, 1) < 1
      BY <1>2, <2>1, <2>2
    <3>2. Nth(S, 1) \in 1..n
      BY <1>1, <1>2, <3>1
    <3>. QED
      BY <1>1, <3>1, <3>2
  <2>3. k = 1
    BY <1>2, <2>1, <2>2
  <2>. QED
    BY <2>3 DEF k
<1>7. Rank(S, n) = c
  <2> DEFINE k == Rank(S, n)
  <2>1. k \in 1..c /\ Nth(S, k) = n
    BY <1>2, <1>5
  <2> HIDE DEF k
  <2>2. ASSUME k < c PROVE FALSE
    <3>1. c \in 1..c /\ n < Nth(S, c)
      BY <1>2, <2>1, <2>2
    <3>2. Nth(S, c) \in 1..n
      BY <1>1, <1>2, <3>1
    <3>. QED
      BY <1>1, <3>1, <3>2
  <2>3. k = c
    BY <1>2, <2>1, <2>2
  <2>. QED
    BY <2>3 DEF k
<1>8. new[1] = ms[1] /\ new[c] = ms[n] /\ c > 0
  <2>1. Rank(S, 1) \in 1..c
    BY <1>2, <1>5
  <2>. QED
    BY <1>2, <1>5, <1>6, <1>7, <2>1
<1>9. new # <<>>
  BY <1>2, <1>8, EmptySeq
<1>10. Opened(new)
  BY <1>4, <1>8 DEF Opened
<1>11. EndsWell(new)
  <2> SUFFICES ASSUME ms[n].kind = "return"
               PROVE  c > 1 /\ Answers(new[c], new[c - 1])
    BY <1>2, <1>8 DEF EndsWell
  <2>1. n - 1 \in S /\ Answers(ms[n], ms[n - 1])
    BY <1>4 DEF EndsWell, n
  <2>2. (n - 1) + 1 = n
    BY <1>1
  <2>3. Rank(S, n) = Rank(S, n - 1) + 1 /\ Rank(S, n - 1) \in 1..c /\ new[Rank(S, n - 1)] = ms[n - 1]
    BY <1>2, <1>5, <2>1, <2>2
  <2>4. Rank(S, n - 1) = c - 1 /\ c > 1
    BY <1>2, <1>7, <2>3
  <2>. QED
    BY <1>8, <2>1, <2>3, <2>4
<1>12. InOrder(new, seen)
  <2> SUFFICES ASSUME NEW i \in 1..c, NEW j \in 1..(i - 1),
                      new[i].kind = "reply", new[j].kind = "reply"
               PROVE  new[j].turn \in seen[new[i].turn]
    BY <1>3 DEF InOrder
  <2>1. j \in 1..c /\ j < i
    BY <1>2
  <2>2. new[i] = ms[Nth(S, i)] /\ new[j] = ms[Nth(S, j)]
    BY <1>2, <2>1
  <2>3. Nth(S, i) \in DOMAIN ms /\ Nth(S, i) \in Int /\ Nth(S, j) \in 1..(Nth(S, i) - 1)
    <3>1. Nth(S, i) \in 1..n /\ Nth(S, j) \in 1..n /\ Nth(S, j) < Nth(S, i)
      BY <1>1, <1>2, <2>1
    <3>. QED
      BY <1>1, <3>1
  <2>. QED
    BY <1>4, <2>2, <2>3 DEF InOrder
<1>13. TurnIds(new) \subseteq seen[t]
  <2> SUFFICES ASSUME NEW i \in 1..c, new[i].kind = "reply"
               PROVE  new[i].turn \in seen[t]
    BY <1>3 DEF TurnIds
  <2>1. Nth(S, i) \in DOMAIN ms /\ new[i] = ms[Nth(S, i)]
    BY <1>2
  <2>2. new[i].turn \in TurnIds(ms)
    BY <2>1 DEF TurnIds
  <2>. QED
    BY <1>4, <2>2
<1>14. ASSUME "call" \notin salient PROVE CallsAnswered(new)
  <2> SUFFICES ASSUME NEW i \in 1..c, new[i].kind = "call"
               PROVE  i < c /\ Answers(new[i + 1], new[i])
    BY <1>2, <1>3 DEF CallsAnswered
  <2> DEFINE p == Nth(S, i)
  <2>1. p \in S /\ new[i] = ms[p] /\ Rank(S, p) = i
    BY <1>2
  <2> HIDE DEF p
  <2>2. p + 1 \in S /\ Answers(ms[p + 1], ms[p])
    BY <1>4, <1>14, <2>1 DEF CallsAnswered
  <2>3. Rank(S, p + 1) = i + 1 /\ Rank(S, p + 1) \in 1..c /\ new[Rank(S, p + 1)] = ms[p + 1]
    BY <1>2, <2>1, <2>2
  <2>. QED
    BY <1>2, <2>1, <2>2, <2>3
<1>15. Pending(new, t, round, seen)
  BY <1>2, <1>4, <1>8, <1>9, <1>10, <1>11, <1>12, <1>13, <1>14 DEF Pending, Sound
<1>. QED
  BY <1>2, <1>15 DEF new

(* Whatever becomes of the sizes, and of calls in the middle that become   *)
(* summaries, a window stays a window.                                     *)
LEMMA WindowRelabelled ==
  ASSUME NEW ms \in Seq(Messages), NEW new \in Seq(Messages), NEW t, NEW round, NEW seen,
         Pending(ms, t, round, seen), Len(new) = Len(ms),
         \A i \in DOMAIN ms :
            \/ /\ new[i].kind = ms[i].kind /\ new[i].turn = ms[i].turn
               /\ new[i].round = ms[i].round
            \/ ms[i].kind = "call" /\ new[i].kind = "summary" /\ i < Len(ms) - 1
  PROVE  Pending(new, t, round, seen)
<1> DEFINE n == Len(ms)
           Same(i) == new[i].kind = ms[i].kind /\ new[i].turn = ms[i].turn /\ new[i].round = ms[i].round
<1>1. n \in Nat /\ DOMAIN ms = 1..n /\ DOMAIN new = 1..n /\ n > 0
  BY LenProperties, EmptySeq DEF Pending
<1>2. /\ ms # <<>> /\ ms[1].kind = "prompt" /\ InOrder(ms, seen) /\ EndsWell(ms)
      /\ "call" \notin salient => CallsAnswered(ms)
      /\ ms[n].turn = t /\ ms[n].round = round /\ TurnIds(ms) \subseteq seen[t]
  BY DEF Pending, Sound, Opened
<1>3. \A i \in 1..n : Same(i) \/ (ms[i].kind = "call" /\ new[i].kind = "summary" /\ i < n - 1)
  BY <1>1
<1> HIDE DEF n
<1>4. Same(n) /\ (n > 1 => Same(n - 1)) /\ new[1].kind = "prompt"
  <2>1. n \in 1..n /\ 1 \in 1..n /\ ~(n < n - 1) /\ ~(n - 1 < n - 1) /\ (n > 1 => n - 1 \in 1..n)
    BY <1>1
  <2>2. Same(n)
    BY <1>3, <2>1
  <2>3. n > 1 => Same(n - 1)
    BY <1>3, <2>1
  <2>4. new[1].kind = "prompt"
    BY <1>2, <1>3, <2>1
  <2>. QED
    BY <2>2, <2>3, <2>4
<1>5. new # <<>> /\ Opened(new)
  BY <1>1, <1>4, EmptySeq DEF Opened, n
<1>6. EndsWell(new)
  <2> SUFFICES ASSUME ms[n].kind = "return"
               PROVE  n > 1 /\ Answers(new[n], new[n - 1])
    BY <1>4 DEF EndsWell, n
  <2>1. n > 1 /\ Answers(ms[n], ms[n - 1])
    BY <1>2 DEF EndsWell, n
  <2>. QED
    BY <1>4, <2>1 DEF Answers
<1>7. InOrder(new, seen)
  <2> SUFFICES ASSUME NEW i \in 1..n, NEW j \in 1..(i - 1),
                      new[i].kind = "reply", new[j].kind = "reply"
               PROVE  new[j].turn \in seen[new[i].turn]
    BY <1>1 DEF InOrder
  <2>1. j \in 1..n
    BY <1>1
  <2>2. Same(i) /\ Same(j)
    BY <1>3, <2>1
  <2>. QED
    BY <1>1, <1>2, <2>1, <2>2 DEF InOrder
<1>8. TurnIds(new) \subseteq seen[t]
  <2> SUFFICES ASSUME NEW i \in 1..n, new[i].kind = "reply"
               PROVE  new[i].turn \in seen[t]
    BY <1>1 DEF TurnIds
  <2>1. Same(i)
    BY <1>3
  <2>2. new[i].turn \in TurnIds(ms)
    BY <1>1, <2>1 DEF TurnIds
  <2>. QED
    BY <1>2, <2>2
<1>9. ASSUME "call" \notin salient PROVE CallsAnswered(new)
  <2> SUFFICES ASSUME NEW i \in 1..n, new[i].kind = "call"
               PROVE  i < n /\ Answers(new[i + 1], new[i])
    BY <1>1 DEF CallsAnswered, n
  <2>1. Same(i)
    BY <1>3
  <2>2. i < n /\ Answers(ms[i + 1], ms[i])
    BY <1>1, <1>2, <1>9, <2>1 DEF CallsAnswered, n
  <2>3. i + 1 \in 1..n /\ ms[i + 1].kind # "call"
    BY <1>1, <2>2 DEF Answers
  <2>4. Same(i + 1)
    BY <1>3, <2>3
  <2>. QED
    BY <2>1, <2>2, <2>4 DEF Answers
<1>. QED
  BY <1>2, <1>4, <1>5, <1>6, <1>7, <1>8, <1>9 DEF Pending, Sound, n

-----------------------------------------------------------------------------
(* The processors.                                                         *)

LEMMA RepairFacts ==
  ASSUME NEW ms \in Seq(Messages), NEW t, NEW round, NEW seen, Pending(ms, t, round, seen)
  PROVE  /\ RepairOrphans(ms) \in Seq(Messages) /\ Pending(RepairOrphans(ms), t, round, seen)
         /\ NoOrphans(RepairOrphans(ms))
         /\ Len(RepairOrphans(ms)) <= Len(ms)
<1> DEFINE Kept(i) == ms[i].kind = "return" => \E j \in 1..(i - 1) : Answers(ms[i], ms[j])
           S == {i \in DOMAIN ms : Kept(i)}
           n == Len(ms)
           c == Cardinality(S)
           new == At(ms, S)
<1>1. n \in Nat /\ DOMAIN ms = 1..n /\ n > 0 /\ S \in SUBSET DOMAIN ms
  BY LenProperties, EmptySeq DEF Pending
<1>2. ms[1].kind = "prompt" /\ EndsWell(ms) /\ ("call" \notin salient => CallsAnswered(ms))
  BY DEF Pending, Sound, Opened
<1> HIDE DEF n
<1>3. 1 \in S
  BY <1>1, <1>2
<1>4. ASSUME ms[n].kind = "return" PROVE n > 1 /\ Answers(ms[n], ms[n - 1])
  BY <1>2, <1>4 DEF EndsWell, n
<1>5. n \in S
  <2>1. n \in DOMAIN ms
    BY <1>1
  <2>2. ASSUME ms[n].kind = "return" PROVE Kept(n)
    BY <1>1, <1>4, <2>2
  <2>. QED
    BY <2>1, <2>2
<1>6. ASSUME ms[n].kind = "return" PROVE n - 1 \in S
  <2>1. n - 1 \in DOMAIN ms /\ ms[n - 1].kind # "return"
    BY <1>1, <1>4, <1>6 DEF Answers
  <2>. QED
    BY <2>1
<1>7. ASSUME "call" \notin salient, NEW i \in S, ms[i].kind = "call" PROVE i + 1 \in S
  <2>1. i < n /\ Answers(ms[i + 1], ms[i])
    BY <1>2, <1>7 DEF CallsAnswered, n
  <2>2. i + 1 \in DOMAIN ms /\ i \in 1..((i + 1) - 1)
    BY <1>1, <2>1
  <2>. QED
    BY <2>1, <2>2
<1>8. /\ \A k \in 1..c : Nth(S, k) \in S /\ new[k] = ms[Nth(S, k)] /\ Rank(S, Nth(S, k)) = k
      /\ \A i \in S : Rank(S, i) \in 1..c /\ new[Rank(S, i)] = ms[i]
      /\ \A i, j \in S : i < j => Rank(S, i) < Rank(S, j)
      /\ new \in Seq(Messages) /\ Len(new) = c /\ c \in Nat
  <2> HIDE DEF S
  <2>. QED
    BY <1>1, AtFacts, ZenonT(40)
<1>9. new = RepairOrphans(ms)
  BY DEF RepairOrphans
<1>10. \A i \in S : i \in DOMAIN ms /\ i \in Int /\ Kept(i)
  BY <1>1
<1>11. \A i \in DOMAIN ms : ms[i].kind # "return" => i \in S
  OBVIOUS
<1> HIDE DEF S, new
<1>12. new \in Seq(Messages) /\ Pending(new, t, round, seen)
  BY <1>1, <1>3, <1>5, <1>6, <1>7, WindowKept DEF n, new
<1>13. c <= n
  <2>1. IsFiniteSet(1..n) /\ Cardinality(1..n) = n
    BY <1>1, FS_Interval
  <2> HIDE DEF c
  <2>. QED
    BY <1>1, <2>1, FS_Subset DEF c
<1>14. NoOrphans(new)
  <2> SUFFICES ASSUME NEW k \in 1..c, new[k].kind = "return"
               PROVE  \E l \in 1..(k - 1) : Answers(new[k], new[l])
    BY <1>8, LenProperties DEF NoOrphans
  <2> DEFINE i == Nth(S, k)
  <2>1. i \in S /\ new[k] = ms[i] /\ Rank(S, i) = k
    BY <1>8
  <2> HIDE DEF i
  <2>2. PICK j \in 1..(i - 1) : Answers(ms[i], ms[j])
    BY <1>10, <2>1
  <2>3. j \in DOMAIN ms /\ j < i
    BY <1>1, <1>10, <2>1
  <2>4. j \in S
    BY <1>11, <2>2, <2>3 DEF Answers
  <2>5. Rank(S, j) \in 1..c /\ new[Rank(S, j)] = ms[j] /\ Rank(S, j) < k
    BY <1>8, <2>1, <2>3, <2>4
  <2>6. Rank(S, j) \in 1..(k - 1) /\ Answers(new[k], new[Rank(S, j)])
    BY <1>8, <2>1, <2>2, <2>5
  <2>. QED
    BY <2>6
<1>. QED
  BY <1>8, <1>9, <1>12, <1>13, <1>14 DEF n

LEMMA BudgetFacts ==
  ASSUME NEW ms \in Seq(Messages), NEW t, NEW round, NEW seen, Pending(ms, t, round, seen)
  PROVE  /\ BudgetToolResults(ms) \in Seq(Messages) /\ Len(BudgetToolResults(ms)) = Len(ms)
         /\ Pending(BudgetToolResults(ms), t, round, seen)
<1> DEFINE Cut(m) == IF m.kind = "return" /\ m.size >= LongResult THEN [m EXCEPT !.size = 1] ELSE m
           new == [i \in DOMAIN ms |-> Cut(ms[i])]
<1>1. new = BudgetToolResults(ms)
  BY DEF BudgetToolResults
<1>2. ASSUME NEW m \in Messages
      PROVE  Cut(m) \in Messages /\ Cut(m).kind = m.kind /\ Cut(m).turn = m.turn /\ Cut(m).round = m.round
  <2>1. CASE m.kind = "return" /\ m.size >= LongResult
    <3>1. Cut(m) = [m EXCEPT !.size = 1]
      BY <2>1
    <3>2. 1 \in 1..LongResult
      BY SizeAssumption
    <3> HIDE DEF Cut
    <3>. QED
      BY <3>1, <3>2 DEF Messages
  <2>2. CASE ~(m.kind = "return" /\ m.size >= LongResult)
    BY <2>2
  <2>. QED
    BY <2>1, <2>2
<1> HIDE DEF Cut
<1>3. \A i \in DOMAIN ms : ms[i] \in Messages
  BY LenProperties, ElementOfSeq
<1>4. Len(ms) \in Nat /\ DOMAIN ms = 1..Len(ms)
  BY LenProperties
<1>5. new \in [1..Len(ms) -> Messages]
  BY <1>2, <1>3, <1>4
<1>6. new \in Seq(Messages)
  <2> HIDE DEF new
  <2>. QED
    BY <1>4, <1>5, SeqDef
<1>7. Len(new) = Len(ms)
  <2> HIDE DEF new
  <2>. QED
    BY <1>4, <1>5, <1>6, LenProperties
<1>8. \A i \in DOMAIN ms : /\ new[i].kind = ms[i].kind /\ new[i].turn = ms[i].turn
                           /\ new[i].round = ms[i].round
  BY <1>2, <1>3
<1> HIDE DEF new
<1>9. Pending(new, t, round, seen)
  BY <1>6, <1>7, <1>8, WindowRelabelled
<1>. QED
  BY <1>1, <1>6, <1>7, <1>9

LEMMA KeepRecentFacts ==
  ASSUME NEW ms \in Seq(Messages), NEW t, NEW round, NEW seen, Pending(ms, t, round, seen)
  PROVE  /\ KeepRecent(ms) \in Seq(Messages) /\ Pending(KeepRecent(ms), t, round, seen)
         /\ TruncatedHistory > 0 => Len(KeepRecent(ms)) <= TruncatedHistory + 2
<1> DEFINE h == TruncatedHistory
           n == Len(ms)
           cut == n - h + 1
           start == IF ~Response(ms[cut]) /\ Response(ms[cut - 1]) THEN cut - 1 ELSE cut
           S == {1} \cup (start..n)
<1>1. n \in Nat /\ DOMAIN ms = 1..n /\ n > 0 /\ h \in Nat
  BY LenProperties, EmptySeq, WindowAssumption DEF Pending
<1>2. KeepRecent(ms) = IF h <= 0 \/ n <= h THEN ms ELSE At(ms, S)
  BY DEF KeepRecent
<1>3. EndsWell(ms) /\ ms[1].kind = "prompt" /\ ("call" \notin salient => CallsAnswered(ms))
  BY DEF Pending, Sound, Opened
<1> HIDE DEF n, h
<1>4. CASE h <= 0 \/ n <= h
  BY <1>1, <1>2, <1>4 DEF n, h
<1>5. CASE ~(h <= 0 \/ n <= h)
  <2>1. start \in Int /\ start >= 1 /\ start <= n /\ start >= n - h /\ (start = cut \/ start = cut - 1)
    BY <1>1, <1>5
  <2>2. S \in SUBSET DOMAIN ms /\ 1 \in S /\ n \in S
    BY <1>1, <2>1
  <2>3. ASSUME ms[n].kind = "return" PROVE n - 1 \in S
    <3>1. n > 1 /\ Answers(ms[n], ms[n - 1])
      BY <1>3, <2>3 DEF EndsWell, n
    <3>2. Response(ms[n - 1]) /\ ~Response(ms[n])
      BY <2>3, <3>1 DEF Answers, Response
    <3>3. CASE h = 1
      <4>1. cut = n /\ start = n - 1
        BY <1>1, <3>2, <3>3
      <4>. QED
        BY <1>1, <4>1
    <3>4. CASE h # 1
      <4>1. cut <= n - 1
        BY <1>1, <1>5, <3>4
      <4>2. start <= n - 1
        BY <1>1, <2>1, <4>1
      <4>. QED
        BY <1>1, <2>1, <4>2
    <3>. QED
      BY <3>3, <3>4
  <2>4. ASSUME "call" \notin salient, NEW i \in S, ms[i].kind = "call" PROVE i + 1 \in S
    <3>1. i # 1 /\ i \in start..n
      BY <1>3, <2>4
    <3>2. i \in DOMAIN ms
      BY <2>2
    <3>3. i < n
      BY <1>3, <2>4, <3>2 DEF CallsAnswered, n
    <3>. QED
      BY <1>1, <2>1, <3>1, <3>3
  <2>5. IsFiniteSet(S) /\ Cardinality(S) \in Nat /\ Cardinality(S) <= h + 2
    <3>1. IsFiniteSet(start..n) /\ Cardinality(start..n) = n - start + 1
      BY <1>1, <2>1, FS_Interval
    <3> DEFINE I == start..n
    <3> HIDE DEF I
    <3>2. /\ IsFiniteSet(I \cup {1})
          /\ Cardinality(I \cup {1}) = IF 1 \in I THEN Cardinality(I) ELSE Cardinality(I) + 1
      BY <3>1, FS_AddElement DEF I
    <3>3. S = I \cup {1}
      BY DEF I
    <3>4. Cardinality(I) \in Nat /\ Cardinality(I) <= h + 1
      BY <1>1, <2>1, <3>1 DEF I
    <3> HIDE DEF S
    <3>5. Cardinality(S) = Cardinality(I) \/ Cardinality(S) = Cardinality(I) + 1
      BY <3>2, <3>3
    <3>6. IsFiniteSet(S)
      BY <3>2, <3>3
    <3>. QED
      BY <1>1, <3>4, <3>5, <3>6
  <2> HIDE DEF S
  <2>6. At(ms, S) \in Seq(Messages) /\ Pending(At(ms, S), t, round, seen)
    BY <2>2, <2>3, <2>4, WindowKept DEF n
  <2>7. Len(At(ms, S)) = Cardinality(S)
    BY <2>2, AtFacts
  <2>8. KeepRecent(ms) = At(ms, S)
    BY <1>2, <1>5
  <2>. QED
    BY <2>5, <2>6, <2>7, <2>8 DEF h
<1>. QED
  BY <1>4, <1>5

LEMMA SummarizeFacts ==
  ASSUME NEW ms \in Seq(Messages), NEW t, NEW round, NEW seen, Pending(ms, t, round, seen)
  PROVE  /\ SummarizeOldTurns(ms) \in Seq(Messages)
         /\ Pending(SummarizeOldTurns(ms), t, round, seen)
<1> DEFINE n == Len(ms)
           recent == n - MinRecentTurns + 1
           pairs == {i \in 2..(recent - 2) : ms[i].kind = "call" /\ ms[i + 1].kind = "return"}
           answered == {i + 1 : i \in pairs}
           absorbed == answered \cup {i \in pairs : i - 1 \in answered}
           Summary(m) == Message(m.turn, "summary", 0, 1)
           new == [i \in DOMAIN ms |-> IF i \in pairs THEN Summary(ms[i]) ELSE ms[i]]
           S == DOMAIN ms \ absorbed
<1>1. SummarizeOldTurns(ms) = IF n <= MinRecentTurns + 1 THEN ms ELSE At(new, S)
  BY DEF SummarizeOldTurns
<1>2. n \in Nat /\ DOMAIN ms = 1..n /\ n > 0 /\ MinRecentTurns \in Nat /\ MinRecentTurns >= 2
  BY LenProperties, EmptySeq, WindowAssumption DEF Pending
<1>3. EndsWell(ms) /\ ms[1].kind = "prompt" /\ ("call" \notin salient => CallsAnswered(ms))
  BY DEF Pending, Sound, Opened
<1>4. ASSUME NEW m \in Messages
      PROVE  Summary(m) \in Messages /\ Summary(m).kind = "summary"
  BY SizeAssumption, LimitsAssumption DEF Messages, Message
<1> HIDE DEF n, Summary
<1>5. \A i \in pairs : /\ i \in 2..n /\ i < n - 2 /\ ms[i].kind = "call"
                       /\ ms[i + 1].kind = "return"
  <2> SUFFICES ASSUME NEW i \in pairs
               PROVE  i \in 2..n /\ i < n - 2
    OBVIOUS
  <2>1. i \in 2..(recent - 2)
    OBVIOUS
  <2>. QED
    BY <1>2, <2>1
<1> HIDE DEF pairs
<1>6. \A i \in answered : i \in 3..n /\ i < n - 1
  BY <1>2, <1>5
<1>7. \A i \in answered : \E j \in pairs : i = j + 1
  OBVIOUS
<1> HIDE DEF answered
<1>8. CASE n <= MinRecentTurns + 1
  BY <1>1, <1>8
<1>9. CASE ~(n <= MinRecentTurns + 1)
  <2>1. \A i \in 1..n : ms[i] \in Messages
    BY <1>2, ElementOfSeq DEF n
  <2>2. new \in [1..n -> Messages]
    BY <1>2, <1>4, <2>1
  <2>3. /\ \A i \in pairs : i \in DOMAIN ms => new[i].kind = "summary"
        /\ \A i \in DOMAIN ms : i \notin pairs => new[i] = ms[i]
    BY <1>2, <1>4, <2>1
  <2> HIDE DEF new
  <2>4. new \in Seq(Messages) /\ Len(new) = n /\ DOMAIN new = 1..n
    <3>1. new \in Seq(Messages)
      BY <1>2, <2>2, SeqDef
    <3>. QED
      BY <1>2, <2>2, <3>1, LenProperties
  <2>5. Pending(new, t, round, seen)
    <3>1. ASSUME NEW i \in DOMAIN ms
          PROVE  \/ /\ new[i].kind = ms[i].kind /\ new[i].turn = ms[i].turn
                    /\ new[i].round = ms[i].round
                 \/ ms[i].kind = "call" /\ new[i].kind = "summary" /\ i < Len(ms) - 1
      <4>1. CASE i \in pairs
        <5>1. i < n - 2 /\ i \in Int
          BY <1>5, <4>1
        <5>2. i < n - 1
          BY <1>2, <5>1
        <5>. QED
          BY <1>5, <2>3, <4>1, <5>2 DEF n
      <4>2. CASE i \notin pairs
        BY <2>3, <4>2
      <4>. QED
        BY <4>1, <4>2
    <3>. QED
      BY <2>4, <3>1, WindowRelabelled DEF n
  <2>6. \A i \in absorbed : i \in 2..n /\ i < n - 1
    <3> SUFFICES ASSUME NEW i \in absorbed PROVE i \in 2..n /\ i < n - 1
      OBVIOUS
    <3>1. i \in answered \/ i \in pairs
      OBVIOUS
    <3>. QED
      BY <1>2, <1>5, <1>6, <3>1
  <2>7. S \in SUBSET DOMAIN new /\ 1 \in S /\ n \in S /\ (n > 1 => n - 1 \in S)
    <3>1. 1 \notin absorbed /\ n \notin absorbed /\ n - 1 \notin absorbed
      BY <1>2, <2>6
    <3>. QED
      BY <1>2, <2>4, <3>1
  <2>8. ASSUME new[n].kind = "return" PROVE n - 1 \in S
    <3>1. n > 1
      BY <2>4, <2>5, <2>8 DEF Pending, EndsWell
    <3>. QED
      BY <2>7, <3>1
  <2>9. ASSUME "call" \notin salient, NEW i \in S, new[i].kind = "call" PROVE i + 1 \in S
    <3>1. i \in DOMAIN ms /\ i \notin pairs
      BY <2>3, <2>9
    <3>2. ms[i].kind = "call"
      BY <2>3, <2>9, <3>1
    <3>3. i < n /\ Answers(ms[i + 1], ms[i])
      BY <1>3, <2>9, <3>1, <3>2 DEF CallsAnswered, n
    <3>4. i + 1 \in DOMAIN ms
      BY <1>2, <3>1, <3>3
    <3>5. i + 1 \notin pairs
      BY <1>5, <3>3 DEF Answers
    <3>6. i + 1 \notin answered
      <4> SUFFICES ASSUME i + 1 \in answered PROVE FALSE
        OBVIOUS
      <4>1. PICK j \in pairs : i + 1 = j + 1
        BY <1>7
      <4>2. i = j
        BY <1>2, <1>5, <3>1, <4>1
      <4>. QED
        BY <3>1, <4>2
    <3>. QED
      BY <3>4, <3>5, <3>6
  <2>10. SummarizeOldTurns(ms) = At(new, S)
    BY <1>1, <1>9
  <2> HIDE DEF S, absorbed
  <2>. QED
    BY <2>4, <2>5, <2>7, <2>8, <2>9, <2>10, WindowKept
<1>. QED
  BY <1>8, <1>9

(* A set of positions has a last one. *)
LEMMA LargestOf ==
  ASSUME NEW n \in Nat, NEW V \in SUBSET (0..n), V # {}
  PROVE  \E v \in V : \A w \in V : w <= v
<1>1. \A w \in V : w \in Int /\ w <= n /\ w >= 0
  OBVIOUS
<1> DEFINE Above(v) == (v + 1)..n
           T == {Above(v) : v \in V}
<1>2. T \subseteq FiniteSubsetsOf(0..n) /\ T # {}
  <2>1. ASSUME NEW v \in V
        PROVE  Above(v) \subseteq 0..n /\ IsFiniteSet(Above(v))
    <3>1. v + 1 \in Int /\ n \in Int /\ v >= 0
      BY <1>1
    <3>. QED
      BY <3>1, FS_Interval
  <2>. QED
    BY <2>1 DEF FiniteSubsetsOf
<1>3. PICK U \in T : \A W \in T : <<W, U>> \notin StrictSubsetOrdering(0..n)
  <2> HIDE DEF T
  <2>. QED
    BY <1>2, FS_StrictSubsetOrderingWellFounded, WFMin
<1>4. PICK v \in V : U = Above(v)
  OBVIOUS
<1>5. ASSUME NEW w \in V, ~(w <= v) PROVE FALSE
  <2>1. Above(w) \subseteq Above(v) /\ w \in Above(v) /\ w \notin Above(w)
    BY <1>1, <1>5
  <2>2. <<Above(w), U>> \in StrictSubsetOrdering(0..n)
    BY <1>4, <2>1 DEF StrictSubsetOrdering
  <2>. QED
    BY <1>3, <2>2
<1>. QED
  BY <1>5

LEMMA TruncateFacts ==
  ASSUME NEW ms \in Seq(Messages), NEW t, NEW round, NEW seen, Pending(ms, t, round, seen)
  PROVE  /\ EmergencyTruncate(ms, salient) \in Seq(Messages)
         /\ Pending(EmergencyTruncate(ms, salient), t, round, seen)
<1> DEFINE n == Len(ms)
           enough == {r \in 2..n : /\ estimate_tokens(SubSeq(ms, r, n)) >= MinRecentTokens
                                   /\ n - r + 1 >= MinRecentTurns}
           recent == IF enough = {} THEN 2 ELSE CHOOSE r \in enough : \A q \in enough : q <= r
           S == {i \in DOMAIN ms : i = 1 \/ i >= recent \/ ms[i].kind \in salient}
<1>1. EmergencyTruncate(ms, salient) = At(ms, S)
  BY DEF EmergencyTruncate
<1>2. n \in Nat /\ DOMAIN ms = 1..n /\ n > 0 /\ MinRecentTurns \in Nat /\ MinRecentTurns >= 2
  BY LenProperties, EmptySeq, WindowAssumption DEF Pending
<1>3. EndsWell(ms) /\ ms[1].kind = "prompt" /\ ("call" \notin salient => CallsAnswered(ms))
  BY DEF Pending, Sound, Opened
<1> HIDE DEF n
<1>4. enough \in SUBSET (0..n) /\ \A r \in enough : r \in 2..n /\ n - r + 1 >= MinRecentTurns
  BY <1>2
<1> HIDE DEF enough
<1>5. recent \in Int /\ (recent = 2 \/ recent <= n - 1)
  <2>1. CASE enough = {}
    BY <2>1
  <2>2. CASE enough # {}
    <3>1. \E r \in enough : \A q \in enough : q <= r
      BY <1>2, <1>4, <2>2, LargestOf
    <3>2. recent \in enough
      BY <2>2, <3>1
    <3>3. recent \in 2..n /\ n - recent + 1 >= MinRecentTurns
      BY <1>4, <3>2
    <3> HIDE DEF recent
    <3>. QED
      BY <1>2, <3>3
  <2>. QED
    BY <2>1, <2>2
<1> HIDE DEF recent
<1>6. S \in SUBSET DOMAIN ms /\ 1 \in S /\ n \in S /\ (n > 1 => n - 1 \in S)
  <2>1. 1 \in S
    BY <1>2
  <2>2. n = 1 \/ n >= recent
    BY <1>2, <1>5
  <2>3. n > 1 => n - 1 = 1 \/ n - 1 >= recent
    BY <1>2, <1>5
  <2>. QED
    BY <1>2, <2>1, <2>2, <2>3
<1>7. ASSUME ms[n].kind = "return" PROVE n - 1 \in S
  <2>1. n > 1
    BY <1>3, <1>7 DEF EndsWell, n
  <2>. QED
    BY <1>6, <2>1
<1>8. ASSUME "call" \notin salient, NEW i \in S, ms[i].kind = "call" PROVE i + 1 \in S
  <2>1. i \in DOMAIN ms /\ i >= recent
    BY <1>3, <1>8
  <2>2. i < n
    BY <1>3, <1>8, <2>1 DEF CallsAnswered, n
  <2>3. i + 1 \in DOMAIN ms /\ i + 1 >= recent
    BY <1>2, <1>5, <2>1, <2>2
  <2>. QED
    BY <2>3
<1> HIDE DEF S
<1>. QED
  BY <1>1, <1>6, <1>7, <1>8, WindowKept DEF n

LEMMA CompactFacts ==
  ASSUME NEW ms \in Seq(Messages), NEW t, NEW round, NEW seen, Pending(ms, t, round, seen)
  PROVE  Compact(ms, salient) \in Seq(Messages) /\ Pending(Compact(ms, salient), t, round, seen)
<1>1. \/ Compact(ms, salient) = RepairOrphans(EmergencyTruncate(ms, salient))
      \/ Compact(ms, salient) = RepairOrphans(SummarizeOldTurns(ms))
      \/ Compact(ms, salient) = ms
  BY DEF Compact
<1>2. /\ EmergencyTruncate(ms, salient) \in Seq(Messages)
      /\ Pending(EmergencyTruncate(ms, salient), t, round, seen)
  BY TruncateFacts
<1>3. /\ SummarizeOldTurns(ms) \in Seq(Messages)
      /\ Pending(SummarizeOldTurns(ms), t, round, seen)
  BY SummarizeFacts
<1>4. /\ RepairOrphans(EmergencyTruncate(ms, salient)) \in Seq(Messages)
      /\ Pending(RepairOrphans(EmergencyTruncate(ms, salient)), t, round, seen)
  BY <1>2, RepairFacts
<1>5. /\ RepairOrphans(SummarizeOldTurns(ms)) \in Seq(Messages)
      /\ Pending(RepairOrphans(SummarizeOldTurns(ms)), t, round, seen)
  BY <1>3, RepairFacts
<1>. QED
  BY <1>1, <1>4, <1>5

(* What is sent, whichever processors the agent has: a window without      *)
(* orphans, of bounded length, with its first and newest message.          *)
LEMMA ProcessedFacts ==
  ASSUME NEW ms \in Seq(Messages), NEW t, NEW round, NEW seen, Pending(ms, t, round, seen)
  PROVE  LET w == Processed(ms, manager, salient)
         IN  /\ w \in Seq(Messages) /\ Pending(w, t, round, seen) /\ NoOrphans(w)
             /\ TruncatedHistory > 0 => Len(w) <= TruncatedHistory + 2
<1> DEFINE a == IF manager THEN Compact(ms, salient) ELSE ms
           b == BudgetToolResults(a)
           c == KeepRecent(b)
           w == RepairOrphans(c)
<1>1. a \in Seq(Messages) /\ Pending(a, t, round, seen)
  BY CompactFacts
<1> HIDE DEF a
<1>2. b \in Seq(Messages) /\ Pending(b, t, round, seen)
  BY <1>1, BudgetFacts
<1> HIDE DEF b
<1>3. /\ c \in Seq(Messages) /\ Pending(c, t, round, seen)
      /\ TruncatedHistory > 0 => Len(c) <= TruncatedHistory + 2
  BY <1>2, KeepRecentFacts
<1> HIDE DEF c
<1>4. w \in Seq(Messages) /\ Pending(w, t, round, seen) /\ NoOrphans(w) /\ Len(w) <= Len(c)
  BY <1>3, RepairFacts
<1>5. TruncatedHistory \in Nat /\ Len(c) \in Nat /\ Len(w) \in Nat
  BY <1>3, <1>4, LenProperties, WindowAssumption
<1>6. w = Processed(ms, manager, salient)
  BY DEF Processed, a, b, c
<1> HIDE DEF w
<1>7. TruncatedHistory > 0 => Len(w) <= TruncatedHistory + 2
  BY <1>3, <1>4, <1>5
<1>. QED
  BY <1>4, <1>6, <1>7

-----------------------------------------------------------------------------
(* What a turn adds to a conversation.                                     *)

LEMMA LimitFacts ==
  /\ {Hooks, MaxAttempts} \subseteq Nat \ {0} /\ {MaxRounds, MaxRefinements} \subseteq Nat
  /\ MaxTurns \in Nat /\ 0 \in Turns
BY LimitsAssumption DEF MaxTurns, Turns

LEMMA MessageFacts ==
  ASSUME NEW t \in Turns, NEW kind \in {"prompt", "call", "return", "reply", "summary"},
         NEW round \in 0..MaxRounds, NEW size \in 1..LongResult
  PROVE  /\ Message(t, kind, round, size) \in Messages
         /\ Message(t, kind, round, size).kind = kind /\ Message(t, kind, round, size).turn = t
         /\ Message(t, kind, round, size).round = round
BY DEF Message, Messages

(* One message at the end, which is no call, and a reply only of turn t. *)
LEMMA Extended ==
  ASSUME NEW ms \in Seq(Messages), NEW t, NEW seen, Sound(ms, seen), TurnIds(ms) \subseteq seen[t],
         NEW m \in Messages, m.turn = t, m.kind # "call", ms = <<>> => m.kind = "prompt"
  PROVE  Append(ms, m) \in Seq(Messages) /\ Sound(Append(ms, m), seen)
<1> DEFINE n == Len(ms)
           new == Append(ms, m)
<1>1. n \in Nat /\ DOMAIN ms = 1..n
  BY LenProperties
<1>2. new \in Seq(Messages) /\ Len(new) = n + 1 /\ (\A i \in 1..n : new[i] = ms[i]) /\ new[n + 1] = m
  BY AppendProperties
<1>3. DOMAIN new = 1..(n + 1)
  BY <1>2, LenProperties
<1>4. /\ ms = <<>> \/ ms[1].kind = "prompt"
      /\ InOrder(ms, seen) /\ ("call" \notin salient => CallsAnswered(ms))
  BY DEF Sound, Opened
<1>5. n = 0 <=> ms = <<>>
  BY <1>1, EmptySeq
<1> HIDE DEF n, new
<1>6. Opened(new)
  <2>1. n = 0 => new[1] = m
    BY <1>2
  <2>2. n # 0 => new[1] = ms[1]
    BY <1>1, <1>2
  <2>. QED
    BY <1>4, <1>5, <2>1, <2>2 DEF Opened
<1>7. InOrder(new, seen)
  <2> SUFFICES ASSUME NEW i \in 1..(n + 1), NEW j \in 1..(i - 1),
                      new[i].kind = "reply", new[j].kind = "reply"
               PROVE  new[j].turn \in seen[new[i].turn]
    BY <1>3 DEF InOrder
  <2>1. j \in 1..n /\ new[j] = ms[j]
    BY <1>1, <1>2
  <2>2. CASE i \in 1..n
    <3>1. new[i] = ms[i]
      BY <1>2, <2>2
    <3>. QED
      BY <1>1, <1>4, <2>1, <2>2, <3>1 DEF InOrder
  <2>3. CASE i = n + 1
    <3>1. new[j].turn \in TurnIds(ms)
      BY <1>1, <2>1 DEF TurnIds
    <3>. QED
      BY <1>2, <2>3, <3>1
  <2>. QED
    BY <1>1, <2>2, <2>3
<1>8. ASSUME "call" \notin salient PROVE CallsAnswered(new)
  <2> SUFFICES ASSUME NEW i \in 1..(n + 1), new[i].kind = "call"
               PROVE  i < n + 1 /\ Answers(new[i + 1], new[i])
    BY <1>2, <1>3 DEF CallsAnswered
  <2>1. i \in 1..n /\ new[i] = ms[i]
    BY <1>1, <1>2
  <2>2. i < n /\ Answers(ms[i + 1], ms[i])
    BY <1>1, <1>4, <1>8, <2>1 DEF CallsAnswered, n
  <2>3. i + 1 \in 1..n
    BY <1>1, <2>1, <2>2
  <2>. QED
    BY <1>1, <1>2, <2>1, <2>2, <2>3
<1>. QED
  BY <1>2, <1>6, <1>7, <1>8 DEF Sound, new

(* The prompt of a turn opens its first window. *)
LEMMA Prompted ==
  ASSUME NEW ms \in Seq(Messages), NEW t \in Turns, NEW seen, Sound(ms, seen),
         TurnIds(ms) \subseteq seen[t]
  PROVE  LET w == Append(ms, Message(t, "prompt", 0, 1))
         IN  w \in Seq(Messages) /\ Pending(w, t, 0, seen)
<1> DEFINE m == Message(t, "prompt", 0, 1)
           w == Append(ms, m)
           n == Len(ms)
<1>1. m \in Messages /\ m.kind = "prompt" /\ m.turn = t /\ m.round = 0
  BY LimitFacts, SizeAssumption, MessageFacts
<1> HIDE DEF m
<1>2. w \in Seq(Messages) /\ Sound(w, seen)
  BY <1>1, Extended
<1>3. n \in Nat /\ DOMAIN ms = 1..n /\ Len(w) = n + 1 /\ w[n + 1] = m /\ (\A i \in 1..n : w[i] = ms[i])
  BY <1>1, AppendProperties, LenProperties
<1>4. DOMAIN w = 1..(n + 1)
  BY <1>2, <1>3, LenProperties
<1> HIDE DEF w, n
<1>5. w # <<>>
  BY <1>2, <1>3, EmptySeq
<1>6. EndsWell(w)
  BY <1>1, <1>3 DEF EndsWell
<1>7. TurnIds(w) \subseteq seen[t]
  <2> SUFFICES ASSUME NEW i \in 1..(n + 1), w[i].kind = "reply" PROVE w[i].turn \in seen[t]
    BY <1>4 DEF TurnIds
  <2>1. i \in 1..n /\ w[i] = ms[i]
    BY <1>1, <1>3
  <2>2. w[i].turn \in TurnIds(ms)
    BY <1>3, <2>1 DEF TurnIds
  <2>. QED
    BY <2>2
<1>8. Pending(w, t, 0, seen)
  BY <1>1, <1>2, <1>3, <1>5, <1>6, <1>7 DEF Pending
<1>. QED
  BY <1>2, <1>8 DEF w, m

(* A call and its result end the window of the next request. *)
LEMMA Called ==
  ASSUME NEW ms \in Seq(Messages), NEW t \in Turns, NEW round \in 0..MaxRounds, round < MaxRounds,
         NEW seen, Pending(ms, t, round, seen), NEW size \in 1..LongResult
  PROVE  LET w == ms \o <<Message(t, "call", round + 1, 1), Message(t, "return", round + 1, size)>>
         IN  w \in Seq(Messages) /\ Pending(w, t, round + 1, seen)
<1> DEFINE c == Message(t, "call", round + 1, 1)
           r == Message(t, "return", round + 1, size)
           n == Len(ms)
           w == ms \o <<c, r>>
<1>1. n \in Nat /\ DOMAIN ms = 1..n /\ n > 0
  BY LenProperties, EmptySeq DEF Pending
<1>2. /\ ms[1].kind = "prompt" /\ InOrder(ms, seen) /\ TurnIds(ms) \subseteq seen[t]
      /\ "call" \notin salient => CallsAnswered(ms)
  BY DEF Pending, Sound, Opened
<1>3. /\ c \in Messages /\ c.kind = "call" /\ c.turn = t /\ c.round = round + 1
      /\ r \in Messages /\ r.kind = "return" /\ r.turn = t /\ r.round = round + 1
  <2>1. round + 1 \in 0..MaxRounds /\ 1 \in 1..LongResult
    BY LimitFacts, SizeAssumption
  <2>. QED
    BY <2>1, MessageFacts
<1> HIDE DEF c, r
<1>4. <<c, r>> \in Seq(Messages) /\ Len(<<c, r>>) = 2
  BY <1>3
<1>5. /\ w \in Seq(Messages) /\ Len(w) = n + 2
      /\ \A i \in 1..(n + 2) : w[i] = IF i <= n THEN ms[i] ELSE <<c, r>>[i - n]
  BY <1>4, ConcatProperties
<1>6. (\A i \in 1..n : w[i] = ms[i]) /\ w[n + 1] = c /\ w[n + 2] = r /\ DOMAIN w = 1..(n + 2)
  <2>1. \A i \in 1..n : w[i] = ms[i]
    BY <1>1, <1>5
  <2>2. w[n + 1] = <<c, r>>[1] /\ w[n + 2] = <<c, r>>[2]
    <3>1. n + 1 \in 1..(n + 2) /\ ~(n + 1 <= n) /\ (n + 1) - n = 1
      BY <1>1
    <3>2. n + 2 \in 1..(n + 2) /\ ~(n + 2 <= n) /\ (n + 2) - n = 2
      BY <1>1
    <3>. QED
      BY <1>5, <3>1, <3>2
  <2>3. DOMAIN w = 1..(n + 2)
    BY <1>5, LenProperties
  <2>. QED
    BY <2>1, <2>2, <2>3
<1> HIDE DEF w, n
<1>7. w # <<>> /\ w[1].kind = "prompt"
  BY <1>1, <1>2, <1>5, <1>6, EmptySeq
<1>8. Answers(r, c)
  BY <1>3 DEF Answers
<1>9. ASSUME NEW i \in 1..(n + 2) PROVE i \in 1..n \/ i = n + 1 \/ i = n + 2
  BY <1>1
<1>10. EndsWell(w)
  <2>1. (n + 2) - 1 = n + 1 /\ n + 2 > 1
    BY <1>1
  <2>. QED
    BY <1>5, <1>6, <1>8, <2>1 DEF EndsWell
<1>11. InOrder(w, seen)
  <2> SUFFICES ASSUME NEW i \in 1..(n + 2), NEW j \in 1..(i - 1),
                      w[i].kind = "reply", w[j].kind = "reply"
               PROVE  w[j].turn \in seen[w[i].turn]
    BY <1>6 DEF InOrder
  <2>1. i \in 1..n /\ w[i] = ms[i]
    BY <1>3, <1>6, <1>9
  <2>2. j \in 1..n /\ w[j] = ms[j]
    BY <1>1, <1>6, <2>1
  <2>. QED
    BY <1>1, <1>2, <2>1, <2>2 DEF InOrder
<1>12. TurnIds(w) \subseteq seen[t]
  <2> SUFFICES ASSUME NEW i \in 1..(n + 2), w[i].kind = "reply" PROVE w[i].turn \in seen[t]
    BY <1>6 DEF TurnIds
  <2>1. i \in 1..n /\ w[i] = ms[i]
    BY <1>3, <1>6, <1>9
  <2>2. w[i].turn \in TurnIds(ms)
    BY <1>1, <2>1 DEF TurnIds
  <2>. QED
    BY <1>2, <2>2
<1>13. ASSUME "call" \notin salient PROVE CallsAnswered(w)
  <2> SUFFICES ASSUME NEW i \in 1..(n + 2), w[i].kind = "call"
               PROVE  i < n + 2 /\ Answers(w[i + 1], w[i])
    BY <1>5, <1>6 DEF CallsAnswered
  <2>1. CASE i \in 1..n
    <3>1. w[i] = ms[i] /\ i < n /\ Answers(ms[i + 1], ms[i])
      BY <1>1, <1>2, <1>6, <1>13, <2>1 DEF CallsAnswered, n
    <3>2. i + 1 \in 1..n
      BY <1>1, <2>1, <3>1
    <3>. QED
      BY <1>1, <1>6, <3>1, <3>2
  <2>2. CASE i = n + 1
    <3>1. i + 1 = n + 2 /\ i < n + 2
      BY <1>1, <2>2
    <3>. QED
      BY <1>6, <1>8, <2>2, <3>1
  <2>3. i # n + 2
    BY <1>3, <1>6
  <2>. QED
    BY <1>9, <2>1, <2>2, <2>3
<1>14. Pending(w, t, round + 1, seen)
  BY <1>3, <1>5, <1>6, <1>7, <1>10, <1>11, <1>12, <1>13 DEF Pending, Sound, Opened
<1>. QED
  BY <1>5, <1>14 DEF w, c, r

(* A reply ends the turn's part of the conversation. *)
LEMMA Replied ==
  ASSUME NEW ms \in Seq(Messages), NEW t \in Turns, NEW round, NEW seen, Pending(ms, t, round, seen)
  PROVE  LET w == ms \o <<Message(t, "reply", 0, 1)>>
         IN  w \in Seq(Messages) /\ Sound(w, seen)
<1> DEFINE m == Message(t, "reply", 0, 1)
<1>1. m \in Messages /\ m.kind = "reply" /\ m.turn = t
  BY LimitFacts, SizeAssumption, MessageFacts
<1> HIDE DEF m
<1>2. Append(ms, m) \in Seq(Messages) /\ Sound(Append(ms, m), seen)
  BY <1>1, Extended DEF Pending
<1>3. Append(ms, m) = ms \o <<m>>
  BY <1>1, AppendIsConcat
<1>. QED
  BY <1>2, <1>3 DEF m

(* More that was shown leaves every window what it is. *)
LEMMA Grown ==
  ASSUME NEW seen \in [Turns -> SUBSET Turns], NEW more \in [Turns -> SUBSET Turns],
         \A t \in Turns : seen[t] \subseteq more[t]
  PROVE  /\ \A ms \in Seq(Messages) : Sound(ms, seen) => Sound(ms, more)
         /\ \A u \in TurnStates : SlotInv(u, seen) => SlotInv(u, more)
<1>1. ASSUME NEW ms \in Seq(Messages), Sound(ms, seen) PROVE Sound(ms, more)
  <2>1. InOrder(ms, seen) /\ Opened(ms) /\ ("call" \notin salient => CallsAnswered(ms))
    BY <1>1 DEF Sound
  <2>2. Len(ms) \in Nat /\ DOMAIN ms = 1..Len(ms)
    BY LenProperties
  <2>3. InOrder(ms, more)
    <3> SUFFICES ASSUME NEW i \in DOMAIN ms, NEW j \in 1..(i - 1),
                        ms[i].kind = "reply", ms[j].kind = "reply"
                 PROVE  ms[j].turn \in more[ms[i].turn]
      BY DEF InOrder
    <3>1. ms[i] \in Messages
      BY <2>2, ElementOfSeq
    <3>2. ms[i].turn \in Turns
      BY <3>1 DEF Messages
    <3>3. ms[j].turn \in seen[ms[i].turn]
      BY <2>1 DEF InOrder
    <3>. QED
      BY <3>2, <3>3
  <2>. QED
    BY <2>1, <2>3 DEF Sound
<1>2. ASSUME NEW u \in TurnStates, SlotInv(u, seen) PROVE SlotInv(u, more)
  <2>1. u.window \in Seq(Messages) /\ u.id \in Turns
    BY DEF TurnStates
  <2>2. seen[u.id] \subseteq more[u.id]
    BY <2>1
  <2>3. Pending(u.window, u.id, u.round, seen) => Pending(u.window, u.id, u.round, more)
    BY <1>1, <2>1, <2>2 DEF Pending
  <2>. QED
    BY <1>1, <1>2, <2>1, <2>3 DEF SlotInv
<1>. QED
  BY <1>1, <1>2

-----------------------------------------------------------------------------
(* The steps of a conversation.                                            *)

(* Every step of a tool or of another user does one of these to it. *)
ConversationStep ==
    \/ \E s \in Slots : StartTurn(s) \/ TurnStep(s)
    \/ Abandon
    \/ \E S \in SUBSET Slots : EmptySlots(S)
    \/ UNCHANGED conversation

(* The invariant of the next state, of which only the conversation changes. *)
LEMMA NextConversation ==
  ASSUME salient' = salient,
         messages' \in Seq(Messages), turn' \in [Slots -> TurnStates],
         shown' \in [Turns -> SUBSET Turns], shown'[0] # {},
         Sound(messages', shown'), \A s \in Slots : SlotInv(turn'[s], shown')
  PROVE  ConversationInv'
<1>1. Sound(messages, shown)'
  BY DEF Sound
<1>2. ASSUME NEW s \in Slots PROVE SlotInv(turn[s], shown)'
  <2>1. SlotInv(turn'[s], shown')
    OBVIOUS
  <2>. QED
    BY <2>1 DEF SlotInv, Pending, Sound
<1>. QED
  BY <1>1, <1>2 DEF ConversationInv

(* A step of one slot that leaves the history and what was shown. *)
LEMMA SlotChanged ==
  ASSUME ConversationInv, salient' = salient, UNCHANGED shown,
         NEW s \in Slots, NEW u \in TurnStates, SlotInv(u, shown),
         turn' = [turn EXCEPT ![s] = u],
         messages' = messages \/ (messages' \in Seq(Messages) /\ Sound(messages', shown))
  PROVE  ConversationInv'
<1>1. /\ messages' \in Seq(Messages) /\ turn' \in [Slots -> TurnStates]
      /\ shown' \in [Turns -> SUBSET Turns] /\ shown'[0] # {}
  BY DEF ConversationInv
<1>2. Sound(messages', shown')
  BY DEF ConversationInv
<1>3. ASSUME NEW q \in Slots PROVE SlotInv(turn'[q], shown')
  <2>1. turn'[q] = IF q = s THEN u ELSE turn[q]
    BY DEF ConversationInv
  <2>2. SlotInv(turn[q], shown)
    BY DEF ConversationInv
  <2>. QED
    BY <2>1, <2>2
<1>. QED
  BY <1>1, <1>2, <1>3, NextConversation

LEMMA TurnIdsTyped ==
  ASSUME NEW ms \in Seq(Messages)
  PROVE  TurnIds(ms) \subseteq Turns
<1> SUFFICES ASSUME NEW i \in DOMAIN ms PROVE ms[i].turn \in Turns
  BY DEF TurnIds
<1>1. ms[i] \in Messages
  BY LenProperties, ElementOfSeq
<1>. QED
  BY <1>1 DEF Messages

LEMMA StartTurnStep ==
  ASSUME ConversationInv, salient' = salient, NEW s \in Slots, StartTurn(s)
  PROVE  ConversationInv'
<1> DEFINE t == NextTurn
           w == Append(messages, Message(t, "prompt", 0, 1))
           ids == TurnIds(messages)
           u == [pc |-> "request", id |-> t, round |-> 0, window |-> w]
<1>1. t \in Turns /\ t \notin Used
  <2>1. \E x \in Turns : x \notin Used
    BY DEF StartTurn, Used
  <2>. QED
    BY <2>1 DEF NextTurn
<1>2. /\ shown' = [shown EXCEPT ![t] = ids \cup {t}]
      /\ turn' = [turn EXCEPT ![s] = u]
      /\ messages' = messages
  BY DEF StartTurn
<1>3. shown[t] = {}
  BY <1>1 DEF Used
<1> HIDE DEF t, w, ids
<1>4. /\ messages \in Seq(Messages) /\ turn \in [Slots -> TurnStates]
      /\ shown \in [Turns -> SUBSET Turns] /\ shown[0] # {} /\ Sound(messages, shown)
      /\ \A q \in Slots : SlotInv(turn[q], shown)
  BY DEF ConversationInv
<1>5. t # 0
  BY <1>3, <1>4
<1>6. ids \subseteq Turns
  BY <1>4, TurnIdsTyped DEF ids
<1>7. /\ shown' \in [Turns -> SUBSET Turns] /\ shown'[0] # {}
      /\ shown'[t] = ids \cup {t}
      /\ \A x \in Turns : shown[x] \subseteq shown'[x]
  BY <1>1, <1>2, <1>3, <1>4, <1>5, <1>6, LimitFacts
<1>8. PICK more : more = shown'
  OBVIOUS
<1>9. /\ \A ms \in Seq(Messages) : Sound(ms, shown) => Sound(ms, more)
      /\ \A v \in TurnStates : SlotInv(v, shown) => SlotInv(v, more)
  <2>1. more \in [Turns -> SUBSET Turns] /\ \A x \in Turns : shown[x] \subseteq more[x]
    BY <1>7, <1>8
  <2>. QED
    BY <1>4, <2>1, Grown
<1>10. w \in Seq(Messages) /\ Pending(w, t, 0, more)
  <2>1. Sound(messages, more) /\ ids \subseteq more[t]
    BY <1>4, <1>7, <1>8, <1>9
  <2>. QED
    BY <1>1, <1>4, <2>1, Prompted DEF w, ids
<1>11. u \in TurnStates
  BY <1>1, <1>10, LimitFacts DEF TurnStates
<1>12. SlotInv(u, more)
  BY <1>5, <1>10 DEF SlotInv
<1>13. ASSUME NEW q \in Slots PROVE SlotInv(turn'[q], shown')
  <2>1. turn'[q] = IF q = s THEN u ELSE turn[q]
    BY <1>2, <1>4
  <2>2. SlotInv(turn[q], more)
    BY <1>4, <1>9
  <2>. QED
    BY <1>8, <1>12, <2>1, <2>2
<1>14. turn' \in [Slots -> TurnStates]
  BY <1>2, <1>4, <1>11
<1>15. Sound(messages', shown') /\ messages' \in Seq(Messages)
  BY <1>2, <1>4, <1>8, <1>9
<1>. QED
  BY <1>7, <1>13, <1>14, <1>15, NextConversation

LEMMA RequestStep ==
  ASSUME ConversationInv, salient' = salient, NEW s \in Slots, Request(s)
  PROVE  ConversationInv'
<1> DEFINE old == turn[s]
           w == Processed(old.window, manager, salient)
           u == [old EXCEPT !.pc = "sent", !.window = w]
<1>1. old.pc = "request" /\ UNCHANGED <<messages, shown>>
  BY DEF Request
<1>2. turn \in [Slots -> TurnStates] /\ old \in TurnStates /\ SlotInv(old, shown)
  BY DEF ConversationInv
<1>3. turn' = [turn EXCEPT ![s] = u]
  BY <1>2 DEF Request
<1> HIDE DEF old, w
<1>4. Pending(old.window, old.id, old.round, shown) /\ old.id # 0
  BY <1>1, <1>2 DEF SlotInv
<1>5. old.window \in Seq(Messages)
  BY <1>2 DEF TurnStates
<1>6. /\ w \in Seq(Messages) /\ Pending(w, old.id, old.round, shown) /\ NoOrphans(w)
      /\ TruncatedHistory > 0 => Len(w) <= TruncatedHistory + 2
  BY <1>4, <1>5, ProcessedFacts DEF w
<1>7. /\ u \in TurnStates
      /\ u.pc = "sent" /\ u.window = w /\ u.id = old.id /\ u.round = old.round
  BY <1>2, <1>6 DEF TurnStates
<1> HIDE DEF u
<1>8. SlotInv(u, shown)
  BY <1>4, <1>6, <1>7 DEF SlotInv
<1>. QED
  BY <1>1, <1>3, <1>7, <1>8, SlotChanged

LEMMA AnswerStep ==
  ASSUME ConversationInv, salient' = salient, NEW s \in Slots, Answer(s)
  PROVE  ConversationInv'
<1> DEFINE old == turn[s]
           call(size) == <<Message(old.id, "call", old.round + 1, 1),
                           Message(old.id, "return", old.round + 1, size)>>
           reply == <<Message(old.id, "reply", 0, 1)>>
<1>1. turn \in [Slots -> TurnStates] /\ old \in TurnStates /\ SlotInv(old, shown)
  BY DEF ConversationInv
<1>2. /\ old.pc = "sent" /\ UNCHANGED <<messages, shown>>
      /\ \/ \E size \in {1, LongResult} :
               /\ old.round < MaxRounds
               /\ turn' = [turn EXCEPT ![s].pc = "request", ![s].round = old.round + 1,
                                       ![s].window = old.window \o call(size)]
         \/ turn' = [turn EXCEPT ![s].pc = "answered", ![s].window = old.window \o reply]
         \/ turn' = [turn EXCEPT ![s].pc = "failed", ![s].window = <<>>]
  BY DEF Answer
<1> HIDE DEF old, call, reply
<1>3. Pending(old.window, old.id, old.round, shown) /\ old.id # 0
  BY <1>1, <1>2 DEF SlotInv
<1>4. old.window \in Seq(Messages) /\ old.id \in Turns /\ old.round \in 0..MaxRounds
  BY <1>1 DEF TurnStates
<1>5. ASSUME NEW size \in {1, LongResult}, old.round < MaxRounds,
             turn' = [turn EXCEPT ![s].pc = "request", ![s].round = old.round + 1,
                                  ![s].window = old.window \o call(size)]
      PROVE  ConversationInv'
  <2> DEFINE w == old.window \o call(size)
             u == [old EXCEPT !.pc = "request", !.round = old.round + 1, !.window = w]
  <2>1. w \in Seq(Messages) /\ Pending(w, old.id, old.round + 1, shown)
    <3>1. size \in 1..LongResult
      BY SizeAssumption
    <3>. QED
      BY <1>3, <1>4, <1>5, <3>1, Called DEF call
  <2>2. old.round + 1 \in 0..MaxRounds
    BY <1>4, <1>5, LimitFacts
  <2>3. turn' = [turn EXCEPT ![s] = u]
    BY <1>1, <1>5 DEF old
  <2> HIDE DEF w
  <2>4. /\ u \in TurnStates
        /\ u.pc = "request" /\ u.window = w /\ u.id = old.id /\ u.round = old.round + 1
    BY <1>1, <2>1, <2>2 DEF TurnStates
  <2> HIDE DEF u
  <2>5. SlotInv(u, shown)
    BY <1>3, <2>1, <2>4 DEF SlotInv
  <2>. QED
    BY <1>2, <2>3, <2>4, <2>5, SlotChanged
<1>6. ASSUME turn' = [turn EXCEPT ![s].pc = "answered", ![s].window = old.window \o reply]
      PROVE  ConversationInv'
  <2> DEFINE w == old.window \o reply
             u == [old EXCEPT !.pc = "answered", !.window = w]
  <2>1. w \in Seq(Messages) /\ Sound(w, shown)
    BY <1>3, <1>4, Replied DEF reply
  <2>2. turn' = [turn EXCEPT ![s] = u]
    BY <1>1, <1>6 DEF old
  <2> HIDE DEF w
  <2>3. u \in TurnStates /\ u.pc = "answered" /\ u.window = w /\ u.id = old.id
    BY <1>1, <2>1 DEF TurnStates
  <2> HIDE DEF u
  <2>4. SlotInv(u, shown)
    BY <1>3, <2>1, <2>3 DEF SlotInv
  <2>. QED
    BY <1>2, <2>2, <2>3, <2>4, SlotChanged
<1>7. ASSUME turn' = [turn EXCEPT ![s].pc = "failed", ![s].window = <<>>]
      PROVE  ConversationInv'
  <2> DEFINE u == [old EXCEPT !.pc = "failed", !.window = <<>>]
  <2>1. turn' = [turn EXCEPT ![s] = u]
    BY <1>1, <1>7 DEF old
  <2>2. <<>> \in Seq(Messages)
    OBVIOUS
  <2>3. u \in TurnStates /\ u.pc = "failed" /\ u.id = old.id
    BY <1>1, <2>2 DEF TurnStates
  <2> HIDE DEF u
  <2>4. SlotInv(u, shown)
    BY <1>3, <2>3 DEF SlotInv
  <2>. QED
    BY <1>2, <2>1, <2>3, <2>4, SlotChanged
<1>. QED
  BY <1>2, <1>5, <1>6, <1>7

(* A turn that ends, with or without its messages in the history. *)
LEMMA EndStep ==
  ASSUME ConversationInv, salient' = salient, NEW s \in Slots, Finish(s) \/ (Abandon /\ s = "other")
  PROVE  ConversationInv'
<1> DEFINE old == turn[s]
           u(pc) == [old EXCEPT !.pc = pc, !.window = <<>>]
<1>1. turn \in [Slots -> TurnStates] /\ old \in TurnStates /\ SlotInv(old, shown)
  BY DEF ConversationInv
<1>2. ASSUME NEW pc \in {"done", "failed"}
      PROVE  u(pc) \in TurnStates /\ u(pc).pc = pc /\ u(pc).id = old.id
  <2>1. <<>> \in Seq(Messages)
    OBVIOUS
  <2> HIDE DEF old
  <2>. QED
    BY <1>1, <2>1 DEF TurnStates
<1>3. old.pc # "idle"
  BY DEF Finish, Abandon
<1>4. ASSUME NEW pc \in {"done", "failed"} PROVE SlotInv(u(pc), shown)
  <2> DEFINE v == u(pc)
  <2>1. v.pc = pc /\ v.id = old.id /\ old.id # 0
    BY <1>1, <1>2, <1>3 DEF SlotInv
  <2> HIDE DEF v
  <2>2. SlotInv(v, shown)
    BY <2>1 DEF SlotInv
  <2>. QED
    BY <2>2 DEF v
<1>5. CASE Finish(s)
  <2>1. /\ turn' = [turn EXCEPT ![s] = u("done")] /\ messages' = old.window /\ UNCHANGED shown
        /\ old.pc = "answered"
    BY <1>1, <1>5 DEF Finish
  <2>2. old.window \in Seq(Messages) /\ Sound(old.window, shown)
    BY <1>1, <2>1 DEF SlotInv, TurnStates
  <2> HIDE DEF old, u
  <2>. QED
    BY <1>2, <1>4, <2>1, <2>2, SlotChanged
<1>6. CASE Abandon /\ s = "other"
  <2>1. turn' = [turn EXCEPT ![s] = u("failed")] /\ UNCHANGED <<messages, shown>>
    BY <1>1, <1>6 DEF Abandon
  <2> HIDE DEF old, u
  <2>. QED
    BY <1>2, <1>4, <2>1, SlotChanged
<1>. QED
  BY <1>5, <1>6

LEMMA EmptyStep ==
  ASSUME ConversationInv, salient' = salient, NEW S \in SUBSET Slots, EmptySlots(S)
  PROVE  ConversationInv'
<1>1. /\ messages \in Seq(Messages) /\ turn \in [Slots -> TurnStates]
      /\ shown \in [Turns -> SUBSET Turns] /\ shown[0] # {} /\ Sound(messages, shown)
      /\ \A q \in Slots : SlotInv(turn[q], shown)
  BY DEF ConversationInv
<1>2. turn' = [s \in Slots |-> IF s \in S THEN Idle ELSE turn[s]] /\ UNCHANGED <<messages, shown>>
  BY DEF EmptySlots
<1>3. Idle \in TurnStates /\ SlotInv(Idle, shown)
  <2>1. <<>> \in Seq(Messages)
    OBVIOUS
  <2>2. Idle \in TurnStates
    BY <2>1, LimitFacts DEF Idle, TurnStates
  <2>. QED
    BY <2>2 DEF Idle, SlotInv
<1>4. ASSUME NEW q \in Slots PROVE turn'[q] \in TurnStates /\ SlotInv(turn'[q], shown')
  BY <1>1, <1>2, <1>3
<1>5. turn' \in [Slots -> TurnStates]
  BY <1>1, <1>2, <1>3
<1>. QED
  BY <1>1, <1>2, <1>4, <1>5, NextConversation

LEMMA ConversationKept ==
  ASSUME ConversationInv, salient' = salient, ConversationStep
  PROVE  ConversationInv'
<1>1. ASSUME NEW s \in Slots, StartTurn(s) PROVE ConversationInv'
  BY <1>1, StartTurnStep
<1>2. ASSUME NEW s \in Slots, TurnStep(s) PROVE ConversationInv'
  BY <1>2, RequestStep, AnswerStep, EndStep DEF TurnStep
<1>3. ASSUME Abandon PROVE ConversationInv'
  <2>1. "other" \in Slots
    BY DEF Slots
  <2>. QED
    BY <1>3, <2>1, EndStep
<1>4. ASSUME NEW S \in SUBSET Slots, EmptySlots(S) PROVE ConversationInv'
  BY <1>4, EmptyStep
<1>5. ASSUME UNCHANGED conversation PROVE ConversationInv'
  <2>1. UNCHANGED messages /\ UNCHANGED turn /\ UNCHANGED shown
    BY <1>5 DEF conversation
  <2>2. /\ messages \in Seq(Messages) /\ turn \in [Slots -> TurnStates]
        /\ shown \in [Turns -> SUBSET Turns] /\ shown[0] # {} /\ Sound(messages, shown)
        /\ \A q \in Slots : SlotInv(turn[q], shown)
    BY DEF ConversationInv
  <2>. QED
    BY <2>1, <2>2, NextConversation
<1>. QED
  BY <1>1, <1>2, <1>3, <1>4, <1>5 DEF ConversationStep

-----------------------------------------------------------------------------
(* The steps of the sub-agent tool.                                        *)

LEMMA RaiseStep ==
  ASSUME ResultInv, protocol' = protocol, UNCHANGED committed, Raise,
         sub.pc \notin {"returned", "raised"}
  PROVE  ResultInv'
<1>1. CASE sub.result = 0
  <2>1. /\ sub' \in SubAgentResult /\ sub'.pc = "raised"
        /\ sub'.result = sub.result /\ sub'.pending = sub.pending /\ sub'.iterations = sub.iterations
        /\ sub'.refined = sub.refined /\ sub'.exit = sub.exit /\ sub'.confidence = sub.confidence
        /\ sub'.accepted = sub.accepted /\ sub'.torn = sub.torn
    BY <1>1 DEF Raise, ResultInv, SubAgentResult
  <2>. QED
    BY <2>1 DEF ResultInv, SubInv, ResultIsCommitted
<1>2. CASE sub.result # 0
  <2>1. /\ sub' \in SubAgentResult /\ sub'.pc = "returned" /\ sub'.exit = "refinement_failed_keep_original"
        /\ sub'.result = sub.result /\ sub'.pending = sub.pending /\ sub'.iterations = sub.iterations
        /\ sub'.refined = sub.refined /\ sub'.confidence = sub.confidence
        /\ sub'.accepted = sub.accepted /\ sub'.torn = sub.torn
    BY <1>2 DEF Raise, ResultInv, SubAgentResult
  <2>. QED
    BY <2>1 DEF ResultInv, SubInv, ResultIsCommitted
<1>. QED
  BY <1>1, <1>2

LEMMA RanStep ==
  ASSUME ResultInv, protocol' = protocol, ConversationInv, SubAgentRan
  PROVE  ResultInv'
<1>1. sub.pc = "agent" /\ Ended("main") /\ UNCHANGED committed
  BY DEF SubAgentRan
<1>2. CASE turn["main"].pc = "failed"
  <2>1. Raise
    BY <1>2 DEF SubAgentRan
  <2>. QED
    BY <1>1, <2>1, RaiseStep
<1>3. CASE turn["main"].pc # "failed"
  <2> DEFINE id == turn["main"].id
             next == IF protocol = "plain" THEN "execute" ELSE "enrich"
  <2>1. sub' = [sub EXCEPT !.pc = next, !.pending = id]
    BY <1>3 DEF SubAgentRan
  <2>2. id \in Turns /\ id # 0
    <3>1. turn["main"] \in TurnStates /\ SlotInv(turn["main"], shown)
      BY DEF ConversationInv, Slots
    <3>2. turn["main"].pc # "idle"
      BY <1>1 DEF Ended
    <3>. QED
      BY <3>1, <3>2 DEF SlotInv, TurnStates
  <2> HIDE DEF id
  <2>3. /\ sub' \in SubAgentResult /\ sub'.pc = next /\ sub'.pending = id
        /\ sub'.result = sub.result /\ sub'.iterations = sub.iterations
        /\ sub'.refined = sub.refined /\ sub'.exit = sub.exit /\ sub'.confidence = sub.confidence
        /\ sub'.accepted = sub.accepted /\ sub'.torn = sub.torn
    BY <2>1, <2>2 DEF ResultInv, SubAgentResult
  <2>. QED
    BY <1>1, <2>2, <2>3 DEF ResultInv, SubInv, ResultIsCommitted
<1>. QED
  BY <1>2, <1>3

LEMMA EnrichedStep ==
  ASSUME ResultInv, protocol' = protocol, Enriched
  PROVE  ResultInv'
<1>1. /\ sub.pc = "enrich" /\ UNCHANGED committed
      /\ \E c \in {0, sub.pending} : sub' = [sub EXCEPT !.pc = "execute", !.confidence = c]
  BY DEF Enriched, EnsembleConfidence, StructuredConfidence, RatedConfidence
<1>2. PICK c \in {0, sub.pending} : sub' = [sub EXCEPT !.pc = "execute", !.confidence = c]
  BY <1>1
<1>3. sub \in SubAgentResult /\ c \in Turns
  BY LimitFacts DEF ResultInv, SubAgentResult
<1>4. /\ sub' \in SubAgentResult /\ sub'.pc = "execute" /\ sub'.pending = sub.pending
      /\ sub'.result = sub.result /\ sub'.iterations = sub.iterations
      /\ sub'.refined = sub.refined /\ sub'.exit = sub.exit /\ sub'.confidence = c
      /\ sub'.accepted = sub.accepted /\ sub'.torn = sub.torn
  BY <1>2, <1>3 DEF SubAgentResult
<1>5. protocol # "plain"
  BY <1>1 DEF ResultInv, SubInv
<1>. QED
  BY <1>1, <1>2, <1>4, <1>5 DEF ResultInv, SubInv, ResultIsCommitted

LEMMA ExecuteStep ==
  ASSUME ResultInv, protocol' = protocol, Execute
  PROVE  ResultInv'
<1>1. sub.pc = "execute" /\ UNCHANGED committed
  BY DEF Execute
<1>2. CASE Raise
  BY <1>1, <1>2, RaiseStep
<1>3. CASE sub' = [sub EXCEPT !.pc = "update"]
  <2>1. /\ sub' \in SubAgentResult /\ sub'.pc = "update" /\ sub'.pending = sub.pending
        /\ sub'.result = sub.result /\ sub'.iterations = sub.iterations
        /\ sub'.refined = sub.refined /\ sub'.exit = sub.exit /\ sub'.confidence = sub.confidence
        /\ sub'.accepted = sub.accepted /\ sub'.torn = sub.torn
    BY <1>3 DEF ResultInv, SubAgentResult
  <2>. QED
    BY <1>1, <2>1 DEF ResultInv, SubInv, ResultIsCommitted
<1>. QED
  BY <1>2, <1>3 DEF Execute

LEMMA UpdateStep ==
  ASSUME ResultInv, protocol' = protocol, StateUpdate
  PROVE  ResultInv'
<1>1. sub.pc = "update" /\ sub \in SubAgentResult
  BY DEF StateUpdate, ResultInv
<1>2. CASE sub' = Accept /\ committed' = sub.pending
  <2> DEFINE again == sub.result # 0
             count == IF sub.result = 0 THEN 1 ELSE sub.iterations + 1
  <2>1. count \in 1..(MaxRefinements + 1) /\ again \in BOOLEAN
    BY <1>1, LimitFacts DEF ResultInv, SubInv, SubAgentResult
  <2>2. sub' = [sub EXCEPT !.pc = "evaluate", !.result = sub.pending, !.refined = again,
                           !.iterations = count]
    BY <1>2 DEF Accept
  <2> HIDE DEF again, count
  <2>3. /\ sub' \in SubAgentResult /\ sub'.pc = "evaluate" /\ sub'.result = sub.pending
        /\ sub'.exit = sub.exit /\ sub'.confidence = sub.confidence
        /\ sub'.accepted = sub.accepted /\ sub'.torn = sub.torn
    BY <1>1, <2>1, <2>2 DEF SubAgentResult
  <2>4. sub.pending # 0 /\ sub.pending \in Turns /\ sub.torn = FALSE
    BY <1>1 DEF ResultInv, SubInv, SubAgentResult
  <2>. QED
    BY <1>1, <1>2, <2>3, <2>4 DEF ResultInv, SubInv, ResultIsCommitted
<1>3. CASE Raise /\ UNCHANGED committed
  BY <1>1, <1>3, RaiseStep
<1>4. CASE /\ sub' = [sub EXCEPT !.torn = TRUE,
                        !.pc = IF sub.result = 0 THEN "raised" ELSE "returned",
                        !.exit = IF sub.result = 0 THEN @ ELSE "refinement_failed_keep_original"]
           /\ committed' = sub.pending
  <2>1. /\ sub' \in SubAgentResult /\ sub'.torn = TRUE
        /\ sub'.pc = IF sub.result = 0 THEN "raised" ELSE "returned"
        /\ sub'.exit = IF sub.result = 0 THEN sub.exit ELSE "refinement_failed_keep_original"
        /\ sub'.result = sub.result /\ sub'.refined = sub.refined /\ sub'.pending = sub.pending
        /\ sub'.iterations = sub.iterations /\ sub'.confidence = sub.confidence
        /\ sub'.accepted = sub.accepted
    BY <1>1, <1>4 DEF SubAgentResult
  <2>2. sub.pending \in Turns
    BY <1>1 DEF SubAgentResult
  <2>. QED
    BY <1>1, <1>4, <2>1, <2>2 DEF ResultInv, SubInv, ResultIsCommitted
<1>. QED
  BY <1>2, <1>3, <1>4 DEF StateUpdate

LEMMA EvaluateStep ==
  ASSUME ResultInv, protocol' = protocol, Evaluate
  PROVE  ResultInv'
<1>1. sub.pc = "evaluate" /\ UNCHANGED committed /\ sub \in SubAgentResult
  BY DEF Evaluate, ResultInv
<1>2. ASSUME NEW passed \in BOOLEAN, passed \/ sub.iterations > MaxRefinements,
             sub' = [sub EXCEPT !.accepted = passed, !.pc = "returned",
                                !.exit = IF passed THEN "passed" ELSE "max_refinements"]
      PROVE  ResultInv'
  <2>1. /\ sub' \in SubAgentResult /\ sub'.pc = "returned" /\ sub'.pending = sub.pending
        /\ sub'.result = sub.result /\ sub'.iterations = sub.iterations
        /\ sub'.refined = sub.refined /\ sub'.confidence = sub.confidence
        /\ sub'.exit = (IF passed THEN "passed" ELSE "max_refinements")
        /\ sub'.torn = sub.torn
    BY <1>1, <1>2 DEF SubAgentResult
  <2>2. sub'.accepted = passed
    BY <1>1, <1>2 DEF SubAgentResult
  <2>3. sub.iterations \in 1..(MaxRefinements + 1) /\ MaxRefinements \in Nat
    BY <1>1, LimitFacts DEF SubAgentResult
  <2>4. ~passed => sub'.iterations = 1 + MaxRefinements
    BY <1>2, <2>1, <2>3
  <2>. QED
    BY <1>1, <2>1, <2>2, <2>4 DEF ResultInv, SubInv, ResultIsCommitted
<1>3. CASE sub.iterations <= MaxRefinements /\ sub' = [sub EXCEPT !.pc = "agent", !.pending = 0]
  <2>1. /\ sub' \in SubAgentResult /\ sub'.pc = "agent"
        /\ sub'.result = sub.result /\ sub'.iterations = sub.iterations
        /\ sub'.refined = sub.refined /\ sub'.exit = sub.exit /\ sub'.confidence = sub.confidence
        /\ sub'.accepted = sub.accepted /\ sub'.torn = sub.torn
    BY <1>1, <1>3, LimitFacts DEF SubAgentResult
  <2>. QED
    BY <1>1, <1>3, <2>1 DEF ResultInv, SubInv, ResultIsCommitted
<1>4. CASE sub' = [sub EXCEPT !.pc = "raised"]
  <2>1. /\ sub' \in SubAgentResult /\ sub'.pc = "raised" /\ sub'.pending = sub.pending
        /\ sub'.result = sub.result /\ sub'.iterations = sub.iterations
        /\ sub'.refined = sub.refined /\ sub'.exit = sub.exit /\ sub'.confidence = sub.confidence
        /\ sub'.accepted = sub.accepted /\ sub'.torn = sub.torn
    BY <1>1, <1>4 DEF SubAgentResult
  <2>. QED
    BY <1>1, <2>1 DEF ResultInv, SubInv, ResultIsCommitted
<1>5. CASE Raise
  BY <1>1, <1>5, RaiseStep
<1>. QED
  BY <1>2, <1>3, <1>4, <1>5 DEF Evaluate

LEMMA ResultKept ==
  ASSUME ResultInv, UNCHANGED configuration, ConversationInv, SubAgentTool \/ UNCHANGED subVars
  PROVE  ResultInv'
<1>1. protocol' = protocol
  BY DEF configuration
<1>2. CASE UNCHANGED subVars
  BY <1>1, <1>2 DEF subVars, ResultInv, SubInv, ResultIsCommitted
<1>3. CASE SubStarts \/ Sample
  BY <1>2, <1>3 DEF SubStarts, Sample
<1>4. CASE SubAgentRan \/ Enriched \/ Execute \/ StateUpdate \/ Evaluate
  BY <1>1, <1>4, RanStep, EnrichedStep, ExecuteStep, UpdateStep, EvaluateStep
<1>. QED
  BY <1>2, <1>3, <1>4 DEF SubAgentTool

-----------------------------------------------------------------------------
(* The steps of a compound call.                                           *)

LEMMA CallTypes ==
  ASSUME Call!TypeOK
  PROVE  /\ wrapped \in BOOLEAN /\ unannounced \in BOOLEAN /\ aborted \in BOOLEAN /\ ranAborted \in BOOLEAN
         /\ site \in Call!Sites /\ hook \in 1..Hooks /\ active \in {"continue", "skip", "redirect"}
         /\ attempt \in 0..(MaxAttempts - 1)
         /\ runs \in 0..4 /\ effects \in 0..runs /\ updates \in 0..2
         /\ Hooks \in Nat \ {0} /\ MaxAttempts \in Nat \ {0}
BY LimitFacts DEF Call!TypeOK, Call!Decisions

(* Another hook of the same site is asked: nothing else changes. *)
LEMMA NextHookStep ==
  ASSUME CompoundInv, UNCHANGED <<wrapped, site, attempt, runs, effects, updates, aborted, ranAborted>>,
         hook' \in 1..Hooks, active' \in {"continue", "skip", "redirect"},
         site \in Call!HookSites,
         unannounced' = IF site \in Call!ErrorSites THEN FALSE ELSE unannounced
  PROVE  CompoundInv'
<1>1. unannounced' \in BOOLEAN /\ (~unannounced => ~unannounced')
  BY CallTypes DEF CompoundInv
<1>2. Call!TypeOK'
  BY <1>1 DEF CompoundInv, Call!TypeOK, Call!Decisions
<1>3. CallInv'
  BY <1>1 DEF CompoundInv, CallInv
<1>4. Call!UpdatedIffReturned' /\ Call!ReturnsSuccess'
  BY <1>1 DEF CompoundInv, Call!UpdatedIffReturned, Call!ReturnsSuccess
<1>. QED
  BY <1>2, <1>3, <1>4 DEF CompoundInv

(* What a site must find for the invariant to hold there. *)
ReadyFor(s, r, e, u, missed, bare) ==
    /\ s \in {"retry_before", "agent", "before", "execute", "skip_after"} => r = 0
    /\ s \in {"error", "retry"} => r = 1
    /\ s \in {"after", "reexecute"} => r \in 1..2
    /\ s \in {"after", "reexecute", "last_after"} => e > 0
    /\ s \in {"update", "compound_returned"} => r = 0 \/ e > 0
    /\ s \in Call!CompoundHookSites \cup Call!ExecutorSites
             \cup {"retry_before", "agent", "update", "compound_failed"} => u = 0
    /\ s = "compound_returned" => u = 1
    /\ s \in {"retry_before", "agent", "before", "execute", "skip_after", "retry", "after", "reexecute",
              "last_after", "update", "compound_returned"} => ~missed
    /\ bare => s \in Call!EndSites

LEMMA ReadyNow ==
  ASSUME CompoundInv
  PROVE  /\ runs <= 3 /\ (~wrapped => ~ranAborted)
         /\ ReadyFor(site, runs, effects, updates, unannounced, ~wrapped /\ aborted)
BY DEF CompoundInv, CallInv, ReadyFor, Call!UpdatedIffReturned, Call!ReturnsSuccess

(* A call goes to a site that it is ready for. *)
LEMMA GotoStep ==
  ASSUME CompoundInv, NEW s \in Call!Sites, Call!Goto(s),
         unannounced' \in BOOLEAN, aborted' \in BOOLEAN, ranAborted' \in BOOLEAN,
         attempt' \in 0..(MaxAttempts - 1),
         runs' \in 0..3, effects' \in 0..runs', updates' \in 0..2,
         ReadyFor(s, runs', effects', updates', unannounced', ~wrapped /\ aborted'),
         ~wrapped => ~ranAborted'
  PROVE  CompoundInv'
<1>1. site' = s /\ hook' = 1 /\ active' = "continue" /\ wrapped' = wrapped
  BY DEF Call!Goto
<1>2. Call!TypeOK'
  <2>1. hook' \in 1..Hooks /\ wrapped' \in BOOLEAN /\ runs' \in 0..4
    BY <1>1, CallTypes DEF CompoundInv
  <2>. QED
    BY <1>1, <2>1 DEF Call!TypeOK, Call!Decisions
<1>3. runs' <= 3
  OBVIOUS
<1>4. ReadyFor(site', runs', effects', updates', unannounced', ~wrapped' /\ aborted')
  BY <1>1
<1>5. CallInv' /\ Call!UpdatedIffReturned' /\ Call!ReturnsSuccess'
  BY <1>1, <1>3, <1>4 DEF ReadyFor, CallInv, Call!UpdatedIffReturned, Call!ReturnsSuccess
<1>. QED
  BY <1>2, <1>5 DEF CompoundInv


(* The aggregated decision of a hook site leads to a site that is ready. *)
LEMMA TargetReady ==
  ASSUME CompoundInv, site \in Call!HookSites, NEW d \in {"continue", "skip", "redirect"},
         NEW missed \in BOOLEAN,
         missed = IF site \in Call!ErrorSites THEN FALSE ELSE unannounced
  PROVE  /\ Call!Target(site, d) \in Call!Sites
         /\ ReadyFor(Call!Target(site, d), runs, effects, updates, missed, ~wrapped /\ aborted)
<1> DEFINE s == Call!Target(site, d)
           bare == ~wrapped /\ aborted
<1>1. ReadyFor(site, runs, effects, updates, unannounced, bare) /\ bare \in BOOLEAN
  BY ReadyNow, CallTypes DEF CompoundInv
<1>2. ~bare
  BY <1>1 DEF ReadyFor, Call!HookSites, Call!CompoundHookSites, Call!RetryHookSites, Call!EndSites
<1> HIDE DEF bare
<1>3. site \in {"before", "skip_after", "error", "after", "last_after", "last_error",
                "retry_before", "retry_after"}
  BY DEF Call!HookSites, Call!CompoundHookSites, Call!RetryHookSites
<1>4. CASE site = "before"
  <2>1. s = IF d = "skip" THEN "skip_after" ELSE "execute"
    BY <1>4 DEF Call!Target
  <2>2. runs = 0 /\ updates = 0 /\ ~missed
    BY <1>1, <1>4 DEF ReadyFor, Call!CompoundHookSites, Call!ErrorSites
  <2>. QED
    BY <1>2, <2>1, <2>2 DEF ReadyFor, Call!Sites, Call!HookSites, Call!CompoundHookSites,
       Call!ExecutorSites, Call!EndSites, bare
<1>5. CASE site = "error"
  <2>1. s = IF d = "redirect" THEN "retry" ELSE "compound_failed"
    BY <1>5 DEF Call!Target
  <2>2. runs = 1 /\ updates = 0 /\ ~missed
    BY <1>1, <1>5 DEF ReadyFor, Call!CompoundHookSites, Call!ErrorSites
  <2>. QED
    BY <1>2, <2>1, <2>2 DEF ReadyFor, Call!Sites, Call!HookSites, Call!CompoundHookSites,
       Call!ExecutorSites, Call!EndSites, bare
<1>6. CASE site = "after"
  <2>1. s = IF d = "redirect" THEN "reexecute" ELSE "update"
    BY <1>6 DEF Call!Target
  <2>2. runs \in 1..2 /\ effects > 0 /\ updates = 0 /\ ~missed
    BY <1>1, <1>6 DEF ReadyFor, Call!CompoundHookSites, Call!ErrorSites
  <2>. QED
    BY <1>2, <2>1, <2>2 DEF ReadyFor, Call!Sites, Call!HookSites, Call!CompoundHookSites,
       Call!ExecutorSites, Call!EndSites, bare
<1>7. CASE site \in {"skip_after", "last_after"}
  <2>1. s = "update"
    BY <1>7 DEF Call!Target
  <2>2. (runs = 0 \/ effects > 0) /\ updates = 0 /\ ~missed
    BY <1>1, <1>7 DEF ReadyFor, Call!CompoundHookSites, Call!ErrorSites
  <2>. QED
    BY <1>2, <2>1, <2>2 DEF ReadyFor, Call!Sites, Call!EndSites, bare
<1>8. CASE site = "last_error"
  <2>1. s = "compound_failed"
    BY <1>8 DEF Call!Target
  <2>2. updates = 0
    BY <1>1, <1>8 DEF ReadyFor, Call!CompoundHookSites
  <2>. QED
    BY <1>2, <2>1, <2>2 DEF ReadyFor, Call!Sites, Call!EndSites, bare
<1>9. CASE site = "retry_before"
  <2>1. s = IF d = "skip" THEN "retry_after" ELSE "agent"
    BY <1>9 DEF Call!Target
  <2>2. runs = 0 /\ updates = 0 /\ ~missed
    BY <1>1, <1>9 DEF ReadyFor, Call!ErrorSites
  <2>. QED
    BY <1>2, <2>1, <2>2 DEF ReadyFor, Call!Sites, Call!HookSites, Call!CompoundHookSites,
       Call!RetryHookSites, Call!ExecutorSites, Call!EndSites, bare
<1>10. CASE site = "retry_after"
  <2>1. s = "returned"
    BY <1>10 DEF Call!Target
  <2>. QED
    BY <1>2, <2>1 DEF ReadyFor, Call!Sites, Call!CompoundHookSites, Call!ExecutorSites,
       Call!EndSites, bare
<1>. QED
  BY <1>3, <1>4, <1>5, <1>6, <1>7, <1>8, <1>9, <1>10

LEMMA HookAnswersStep ==
  ASSUME CompoundInv, NEW d \in Call!Decisions \ {"abort"}, Call!HookAnswers(d)
  PROVE  CompoundInv'
<1> DEFINE decision == IF active = "continue" THEN d ELSE active
<1>1. /\ site \in Call!HookSites
      /\ IF hook < Hooks
         THEN hook' = hook + 1 /\ active' = decision /\ UNCHANGED <<wrapped, site>>
         ELSE Call!Goto(Call!Target(site, decision))
      /\ unannounced' = IF site \in Call!ErrorSites THEN FALSE ELSE unannounced
      /\ UNCHANGED <<attempt, runs, effects, updates, aborted, ranAborted>>
  BY DEF Call!HookAnswers, Call!AnnounceError
<1>2. /\ decision \in {"continue", "skip", "redirect"}
      /\ wrapped \in BOOLEAN /\ unannounced \in BOOLEAN /\ aborted \in BOOLEAN /\ ranAborted \in BOOLEAN
      /\ hook \in 1..Hooks /\ attempt \in 0..(MaxAttempts - 1)
      /\ runs \in 0..4 /\ effects \in 0..runs /\ updates \in 0..2
      /\ Hooks \in Nat \ {0}
  BY CallTypes DEF CompoundInv, Call!Decisions
<1> HIDE DEF decision
<1>3. CASE hook < Hooks
  <2>1. hook' \in 1..Hooks /\ active' \in {"continue", "skip", "redirect"} /\ UNCHANGED <<wrapped, site>>
    BY <1>1, <1>2, <1>3
  <2>. QED
    BY <1>1, <2>1, NextHookStep
<1>4. CASE ~(hook < Hooks)
  <2> DEFINE s == Call!Target(site, decision)
  <2>1. unannounced' \in BOOLEAN
    BY <1>1, <1>2
  <2>2. PICK missed : missed = unannounced'
    OBVIOUS
  <2>3. s \in Call!Sites /\ ReadyFor(s, runs, effects, updates, missed, ~wrapped /\ aborted)
    BY <1>1, <1>2, <2>1, <2>2, TargetReady
  <2>4. Call!Goto(s) /\ runs <= 3 /\ (~wrapped => ~ranAborted)
    BY <1>1, <1>4, ReadyNow
  <2> HIDE DEF s
  <2>5. /\ attempt' = attempt /\ runs' = runs /\ effects' = effects /\ updates' = updates
        /\ aborted' = aborted /\ ranAborted' = ranAborted
    BY <1>1
  <2>6. runs' \in 0..3 /\ effects' \in 0..runs' /\ updates' \in 0..2
    BY <1>2, <2>4, <2>5
  <2>7. ReadyFor(s, runs', effects', updates', unannounced', ~wrapped /\ aborted')
    BY <2>2, <2>3, <2>5
  <2>. QED
    BY <1>2, <2>1, <2>3, <2>4, <2>5, <2>6, <2>7, GotoStep
<1>. QED
  BY <1>3, <1>4

LEMMA HookAbortsStep ==
  ASSUME CompoundInv, Call!HookAborts
  PROVE  CompoundInv'
<1> DEFINE s == Call!Raised(site)
<1>1. /\ site \in Call!HookSites /\ Call!Goto(s) /\ aborted' = TRUE
      /\ unannounced' = IF site \in Call!ErrorSites THEN FALSE ELSE unannounced
      /\ UNCHANGED <<attempt, runs, effects, updates, ranAborted>>
  BY DEF Call!HookAborts, Call!AnnounceError
<1>2. /\ unannounced' \in BOOLEAN /\ wrapped \in BOOLEAN /\ ranAborted \in BOOLEAN
      /\ attempt \in 0..(MaxAttempts - 1)
      /\ runs \in 0..4 /\ effects \in 0..runs /\ updates \in 0..2
  BY <1>1, CallTypes DEF CompoundInv
<1>3. /\ runs <= 3 /\ (~wrapped => ~ranAborted)
      /\ ReadyFor(site, runs, effects, updates, unannounced, ~wrapped /\ aborted)
  BY ReadyNow
<1>4. \/ s = "abort_raised"
      \/ s = "compound_failed" /\ wrapped /\ site \in Call!CompoundHookSites
  BY <1>1 DEF Call!Raised, Call!HookSites
<1>5. s \in Call!Sites
  BY <1>4 DEF Call!Sites, Call!EndSites
<1>6. s = "compound_failed" => updates = 0
  BY <1>3, <1>4 DEF ReadyFor
<1>7. runs' \in 0..3 /\ effects' \in 0..runs' /\ updates' \in 0..2
  BY <1>1, <1>2, <1>3
<1>8. ReadyFor(s, runs', effects', updates', unannounced', ~wrapped /\ aborted')
  BY <1>1, <1>4, <1>6 DEF ReadyFor, Call!CompoundHookSites, Call!ExecutorSites, Call!EndSites
<1> HIDE DEF s
<1>. QED
  BY <1>1, <1>2, <1>3, <1>5, <1>7, <1>8, GotoStep

LEMMA AgentStep ==
  ASSUME CompoundInv, Call!Agent
  PROVE  CompoundInv'
<1>1. /\ site = "agent" /\ UNCHANGED <<attempt, runs, effects, updates, unannounced, aborted, ranAborted>>
      /\ Call!Goto("before") \/ Call!Goto("compound_failed")
  BY DEF Call!Agent, Call!history
<1>2. /\ runs <= 3 /\ (~wrapped => ~ranAborted)
      /\ ReadyFor(site, runs, effects, updates, unannounced, ~wrapped /\ aborted)
  BY ReadyNow
<1>3. /\ wrapped \in BOOLEAN /\ unannounced \in BOOLEAN /\ aborted \in BOOLEAN /\ ranAborted \in BOOLEAN
      /\ attempt \in 0..(MaxAttempts - 1)
      /\ runs \in 0..3 /\ effects \in 0..runs /\ updates \in 0..2
  BY <1>2, CallTypes DEF CompoundInv
<1>4. ASSUME NEW s \in {"before", "compound_failed"}
      PROVE  s \in Call!Sites /\ ReadyFor(s, runs, effects, updates, unannounced, ~wrapped /\ aborted)
  BY <1>1, <1>2 DEF ReadyFor, Call!Sites, Call!HookSites, Call!CompoundHookSites,
     Call!ExecutorSites, Call!EndSites
<1>5. PICK s \in {"before", "compound_failed"} : Call!Goto(s)
  BY <1>1
<1>. QED
  BY <1>1, <1>2, <1>3, <1>4, <1>5, GotoStep

LEMMA ExecutorStep ==
  ASSUME CompoundInv, Call!ExecutorSucceeds \/ Call!ExecutorFails
  PROVE  CompoundInv'
<1>1. site \in {"execute", "retry", "reexecute"}
  BY DEF Call!ExecutorSucceeds, Call!ExecutorFails, Call!ExecutorSites
<1>2. ReadyFor(site, runs, effects, updates, unannounced, ~wrapped /\ aborted)
  BY ReadyNow
<1>3. /\ updates = 0 /\ (site = "execute" => runs = 0) /\ (site = "retry" => runs = 1)
      /\ (site = "reexecute" => runs \in 1..2 /\ effects > 0)
      /\ ~(~wrapped /\ aborted)
  BY <1>1, <1>2 DEF ReadyFor, Call!ExecutorSites, Call!EndSites
<1>4. /\ wrapped \in BOOLEAN /\ unannounced \in BOOLEAN /\ aborted \in BOOLEAN /\ ranAborted \in BOOLEAN
      /\ attempt \in 0..(MaxAttempts - 1)
      /\ runs \in 0..2 /\ effects \in 0..runs
      /\ ~wrapped => ~ranAborted
  BY <1>1, <1>3, CallTypes, ReadyNow DEF CompoundInv
<1>5. CASE Call!ExecutorSucceeds
  <2> DEFINE s == IF site = "reexecute" THEN "last_after" ELSE "after"
  <2>1. /\ Call!Goto(s)
        /\ runs' = (IF runs < 4 THEN runs + 1 ELSE runs) /\ ranAborted' = (ranAborted \/ aborted)
        /\ effects' = IF effects < 4 THEN effects + 1 ELSE effects
        /\ UNCHANGED <<attempt, updates, unannounced, aborted>>
    BY <1>5 DEF Call!ExecutorSucceeds, Call!Ran
  <2>2. runs' = runs + 1 /\ effects' = effects + 1
    BY <1>4, <2>1
  <2>3. runs' \in 0..3 /\ effects' \in 0..runs' /\ effects' > 0 /\ (s = "after" => runs' \in 1..2)
    BY <1>1, <1>3, <1>4, <2>2
  <2>4. ~unannounced
    BY <1>1, <1>2 DEF ReadyFor
  <2>5. s \in {"after", "last_after"}
    OBVIOUS
  <2> HIDE DEF s
  <2>6. s \in Call!Sites /\ ReadyFor(s, runs', effects', updates', unannounced', ~wrapped /\ aborted')
    BY <1>3, <2>1, <2>3, <2>4, <2>5 DEF ReadyFor, Call!Sites, Call!HookSites,
       Call!CompoundHookSites, Call!EndSites
  <2>7. ranAborted' \in BOOLEAN /\ (~wrapped => ~ranAborted')
    BY <1>3, <1>4, <2>1
  <2>8. updates' \in 0..2 /\ attempt' \in 0..(MaxAttempts - 1) /\ unannounced' \in BOOLEAN
        /\ aborted' \in BOOLEAN
    BY <1>3, <1>4, <2>1
  <2>. QED
    BY <2>1, <2>3, <2>6, <2>7, <2>8, GotoStep
<1>6. CASE Call!ExecutorFails
  <2> DEFINE s == CASE site = "execute" -> "error"
                    [] site = "retry" -> "compound_failed"
                    [] site = "reexecute" -> "last_error"
  <2>1. /\ Call!Goto(s)
        /\ runs' = (IF runs < 4 THEN runs + 1 ELSE runs) /\ ranAborted' = (ranAborted \/ aborted)
        /\ unannounced' = TRUE
        /\ UNCHANGED <<attempt, effects, updates, aborted>>
    BY <1>6 DEF Call!ExecutorFails, Call!Ran
  <2>2. runs' = runs + 1 /\ effects' = effects
    BY <1>4, <2>1
  <2>3. /\ s \in {"error", "compound_failed", "last_error"}
        /\ s = "error" => site = "execute"
    BY <1>1
  <2> HIDE DEF s
  <2>4. runs' \in 0..3 /\ effects' \in 0..runs' /\ (s = "error" => runs' = 1)
    <3>1. runs + 1 \in 0..3 /\ effects \in 0..(runs + 1)
      BY <1>4
    <3>2. s = "error" => runs + 1 = 1
      BY <1>3, <2>3
    <3>. QED
      BY <2>2, <3>1, <3>2
  <2>5. s \in Call!Sites /\ ReadyFor(s, runs', effects', updates', unannounced', ~wrapped /\ aborted')
    BY <1>3, <2>1, <2>3, <2>4 DEF ReadyFor, Call!Sites, Call!HookSites, Call!CompoundHookSites,
       Call!EndSites
  <2>6. ranAborted' \in BOOLEAN /\ (~wrapped => ~ranAborted')
    BY <1>3, <1>4, <2>1
  <2>7. updates' \in 0..2 /\ attempt' \in 0..(MaxAttempts - 1) /\ unannounced' \in BOOLEAN
        /\ aborted' \in BOOLEAN
    BY <1>3, <1>4, <2>1
  <2>. QED
    BY <2>1, <2>4, <2>5, <2>6, <2>7, GotoStep
<1>. QED
  BY <1>5, <1>6

LEMMA CallUpdateStep ==
  ASSUME CompoundInv, Call!Update
  PROVE  CompoundInv'
<1>1. /\ site = "update" /\ UNCHANGED <<attempt, runs, effects, unannounced, aborted, ranAborted>>
      /\ \/ Call!Goto("compound_returned") /\ updates' = updates + 1
         \/ Call!Goto("compound_failed") /\ updates' = updates
  BY DEF Call!Update
<1>2. /\ runs <= 3 /\ (~wrapped => ~ranAborted)
      /\ ReadyFor(site, runs, effects, updates, unannounced, ~wrapped /\ aborted)
  BY ReadyNow
<1>3. /\ wrapped \in BOOLEAN /\ unannounced \in BOOLEAN /\ aborted \in BOOLEAN /\ ranAborted \in BOOLEAN
      /\ attempt \in 0..(MaxAttempts - 1)
      /\ runs \in 0..3 /\ effects \in 0..runs
  BY <1>2, CallTypes DEF CompoundInv
<1>4. updates = 0 /\ ~unannounced /\ (runs = 0 \/ effects > 0) /\ ~(~wrapped /\ aborted)
  BY <1>1, <1>2 DEF ReadyFor, Call!EndSites
<1>5. PICK s \in {"compound_returned", "compound_failed"} :
         Call!Goto(s) /\ updates' = IF s = "compound_returned" THEN 1 ELSE 0
  BY <1>1, <1>4
<1>6. /\ s \in Call!Sites /\ updates' \in 0..2
      /\ ReadyFor(s, runs', effects', updates', unannounced', ~wrapped /\ aborted')
  BY <1>1, <1>4, <1>5 DEF ReadyFor, Call!Sites, Call!CompoundHookSites, Call!ExecutorSites,
     Call!EndSites
<1>. QED
  BY <1>1, <1>2, <1>3, <1>5, <1>6, GotoStep

LEMMA CompoundEndsStep ==
  ASSUME CompoundInv, Call!CompoundEnds
  PROVE  CompoundInv'
<1>1. /\ site \in {"compound_returned", "compound_failed"} /\ UNCHANGED <<aborted, ranAborted>>
      /\ \/ /\ ~wrapped
            /\ Call!Goto("returned") \/ Call!Goto("failed")
            /\ UNCHANGED <<attempt, runs, effects, updates, unannounced>>
         \/ /\ wrapped
            /\ Call!Goto("retry_after")
            /\ UNCHANGED <<attempt, runs, effects, updates, unannounced>>
         \/ wrapped /\ attempt < MaxAttempts - 1 /\ Call!TryAgain
  BY DEF Call!CompoundEnds
<1>2. /\ runs <= 3 /\ (~wrapped => ~ranAborted)
      /\ ReadyFor(site, runs, effects, updates, unannounced, ~wrapped /\ aborted)
  BY ReadyNow
<1>3. /\ wrapped \in BOOLEAN /\ unannounced \in BOOLEAN /\ aborted \in BOOLEAN /\ ranAborted \in BOOLEAN
      /\ attempt \in 0..(MaxAttempts - 1) /\ MaxAttempts \in Nat \ {0}
      /\ runs \in 0..3 /\ effects \in 0..runs /\ updates \in 0..2
  BY <1>2, CallTypes DEF CompoundInv
<1>4. ~(~wrapped /\ aborted)
  BY <1>1, <1>2 DEF ReadyFor, Call!EndSites
<1>5. ASSUME NEW s \in {"returned", "failed", "retry_after"}, Call!Goto(s),
             UNCHANGED <<attempt, runs, effects, updates, unannounced>>
      PROVE  CompoundInv'
  <2>1. s \in Call!Sites /\ ReadyFor(s, runs', effects', updates', unannounced', ~wrapped /\ aborted')
    BY <1>1, <1>4, <1>5 DEF ReadyFor, Call!Sites, Call!HookSites, Call!RetryHookSites,
       Call!CompoundHookSites, Call!ExecutorSites, Call!EndSites
  <2>. QED
    BY <1>1, <1>2, <1>3, <1>5, <2>1, GotoStep
<1>6. ASSUME wrapped, attempt < MaxAttempts - 1, Call!TryAgain
      PROVE  CompoundInv'
  <2>1. /\ Call!Goto("agent") /\ attempt' = attempt + 1
        /\ runs' = 0 /\ effects' = 0 /\ updates' = 0 /\ unannounced' = FALSE
    BY <1>6 DEF Call!TryAgain
  <2>2. attempt' \in 0..(MaxAttempts - 1)
    BY <1>3, <1>6, <2>1
  <2>3. /\ "agent" \in Call!Sites
        /\ ReadyFor("agent", runs', effects', updates', unannounced', ~wrapped /\ aborted')
    BY <1>6, <2>1 DEF ReadyFor, Call!Sites
  <2>4. runs' \in 0..3 /\ effects' \in 0..runs' /\ updates' \in 0..2 /\ unannounced' \in BOOLEAN
    <3>1. 0 \in 0..3 /\ 0 \in 0..0 /\ 0 \in 0..2
      OBVIOUS
    <3>. QED
      BY <2>1, <3>1
  <2>. QED
    BY <1>1, <1>2, <1>3, <2>1, <2>2, <2>3, <2>4, GotoStep
<1>. QED
  BY <1>1, <1>5, <1>6

LEMMA CompoundKept ==
  ASSUME CompoundInv, Call!Next \/ UNCHANGED callVars
  PROVE  CompoundInv'
<1>1. CASE UNCHANGED callVars
  BY <1>1 DEF callVars, CompoundInv, CallInv, Call!TypeOK, Call!UpdatedIffReturned, Call!ReturnsSuccess
<1>2. CASE Call!Next
  BY <1>2, HookAnswersStep, HookAbortsStep, AgentStep, ExecutorStep, CallUpdateStep, CompoundEndsStep
     DEF Call!Next
<1>. QED
  BY <1>1, <1>2

-----------------------------------------------------------------------------
(* The invariant holds in every reachable state.                           *)

LEMMA InitInvariant == Init => IInv
<1> SUFFICES ASSUME Init PROVE IInv
  OBVIOUS
<1>1. PICK saved \in SavedSessions : messages = Deserialize(saved)
  BY DEF Init
<1>2. /\ messages \in Seq(Messages) /\ Opened(messages) /\ CallsAnswered(messages)
      /\ \A i \in DOMAIN messages : messages[i].turn = 0
  <2>1. CASE saved.valid
    BY <1>1, <2>1, SessionsAssumption DEF Deserialize
  <2>2. CASE ~saved.valid
    <3>1. messages = <<>>
      BY <1>1, <2>2, SessionsAssumption DEF Deserialize
    <3>2. <<>> \in Seq(Messages) /\ DOMAIN <<>> = {}
      OBVIOUS
    <3>. QED
      BY <3>1, <3>2 DEF Opened, CallsAnswered
  <2>. QED
    BY <2>1, <2>2
<1>3. shown = [t \in Turns |-> IF t = 0 THEN {0} ELSE {}] /\ turn = [s \in Slots |-> Idle]
  BY DEF Init
<1>4. shown \in [Turns -> SUBSET Turns] /\ shown[0] = {0}
  BY <1>3, LimitFacts
<1>5. Sound(messages, shown)
  <2>1. InOrder(messages, shown)
    <3> SUFFICES ASSUME NEW i \in DOMAIN messages, NEW j \in 1..(i - 1)
                 PROVE  messages[j].turn \in shown[messages[i].turn]
      BY DEF InOrder
    <3>1. DOMAIN messages = 1..Len(messages) /\ Len(messages) \in Nat
      BY <1>2, LenProperties
    <3>2. j \in DOMAIN messages
      BY <3>1
    <3>. QED
      BY <1>2, <1>4, <3>2
  <2>. QED
    BY <1>2, <2>1 DEF Sound
<1>6. Idle \in TurnStates /\ SlotInv(Idle, shown)
  <2>1. <<>> \in Seq(Messages)
    OBVIOUS
  <2>2. Idle \in TurnStates
    BY <2>1, LimitFacts DEF Idle, TurnStates
  <2>. QED
    BY <2>2 DEF Idle, SlotInv
<1>7. ConversationInv
  BY <1>2, <1>3, <1>4, <1>5, <1>6 DEF ConversationInv
<1>8. ResultInv
  <2>1. /\ sub = [pc |-> "agent", iterations |-> 1, result |-> 0, pending |-> 0, refined |-> FALSE,
                  exit |-> "passed", confidence |-> 0, accepted |-> FALSE, torn |-> FALSE]
        /\ committed = 0 /\ protocol \in Protocols
    BY DEF Init, Protocols
  <2>2. sub \in SubAgentResult
    BY <2>1, LimitFacts DEF SubAgentResult
  <2>. QED
    BY <2>1, <2>2, LimitFacts DEF ResultInv, SubInv, ResultIsCommitted
<1>9. CompoundInv
  <2>1. /\ wrapped \in BOOLEAN /\ site = (IF wrapped THEN "retry_before" ELSE "agent")
        /\ hook = 1 /\ active = "continue" /\ attempt = 0 /\ runs = 0 /\ effects = 0 /\ updates = 0
        /\ unannounced = FALSE /\ aborted = FALSE /\ ranAborted = FALSE
    BY DEF Init, Call!Init
  <2>2. Call!TypeOK
    <3>1. hook \in 1..Hooks /\ attempt \in 0..(MaxAttempts - 1)
      BY <2>1, LimitFacts
    <3>2. site \in Call!Sites
      BY <2>1 DEF Call!Sites, Call!HookSites, Call!RetryHookSites
    <3>3. runs \in 0..4 /\ effects \in 0..runs /\ updates \in 0..2
      BY <2>1
    <3>. QED
      BY <2>1, <3>1, <3>2, <3>3 DEF Call!TypeOK, Call!Decisions
  <2>. QED
    BY <2>1, <2>2 DEF CompoundInv, CallInv, Call!UpdatedIffReturned, Call!ReturnsSuccess
<1>10. client \in {"sub", "compound"} /\ manager \in BOOLEAN
  BY DEF Init
<1>. QED
  BY <1>7, <1>8, <1>9, <1>10 DEF IInv

LEMMA NextInvariant == IInv /\ [Next]_vars => IInv'
<1> SUFFICES ASSUME IInv, [Next]_vars PROVE IInv'
  OBVIOUS
<1>1. ConversationInv /\ ResultInv /\ CompoundInv /\ client \in {"sub", "compound"} /\ manager \in BOOLEAN
  BY DEF IInv
<1>2. {"main", "sample", "other"} \subseteq Slots
  BY DEF Slots
<1>3. /\ UNCHANGED configuration /\ ConversationStep
      /\ SubAgentTool \/ UNCHANGED subVars
      /\ Call!Next \/ UNCHANGED callVars
  <2>1. CASE SubAgentTool
    <3>1. UNCHANGED configuration /\ UNCHANGED callVars
      BY <2>1 DEF SubAgentTool
    <3>2. \/ StartTurn("main") \/ StartTurn("sample")
          \/ EmptySlots({"main"}) \/ EmptySlots({"sample"})
          \/ UNCHANGED conversation
      BY <2>1 DEF SubAgentTool, SubStarts, SubAgentRan, Sample, Enriched, Execute, StateUpdate, Evaluate
    <3>3. ConversationStep
      BY <1>2, <3>2 DEF ConversationStep
    <3>. QED
      BY <2>1, <3>1, <3>3
  <2>2. CASE CompoundTool
    <3>1. UNCHANGED configuration /\ UNCHANGED subVars
      BY <2>2 DEF CompoundTool
    <3>2. StartTurn("main") \/ EmptySlots({"main"}) \/ UNCHANGED conversation
      BY <2>2 DEF CompoundTool, CompoundAgentStarts, CompoundAgentRan
    <3>3. Call!Next \/ UNCHANGED callVars
      BY <2>2 DEF CompoundTool, CompoundAgentStarts, CompoundAgentRan, Call!Next
    <3>4. ConversationStep
      BY <1>2, <3>2 DEF ConversationStep
    <3>. QED
      BY <3>1, <3>3, <3>4
  <2>3. CASE Conversation
    <3>1. UNCHANGED configuration /\ UNCHANGED subVars /\ UNCHANGED callVars
      BY <2>3 DEF Conversation
    <3>2. ConversationStep
      BY <1>2, <2>3 DEF Conversation, ConversationStep
    <3>. QED
      BY <3>1, <3>2
  <2>4. CASE UNCHANGED vars
    BY <2>4 DEF vars, ConversationStep
  <2>. QED
    BY <2>1, <2>2, <2>3, <2>4 DEF Next
<1>4. salient' = salient /\ client' = client /\ manager' = manager
  BY <1>3 DEF configuration
<1>5. ConversationInv'
  BY <1>1, <1>3, <1>4, ConversationKept
<1>6. ResultInv'
  BY <1>1, <1>3, ResultKept
<1>7. CompoundInv'
  BY <1>1, <1>3, CompoundKept
<1>. QED
  BY <1>1, <1>4, <1>5, <1>6, <1>7 DEF IInv

(* Every reachable state satisfies the invariant. *)
THEOREM Invariance == Spec => []IInv
<1>. QED
  BY InitInvariant, NextInvariant, PTL DEF Spec

(* A provider accepts every window that is sent: no tool return without    *)
(* its call, the first and the newest message there, every call answered   *)
(* and a bounded length, whichever of compaction, budget and truncation    *)
(* the agent has, in whatever rounds they worked on what was left.         *)
THEOREM WindowsAreAccepted == Spec => []WindowAccepted
<1>1. ASSUME IInv PROVE WindowAccepted
  <2> SUFFICES ASSUME NEW s \in Slots, turn[s].pc = "sent"
               PROVE  LET w == turn[s].window
                      IN  /\ \A i \in DOMAIN w : w[i].kind = "return" =>
                                \E j \in 1..(i - 1) : Answers(w[i], w[j])
                          /\ w[1].kind = "prompt"
                          /\ w[Len(w)].turn = turn[s].id /\ w[Len(w)].round = turn[s].round
                          /\ "call" \notin salient =>
                                \A i \in DOMAIN w : w[i].kind = "call" =>
                                   \E j \in DOMAIN w : Answers(w[j], w[i])
                          /\ TruncatedHistory > 0 => Len(w) <= TruncatedHistory + 2
    BY DEF WindowAccepted
  <2> DEFINE w == turn[s].window
             t == turn[s].id
             round == turn[s].round
  <2>1. /\ w \in Seq(Messages) /\ Pending(w, t, round, shown) /\ NoOrphans(w)
        /\ TruncatedHistory > 0 => Len(w) <= TruncatedHistory + 2
    BY <1>1 DEF IInv, ConversationInv, SlotInv, TurnStates
  <2> HIDE DEF w, t, round
  <2>2. w[1].kind = "prompt" /\ w[Len(w)].turn = t /\ w[Len(w)].round = round
    BY <2>1 DEF Pending, Sound, Opened
  <2>3. ASSUME "call" \notin salient, NEW i \in DOMAIN w, w[i].kind = "call"
        PROVE  \E j \in DOMAIN w : Answers(w[j], w[i])
    <3>1. i < Len(w) /\ Answers(w[i + 1], w[i])
      BY <2>1, <2>3 DEF Pending, Sound, CallsAnswered
    <3>2. i + 1 \in DOMAIN w
      BY <2>1, <3>1, LenProperties
    <3>. QED
      BY <3>1, <3>2
  <2>. QED
    BY <2>1, <2>2, <2>3 DEF NoOrphans, w, t, round
<1>. QED
  BY <1>1, Invariance, PTL

(* Whatever turns overlap, are abandoned or fail, the history reads as one *)
(* conversation: each turn in it was shown the turns before it.            *)
THEOREM HistoryIsOneConversation == Spec => []OneConversation
<1>1. ASSUME IInv PROVE OneConversation
  <2>1. InOrder(messages, shown)
    BY <1>1 DEF IInv, ConversationInv, Sound
  <2>. QED
    BY <2>1 DEF InOrder, OneConversation
<1>. QED
  BY <1>1, Invariance, PTL

(* The result the sub-agent tool returns is the one the state holds, and   *)
(* its exit reason, iterations and confidence tell how it got there.       *)
THEOREM ResultsAreCommitted == Spec => []ResultIsCommitted
<1>1. IInv => ResultIsCommitted
  BY DEF IInv, ResultInv
<1>. QED
  BY <1>1, Invariance, PTL

(* However many hooks a compound call has and whatever they decide, it     *)
(* runs its executor at most three times an attempt, updates the state     *)
(* exactly once if it returns and never if it raises, hides no failure,    *)
(* and stops for good on an abort outside run_with_retry.                  *)
THEOREM CompoundCallsAreSound == Spec => []CompoundSound
<1>1. ASSUME IInv PROVE CompoundSound
  <2>1. TypeOK
    BY <1>1 DEF IInv, ConversationInv, ResultInv, CompoundInv, TypeOK
  <2>. QED
    BY <1>1, <2>1 DEF IInv, CompoundInv, CallInv, CompoundSound, Call!RunsBounded, Call!BareAbortHalts
<1>. QED
  BY <1>1, Invariance, PTL
=============================================================================
