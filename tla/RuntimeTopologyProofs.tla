------------------------ MODULE RuntimeTopologyProofs ------------------------
(***************************************************************************)
(* Proofs about RuntimeTopology, for any number of requests, goals and     *)
(* specifications, any size of the cache and any of its kinds: the LRU     *)
(* holds one item per goal and no more than max_size, what is in it and    *)
(* never succeeded is being tried, the statistics add up, and cache_hit    *)
(* says what it can be relied on to say.                                   *)
(***************************************************************************)
EXTENDS RuntimeTopology, FiniteSetTheorems, SequenceTheorems, TLAPS

(* An OrderedDict: one item per goal. *)
Keyed(items) == \A i, j \in DOMAIN items : items[i].goal = items[j].goal => i = j
KeyedInv == Keyed(lru)

(* A request has a goal from its start, and a specification from the       *)
(* design on.                                                              *)
RequestInv ==
    \A r \in Requests :
        /\ pc[r] # "idle" => goal[r] \in Goals
        /\ pc[r] \in {"storing", "designed", "running", "recording", "recording_failure"}
              => spec[r] \in Proposals

(* Between hits_before and the result, the counter of hits moves exactly   *)
(* when another request is served.                                         *)
HitInv ==
    \A r \in Requests :
        /\ pc[r] = "idle" => ~cached[r] /\ ~overlapped[r]
        /\ pc[r] \in {"lookup", "designing", "storing"} =>
              /\ ~cached[r]
              /\ hitsBefore[r] <= stats.hits
              /\ overlapped[r] <=> hitsBefore[r] < stats.hits

HistoryTypes ==
    /\ cached \in [Requests -> BOOLEAN]
    /\ overlapped \in [Requests -> BOOLEAN]

(* Every failed design is answered with the fallback, when there is one. *)
FallbackInv == stats.fallback_returns = IF fallback = None THEN 0 ELSE stats.design_failures

IInv ==
    /\ TypeOK /\ HistoryTypes /\ KeyedInv /\ RequestInv /\ HitInv
    /\ StatsAddUp /\ FallbackInv /\ CacheHitExplained /\ UnprovenIsTried

-----------------------------------------------------------------------------
(* The LRU. *)

LEMMA PlaceFacts ==
  ASSUME NEW g, Holds(g)
  PROVE  Place(g) \in DOMAIN lru /\ lru[Place(g)].goal = g
BY DEF Holds, Place

(* Taking a goal out leaves the others, each once. *)
LEMMA WithoutFacts ==
  ASSUME lru \in Seq(Item), Keyed(lru), NEW g
  PROVE  /\ Without(g) \in Seq(Item)
         /\ Keyed(Without(g))
         /\ Len(Without(g)) <= Len(lru)
         /\ Holds(g) => Len(Without(g)) = Len(lru) - 1
         /\ \A i \in 1..Len(Without(g)) :
               /\ Without(g)[i].goal # g
               /\ \E j \in 1..Len(lru) : Without(g)[i] = lru[j]
<1> DEFINE n == Len(lru)
           k == Place(g)
           front == SubSeq(lru, 1, k - 1)
           back == SubSeq(lru, k + 1, n)
<1>1. n \in Nat /\ DOMAIN lru = 1..n /\ \A i \in 1..n : lru[i] \in Item
  BY LenProperties, ElementOfSeq
<1>2. CASE ~Holds(g)
  <2>1. Without(g) = lru
    BY <1>2 DEF Without
  <2>2. \A i \in 1..n : lru[i].goal # g /\ \E j \in 1..n : lru[i] = lru[j]
    BY <1>1, <1>2 DEF Holds
  <2>3. n <= n
    BY <1>1
  <2>. QED
    BY <1>2, <2>1, <2>2, <2>3, Zenon
<1>3. CASE Holds(g)
  <2>1. k \in 1..n /\ lru[k].goal = g
    BY <1>1, <1>3, PlaceFacts
  <2>2. \A i \in 1..n : lru[i].goal = g => i = k
    BY <1>1, <2>1 DEF Keyed
  <2>3. Without(g) = front \o back
    BY <1>3 DEF Without
  <2> HIDE DEF n, k
  <2>4. /\ front \in Seq(Item) /\ Len(front) = k - 1
        /\ \A i \in 1..(k - 1) : front[i] = lru[i]
    <3>1. \A i \in 1..(k - 1) : lru[i] \in Item
      BY <1>1, <2>1
    <3>2. k - 1 \in Int /\ 1 \in Int
      BY <1>1, <2>1
    <3>3. /\ front \in Seq(Item) /\ Len(front) = IF 1 <= k - 1 THEN (k - 1) - 1 + 1 ELSE 0
          /\ \A i \in 1..((k - 1) - 1 + 1) : front[i] = lru[1 + i - 1]
      BY <3>1, <3>2, SubSeqProperties
    <3> HIDE DEF front
    <3>. QED
      BY <1>1, <2>1, <3>3
  <2>5. /\ back \in Seq(Item) /\ Len(back) = n - k
        /\ \A i \in 1..(n - k) : back[i] = lru[i + k]
    <3>1. \A i \in (k + 1)..n : lru[i] \in Item
      BY <1>1, <2>1
    <3>2. k + 1 \in Int /\ n \in Int
      BY <1>1, <2>1
    <3>3. /\ back \in Seq(Item) /\ Len(back) = IF k + 1 <= n THEN n - (k + 1) + 1 ELSE 0
          /\ \A i \in 1..(n - (k + 1) + 1) : back[i] = lru[(k + 1) + i - 1]
      BY <3>1, <3>2, SubSeqProperties
    <3> HIDE DEF back
    <3>. QED
      BY <1>1, <2>1, <3>3
  <2> HIDE DEF front, back
  <2>6. /\ Without(g) \in Seq(Item) /\ Len(Without(g)) = Len(front) + Len(back)
        /\ \A i \in 1..(Len(front) + Len(back)) :
              Without(g)[i] = IF i <= Len(front) THEN front[i] ELSE back[i - Len(front)]
    BY <2>3, <2>4, <2>5, ConcatProperties
  <2>7. /\ Len(Without(g)) = n - 1
        /\ \A i \in 1..(n - 1) : Without(g)[i] = IF i < k THEN lru[i] ELSE lru[i + 1]
    BY <1>1, <2>1, <2>4, <2>5, <2>6
  <2>8. DOMAIN Without(g) = 1..(n - 1)
    BY <2>6, <2>7, LenProperties
  <2>9. Keyed(Without(g))
    <3> SUFFICES ASSUME NEW i \in 1..(n - 1), NEW j \in 1..(n - 1),
                        Without(g)[i].goal = Without(g)[j].goal
                 PROVE  i = j
      BY <2>8 DEF Keyed
    <3> DEFINE at(x) == IF x < k THEN x ELSE x + 1
    <3>1. at(i) \in 1..n /\ at(j) \in 1..n /\ lru[at(i)].goal = lru[at(j)].goal
      BY <1>1, <2>1, <2>7
    <3>2. at(i) = at(j)
      BY <1>1, <3>1 DEF Keyed
    <3>. QED
      BY <2>1, <3>2
  <2>10. ASSUME NEW i \in 1..(n - 1)
         PROVE  Without(g)[i].goal # g /\ \E j \in 1..n : Without(g)[i] = lru[j]
    <3> DEFINE j == IF i < k THEN i ELSE i + 1
    <3>1. j \in 1..n /\ j # k /\ Without(g)[i] = lru[j]
      BY <1>1, <2>1, <2>7
    <3>. QED
      BY <2>2, <3>1
  <2>11. n - 1 <= n
    BY <1>1
  <2>. QED
    BY <1>1, <2>6, <2>7, <2>9, <2>10, <2>11 DEF n
<1>. QED
  BY <1>2, <1>3

LEMMA AppendFacts ==
  ASSUME NEW items \in Seq(Item), Keyed(items), NEW x \in Item,
         \A i \in 1..Len(items) : items[i].goal # x.goal
  PROVE  /\ Append(items, x) \in Seq(Item) /\ Keyed(Append(items, x))
         /\ Len(Append(items, x)) = Len(items) + 1
         /\ \A i \in 1..(Len(items) + 1) :
               Append(items, x)[i] = IF i <= Len(items) THEN items[i] ELSE x
<1> DEFINE n == Len(items)
           longer == Append(items, x)
<1>1. n \in Nat /\ DOMAIN items = 1..n
  BY LenProperties
<1>2. /\ longer \in Seq(Item) /\ Len(longer) = n + 1
      /\ \A i \in 1..n : longer[i] = items[i]
      /\ longer[n + 1] = x
  BY AppendProperties
<1>3. DOMAIN longer = 1..(n + 1)
  BY <1>2, LenProperties
<1> HIDE DEF longer
<1>4. \A i \in 1..(n + 1) : longer[i] = IF i <= n THEN items[i] ELSE x
  BY <1>1, <1>2
<1>5. Keyed(longer)
  BY <1>1, <1>3, <1>4 DEF Keyed
<1>. QED
  BY <1>2, <1>4, <1>5 DEF longer

(* A success puts the item at the end and may drop the first one; a        *)
(* failure leaves nothing of the goal.                                     *)
LEMMA LruStored ==
  ASSUME lru \in Seq(Item), Keyed(lru), Len(lru) <= MaxSize,
         NEW g \in Goals, NEW s \in Proposals, NEW success, LruStore(g, s, success)
  PROVE  /\ lru' \in Seq(Item) /\ Keyed(lru') /\ Len(lru') <= MaxSize
         /\ \A i \in DOMAIN lru' :
               \/ success /\ lru'[i] = [goal |-> g, spec |-> s]
               \/ lru'[i].goal # g /\ \E j \in DOMAIN lru : lru'[i] = lru[j]
<1> DEFINE x == [goal |-> g, spec |-> s]
           rest == Without(g)
           items == Append(rest, x)
           n == Len(rest)
<1>1. x \in Item /\ x.goal = g
  BY DEF Item
<1>2. /\ rest \in Seq(Item) /\ Keyed(rest) /\ Len(rest) <= Len(lru)
      /\ \A i \in 1..Len(rest) : rest[i].goal # g /\ \E j \in 1..Len(lru) : rest[i] = lru[j]
  BY WithoutFacts
<1>3. DOMAIN lru = 1..Len(lru) /\ DOMAIN rest = 1..n /\ n \in Nat /\ Len(lru) \in Nat
  BY <1>2, LenProperties
<1> HIDE DEF rest, n
<1>4. /\ items \in Seq(Item) /\ Keyed(items) /\ Len(items) = n + 1
      /\ \A i \in 1..(n + 1) : items[i] = IF i <= n THEN rest[i] ELSE x
  BY <1>1, <1>2, AppendFacts DEF n
<1>5. lru' = IF ~success THEN rest ELSE IF Len(items) > MaxSize THEN Tail(items) ELSE items
  BY DEF LruStore, rest
<1> HIDE DEF x, items
<1>6. CASE ~success
  <2>1. lru' = rest /\ Len(rest) <= MaxSize
    BY <1>2, <1>3, <1>5, <1>6, SizeAssumption DEF n
  <2>. QED
    BY <1>2, <1>3, <2>1 DEF n
<1>7. CASE success /\ ~(Len(items) > MaxSize)
  <2>1. lru' = items /\ DOMAIN items = 1..(n + 1)
    BY <1>4, <1>5, <1>7, LenProperties
  <2>2. Len(lru') <= MaxSize
    BY <1>3, <1>4, <1>7, <2>1, SizeAssumption
  <2>3. ASSUME NEW i \in DOMAIN lru'
        PROVE  \/ success /\ lru'[i] = [goal |-> g, spec |-> s]
               \/ lru'[i].goal # g /\ \E j \in DOMAIN lru : lru'[i] = lru[j]
    <3>1. i \in 1..(n + 1) /\ lru'[i] = items[i]
      BY <2>1
    <3>2. lru'[i] = x \/ (i \in 1..n /\ lru'[i] = rest[i])
      BY <1>3, <1>4, <3>1
    <3>3. CASE lru'[i] = x
      BY <1>7, <3>3 DEF x
    <3>4. CASE i \in 1..n /\ lru'[i] = rest[i]
      <4>1. rest[i].goal # g /\ \E j \in 1..Len(lru) : rest[i] = lru[j]
        BY <1>2, <3>4 DEF n
      <4>. QED
        BY <1>3, <3>4, <4>1
    <3>. QED
      BY <3>2, <3>3, <3>4
  <2>4. lru' \in Seq(Item) /\ Keyed(lru')
    BY <1>4, <2>1
  <2>. QED
    BY <2>2, <2>3, <2>4
<1>8. CASE success /\ Len(items) > MaxSize
  <2>1. items # <<>>
    BY <1>3, <1>4, EmptySeq
  <2>2. /\ Tail(items) \in Seq(Item) /\ Len(Tail(items)) = n
        /\ \A i \in 1..n : Tail(items)[i] = items[i + 1]
    BY <1>3, <1>4, <2>1, HeadTailProperties
  <2>3. DOMAIN Tail(items) = 1..n /\ DOMAIN items = 1..(n + 1)
    BY <1>4, <2>2, LenProperties
  <2>4. lru' = Tail(items)
    BY <1>5, <1>8
  <2>5. Keyed(lru')
    <3> SUFFICES ASSUME NEW i \in 1..n, NEW j \in 1..n, lru'[i].goal = lru'[j].goal
                 PROVE  i = j
      BY <2>3, <2>4 DEF Keyed
    <3>1. i + 1 \in DOMAIN items /\ j + 1 \in DOMAIN items
          /\ items[i + 1].goal = items[j + 1].goal
      BY <1>3, <2>2, <2>3, <2>4
    <3>. QED
      BY <1>4, <3>1 DEF Keyed
  <2>6. Len(lru') <= MaxSize
    BY <1>2, <1>3, <2>2, <2>4, SizeAssumption DEF n
  <2>7. ASSUME NEW i \in 1..n
        PROVE  \/ success /\ lru'[i] = [goal |-> g, spec |-> s]
               \/ lru'[i].goal # g /\ \E j \in DOMAIN lru : lru'[i] = lru[j]
    <3>1. lru'[i] = items[i + 1] /\ i + 1 \in 1..(n + 1)
      BY <1>3, <2>2, <2>4
    <3>2. lru'[i] = x \/ (i + 1 \in 1..n /\ lru'[i] = rest[i + 1])
      BY <1>3, <1>4, <3>1
    <3>3. CASE lru'[i] = x
      BY <1>8, <3>3 DEF x
    <3>4. CASE i + 1 \in 1..n /\ lru'[i] = rest[i + 1]
      <4>1. rest[i + 1].goal # g /\ \E j \in 1..Len(lru) : rest[i + 1] = lru[j]
        BY <1>2, <3>4 DEF n
      <4>. QED
        BY <1>3, <3>4, <4>1
    <3>. QED
      BY <3>2, <3>3, <3>4
  <2>8. lru' \in Seq(Item) /\ DOMAIN lru' = 1..n
    BY <2>2, <2>3, <2>4
  <2>. QED
    BY <2>5, <2>6, <2>7, <2>8
<1>. QED
  BY <1>6, <1>7, <1>8

(* A lookup only moves an item. *)
LEMMA Touched ==
  ASSUME lru \in Seq(Item), Keyed(lru), Len(lru) <= MaxSize, NEW g, Touch(g)
  PROVE  /\ lru' \in Seq(Item) /\ Keyed(lru') /\ Len(lru') <= MaxSize
         /\ \A i \in DOMAIN lru' : \E j \in DOMAIN lru : lru'[i] = lru[j]
<1>1. CASE ~(cache = "lru" /\ Holds(g))
  BY <1>1 DEF Touch
<1>2. CASE cache = "lru" /\ Holds(g)
  <2> DEFINE x == lru[Place(g)]
             rest == Without(g)
             n == Len(rest)
  <2>1. Place(g) \in DOMAIN lru /\ x.goal = g
    BY <1>2, PlaceFacts
  <2>2. DOMAIN lru = 1..Len(lru) /\ Len(lru) \in Nat
    BY LenProperties
  <2>3. x \in Item
    BY <2>1, <2>2, ElementOfSeq
  <2>4. /\ rest \in Seq(Item) /\ Keyed(rest) /\ Len(rest) = Len(lru) - 1
        /\ \A i \in 1..Len(rest) : rest[i].goal # g /\ \E j \in 1..Len(lru) : rest[i] = lru[j]
    BY <1>2, WithoutFacts
  <2>5. n \in Nat
    BY <2>4, LenProperties
  <2>6. lru' = Append(rest, x)
    BY <1>2 DEF Touch
  <2> HIDE DEF x, rest
  <2>7. /\ lru' \in Seq(Item) /\ Keyed(lru') /\ Len(lru') = n + 1
        /\ \A i \in 1..(n + 1) : lru'[i] = IF i <= n THEN rest[i] ELSE x
    BY <2>1, <2>3, <2>4, <2>6, AppendFacts
  <2>8. DOMAIN lru' = 1..(n + 1)
    BY <2>7, LenProperties
  <2>9. ASSUME NEW i \in 1..(n + 1) PROVE \E j \in DOMAIN lru : lru'[i] = lru[j]
    <3>1. CASE i <= n
      <4>1. i \in 1..Len(rest) /\ lru'[i] = rest[i]
        BY <2>5, <2>7, <3>1
      <4>. QED
        BY <2>2, <2>4, <4>1
    <3>2. CASE ~(i <= n)
      BY <2>1, <2>5, <2>7, <3>2 DEF x
    <3>. QED
      BY <3>1, <3>2
  <2>10. Len(lru') <= MaxSize
    BY <2>2, <2>4, <2>5, <2>7, SizeAssumption
  <2>. QED
    BY <2>7, <2>8, <2>9, <2>10
<1>. QED
  BY <1>1, <1>2

(* What a lookup returns is a specification of the cache, or nothing. *)
LEMMA LookupFacts ==
  ASSUME lru \in Seq(Item), memory \in Seq(MemoryEntry), NEW g, NEW s \in Lookup(g), s # None
  PROVE  s \in Proposals
<1>1. DOMAIN lru = 1..Len(lru) /\ \A i \in 1..Len(lru) : lru[i] \in Item
  BY LenProperties, ElementOfSeq
<1>2. DOMAIN memory = 1..Len(memory) /\ \A i \in 1..Len(memory) : memory[i] \in MemoryEntry
  BY LenProperties, ElementOfSeq
<1>3. CASE s \in LruLookup(g)
  BY <1>1, <1>3, PlaceFacts DEF LruLookup, Item
<1>4. CASE s \in MemoryLookup(g)
  BY <1>2, <1>4 DEF MemoryLookup, MemoryEntry
<1>. QED
  BY <1>3, <1>4 DEF Lookup

LEMMA MemoryStored ==
  ASSUME memory \in Seq(MemoryEntry), NEW g \in Goals, NEW s \in Proposals, NEW success,
         MemoryStore(g, s, success)
  PROVE  memory' \in Seq(MemoryEntry)
<1>1. CASE UNCHANGED memory
  BY <1>1
<1>2. CASE memory' = Append(memory, [goal |-> g, spec |-> s, trust |-> Patience])
  <2>1. [goal |-> g, spec |-> s, trust |-> Patience] \in MemoryEntry
    BY SizeAssumption DEF MemoryEntry
  <2>. QED
    BY <1>2, <2>1, AppendProperties
<1>3. ASSUME NEW i \in DOMAIN memory,
             memory' = [memory EXCEPT ![i].trust = IF @ > 0 THEN @ - 1 ELSE 0]
      PROVE  memory' \in Seq(MemoryEntry)
  <2> DEFINE e == [memory[i] EXCEPT !.trust = IF @ > 0 THEN @ - 1 ELSE 0]
  <2>1. i \in 1..Len(memory) /\ memory[i] \in MemoryEntry
    BY LenProperties, ElementOfSeq
  <2>2. e \in MemoryEntry
    BY <2>1, SizeAssumption DEF MemoryEntry
  <2>3. memory' = [memory EXCEPT ![i] = e]
    BY <1>3
  <2>. QED
    BY <2>1, <2>2, <2>3, ExceptSeq
<1>. QED
  BY <1>1, <1>2, <1>3 DEF MemoryStore

-----------------------------------------------------------------------------
(* The statistics. *)

LEMMA CountFacts ==
  ASSUME stats \in _CacheStats, NEW F, Count(F)
  PROVE  /\ stats' \in _CacheStats
         /\ stats'.lookups = IF "lookups" \in F THEN stats.lookups + 1 ELSE stats.lookups
         /\ stats'.hits = IF "hits" \in F THEN stats.hits + 1 ELSE stats.hits
         /\ stats'.misses = IF "misses" \in F THEN stats.misses + 1 ELSE stats.misses
         /\ stats'.stale_invalidations = IF "stale_invalidations" \in F
                                         THEN stats.stale_invalidations + 1 ELSE stats.stale_invalidations
         /\ stats'.designs = IF "designs" \in F THEN stats.designs + 1 ELSE stats.designs
         /\ stats'.design_failures = IF "design_failures" \in F
                                     THEN stats.design_failures + 1 ELSE stats.design_failures
         /\ stats'.fallback_returns = IF "fallback_returns" \in F
                                      THEN stats.fallback_returns + 1 ELSE stats.fallback_returns
BY DEF Count, _CacheStats

(* A request that moves on leaves one place and enters another. *)
LEMMA Moved ==
  ASSUME TypeOK, NEW r \in Requests, NEW s, Goto(r, s), NEW p, s # pc[r]
  PROVE  /\ InFlight({p}) \in Nat
         /\ InFlight({p})' = InFlight({p}) + (IF s = p THEN 1 ELSE 0) - (IF pc[r] = p THEN 1 ELSE 0)
<1> DEFINE At == {q \in Requests : pc[q] \in {p}}
<1>1. InFlight({p}) = Cardinality(At) /\ InFlight({p})' = Cardinality(At')
  BY DEF InFlight
<1>2. IsFiniteSet(At) /\ Cardinality(At) \in Nat
  BY RequestsAssumption, FS_Subset, FS_CardinalityType
<1>3. pc' = [pc EXCEPT ![r] = s] /\ r \in DOMAIN pc /\ DOMAIN pc = Requests
  BY DEF TypeOK, Goto
<1>4. CASE s = p
  <2>1. At' = At \cup {r} /\ r \notin At
    BY <1>3, <1>4
  <2> HIDE DEF At
  <2>2. Cardinality(At') = Cardinality(At) + 1
    BY <1>2, <2>1, FS_AddElement
  <2>. QED
    BY <1>1, <1>2, <1>4, <2>2
<1>5. CASE pc[r] = p
  <2>1. At' = At \ {r} /\ r \in At
    BY <1>3, <1>5
  <2> HIDE DEF At
  <2>2. Cardinality(At') = Cardinality(At) - 1
    BY <1>2, <2>1, FS_RemoveElement
  <2>. QED
    BY <1>1, <1>2, <1>5, <2>2
<1>6. CASE s # p /\ pc[r] # p
  <2>1. At' = At
    BY <1>3, <1>6
  <2> HIDE DEF At
  <2>. QED
    BY <1>1, <1>2, <1>6, <2>1
<1>. QED
  BY <1>4, <1>5, <1>6

Looking == InFlight({"lookup"})
Designing == InFlight({"designing"})
GivenUp == InFlight({"cancelled"}) + InFlight({"escaped"})
Left == {"cancelled", "escaped"}

LEMMA MovedOn ==
  ASSUME TypeOK, NEW r \in Requests, NEW s, Goto(r, s), s # pc[r]
  PROVE  /\ Looking \in Nat /\ Designing \in Nat /\ GivenUp \in Nat
         /\ Looking' = Looking + (IF s = "lookup" THEN 1 ELSE 0) - (IF pc[r] = "lookup" THEN 1 ELSE 0)
         /\ Designing' = Designing + (IF s = "designing" THEN 1 ELSE 0)
                                    - (IF pc[r] = "designing" THEN 1 ELSE 0)
         /\ GivenUp' = GivenUp + (IF s \in Left THEN 1 ELSE 0) - (IF pc[r] \in Left THEN 1 ELSE 0)
<1>1. /\ InFlight({"cancelled"}) \in Nat /\ InFlight({"escaped"}) \in Nat
      /\ InFlight({"cancelled"})' = InFlight({"cancelled"}) + (IF s = "cancelled" THEN 1 ELSE 0)
                                      - (IF pc[r] = "cancelled" THEN 1 ELSE 0)
      /\ InFlight({"escaped"})' = InFlight({"escaped"}) + (IF s = "escaped" THEN 1 ELSE 0)
                                    - (IF pc[r] = "escaped" THEN 1 ELSE 0)
  BY Moved
<1>2. /\ GivenUp \in Nat
      /\ GivenUp' = GivenUp + (IF s \in Left THEN 1 ELSE 0) - (IF pc[r] \in Left THEN 1 ELSE 0)
  BY <1>1 DEF GivenUp, Left
<1>. QED
  BY <1>2, Moved DEF Looking, Designing

(* Every place and every counter, as far as the statistics go. *)
LEMMA StatsKept ==
  ASSUME TypeOK, StatsAddUp, FallbackInv, UNCHANGED <<stats, fallback>>,
         NEW r \in Requests, NEW s, Goto(r, s), s # pc[r],
         pc[r] \in {"lookup", "designing"} => s \in Left,
         pc[r] \notin Left, s \notin {"lookup", "designing"}
  PROVE  StatsAddUp' /\ FallbackInv'
<1>1. /\ Looking \in Nat /\ Designing \in Nat /\ GivenUp \in Nat
      /\ Looking' = Looking - (IF pc[r] = "lookup" THEN 1 ELSE 0)
      /\ Designing' = Designing - (IF pc[r] = "designing" THEN 1 ELSE 0)
      /\ GivenUp' = GivenUp + (IF s \in Left THEN 1 ELSE 0)
  BY MovedOn DEF Left
<1>2. stats \in _CacheStats
  BY DEF TypeOK
<1>. QED
  BY <1>1, <1>2 DEF StatsAddUp, FallbackInv, Looking, Designing, GivenUp, _CacheStats

LEMMA StatsStep ==
  ASSUME TypeOK, StatsAddUp, FallbackInv, Next
  PROVE  StatsAddUp' /\ FallbackInv'
<1>0. stats \in _CacheStats
  BY DEF TypeOK
<1>1. ASSUME NEW r \in Requests, Request(r) PROVE StatsAddUp' /\ FallbackInv'
  <2>1. pc[r] = "idle" /\ Goto(r, "lookup") /\ Count({"lookups"}) /\ fallback' = fallback
    BY <1>1 DEF Request, designer
  <2>2. /\ Looking \in Nat /\ Designing \in Nat /\ GivenUp \in Nat
        /\ Looking' = Looking + 1 /\ Designing' = Designing /\ GivenUp' = GivenUp
    BY <2>1, MovedOn DEF Left
  <2>3. /\ stats'.lookups = stats.lookups + 1 /\ stats'.hits = stats.hits
        /\ stats'.misses = stats.misses /\ stats'.stale_invalidations = stats.stale_invalidations
        /\ stats'.designs = stats.designs /\ stats'.design_failures = stats.design_failures
        /\ stats'.fallback_returns = stats.fallback_returns
    BY <1>0, <2>1, CountFacts
  <2>. QED
    BY <1>0, <2>1, <2>2, <2>3
    DEF StatsAddUp, FallbackInv, Looking, Designing, GivenUp, _CacheStats
<1>2. ASSUME NEW r \in Requests, LookedUp(r) PROVE StatsAddUp' /\ FallbackInv'
  <2>0. pc[r] = "lookup" /\ fallback' = fallback
    BY <1>2 DEF LookedUp, designer
  <2>1. CASE Goto(r, "designed") /\ Count({"hits"})
    <3>1. /\ Looking \in Nat /\ Designing \in Nat /\ GivenUp \in Nat
          /\ Looking' = Looking - 1 /\ Designing' = Designing /\ GivenUp' = GivenUp
      BY <2>0, <2>1, MovedOn DEF Left
    <3>2. /\ stats'.lookups = stats.lookups /\ stats'.hits = stats.hits + 1
          /\ stats'.misses = stats.misses /\ stats'.stale_invalidations = stats.stale_invalidations
          /\ stats'.designs = stats.designs /\ stats'.design_failures = stats.design_failures
          /\ stats'.fallback_returns = stats.fallback_returns
      BY <1>0, <2>1, CountFacts
    <3>. QED
      BY <1>0, <2>0, <3>1, <3>2
      DEF StatsAddUp, FallbackInv, Looking, Designing, GivenUp, _CacheStats
  <2>2. ASSUME NEW f \in {"misses", "stale_invalidations"}, Goto(r, "designing"), Count({f})
        PROVE  StatsAddUp' /\ FallbackInv'
    <3>1. /\ Looking \in Nat /\ Designing \in Nat /\ GivenUp \in Nat
          /\ Looking' = Looking - 1 /\ Designing' = Designing + 1 /\ GivenUp' = GivenUp
      BY <2>0, <2>2, MovedOn DEF Left
    <3>2. /\ stats'.lookups = stats.lookups /\ stats'.hits = stats.hits
          /\ stats'.misses + stats'.stale_invalidations
                = stats.misses + stats.stale_invalidations + 1
          /\ stats'.designs = stats.designs /\ stats'.design_failures = stats.design_failures
          /\ stats'.fallback_returns = stats.fallback_returns
          /\ stats' \in _CacheStats
      BY <1>0, <2>2, CountFacts DEF _CacheStats
    <3>. QED
      BY <1>0, <2>0, <3>1, <3>2
      DEF StatsAddUp, FallbackInv, Looking, Designing, GivenUp, _CacheStats
  <2>3. \/ Goto(r, "designed") /\ Count({"hits"})
        \/ \E f \in {"misses", "stale_invalidations"} : Goto(r, "designing") /\ Count({f})
    <3>1. PICK s \in Lookup(goal[r]) :
             IF s # None /\ (~verify \/ IsHydratable(s))
             THEN Count({"hits"}) /\ Goto(r, "designed")
             ELSE Count(IF s = None THEN {"misses"} ELSE {"stale_invalidations"}) /\ Goto(r, "designing")
      BY <1>2 DEF LookedUp, Designed
    <3>. QED
      BY <3>1
  <2>. QED
    BY <2>1, <2>2, <2>3
<1>3. ASSUME NEW r \in Requests, HandleDesignFailure(r) PROVE StatsAddUp' /\ FallbackInv'
  <2>0. pc[r] = "designing" /\ fallback' = fallback
    BY <1>3 DEF HandleDesignFailure, designer
  <2>1. \/ fallback # None /\ Goto(r, "designed") /\ Count({"design_failures", "fallback_returns"})
        \/ fallback = None /\ Goto(r, "raised") /\ Count({"design_failures"})
    BY <1>3 DEF HandleDesignFailure, Designed
  <2>2. /\ Looking \in Nat /\ Designing \in Nat /\ GivenUp \in Nat
        /\ Looking' = Looking /\ Designing' = Designing - 1 /\ GivenUp' = GivenUp
    BY <2>0, <2>1, MovedOn DEF Left
  <2>3. /\ stats'.lookups = stats.lookups /\ stats'.hits = stats.hits
        /\ stats'.misses = stats.misses /\ stats'.stale_invalidations = stats.stale_invalidations
        /\ stats'.designs = stats.designs /\ stats'.design_failures = stats.design_failures + 1
        /\ stats'.fallback_returns = IF fallback # None THEN stats.fallback_returns + 1
                                     ELSE stats.fallback_returns
    BY <1>0, <2>1, CountFacts
  <2>. QED
    BY <1>0, <2>0, <2>2, <2>3
    DEF StatsAddUp, FallbackInv, Looking, Designing, GivenUp, _CacheStats
<1>4. ASSUME NEW r \in Requests, DesignFresh(r) PROVE StatsAddUp' /\ FallbackInv'
  <2>1. pc[r] = "designing" /\ Goto(r, "storing") /\ Count({"designs"}) /\ fallback' = fallback
    BY <1>4 DEF DesignFresh, designer
  <2>2. /\ Looking \in Nat /\ Designing \in Nat /\ GivenUp \in Nat
        /\ Looking' = Looking /\ Designing' = Designing - 1 /\ GivenUp' = GivenUp
    BY <2>1, MovedOn DEF Left
  <2>3. /\ stats'.lookups = stats.lookups /\ stats'.hits = stats.hits
        /\ stats'.misses = stats.misses /\ stats'.stale_invalidations = stats.stale_invalidations
        /\ stats'.designs = stats.designs + 1 /\ stats'.design_failures = stats.design_failures
        /\ stats'.fallback_returns = stats.fallback_returns
    BY <1>0, <2>1, CountFacts
  <2>. QED
    BY <1>0, <2>1, <2>2, <2>3
    DEF StatsAddUp, FallbackInv, Looking, Designing, GivenUp, _CacheStats
<1>5. ASSUME NEW r \in Requests, StoreDesign(r) PROVE StatsAddUp' /\ FallbackInv'
  BY <1>5, StatsKept DEF StoreDesign, Designed, designer, Left
<1>6. ASSUME NEW r \in Requests, Hydrate(r) PROVE StatsAddUp' /\ FallbackInv'
  <2>1. \E s \in {"running", "recording_failure", "raised"} : Goto(r, s)
    BY <1>6 DEF Hydrate
  <2>. QED
    BY <1>6, <2>1, StatsKept DEF Hydrate, designer, Left
<1>7. ASSUME NEW r \in Requests, Ran(r) PROVE StatsAddUp' /\ FallbackInv'
  BY <1>7, StatsKept DEF Ran, designer, Left
<1>8. ASSUME NEW r \in Requests, Record(r) PROVE StatsAddUp' /\ FallbackInv'
  <2>1. \E s \in {"done", "raised"} : Goto(r, s)
    BY <1>8 DEF Record
  <2>. QED
    BY <1>8, <2>1, StatsKept DEF Record, designer, Left
<1>9. ASSUME NEW r \in Requests, Cancel(r) PROVE StatsAddUp' /\ FallbackInv'
  BY <1>9, StatsKept DEF Cancel, Ended, designer, Left
<1>10. ASSUME NEW s \in Specs, RegistryChanges(s) PROVE StatsAddUp' /\ FallbackInv'
  <2>1. stats' = stats /\ pc' = pc /\ fallback' = fallback
    BY <1>10 DEF RegistryChanges
  <2>. QED
    BY <2>1 DEF StatsAddUp, FallbackInv, InFlight
<1>11. ASSUME NEW r \in Requests, DesignEscapes(r) PROVE StatsAddUp' /\ FallbackInv'
  BY <1>11, StatsKept DEF DesignEscapes, designer, Left
<1>. QED
  BY <1>1, <1>2, <1>3, <1>4, <1>5, <1>6, <1>7, <1>8, <1>9, <1>10, <1>11 DEF Next

-----------------------------------------------------------------------------
(* Types, keys and requests. *)

TypesInv == TypeOK /\ HistoryTypes /\ KeyedInv /\ RequestInv

LEMMA StoredTypes ==
  ASSUME TypesInv, NEW r \in Requests, goal[r] \in Goals, spec[r] \in Proposals,
         NEW success, Store(goal[r], spec[r], success)
  PROVE  /\ lru' \in Seq(Item) /\ Len(lru') <= MaxSize /\ KeyedInv'
         /\ memory' \in Seq(MemoryEntry)
<1>1. lru \in Seq(Item) /\ Keyed(lru) /\ Len(lru) <= MaxSize /\ memory \in Seq(MemoryEntry)
  BY DEF TypesInv, TypeOK, KeyedInv
<1>2. lru' \in Seq(Item) /\ Len(lru') <= MaxSize /\ Keyed(lru')
  BY <1>1, LruStored DEF Store
<1>3. memory' \in Seq(MemoryEntry)
  BY <1>1, MemoryStored DEF Store
<1>. QED
  BY <1>2, <1>3 DEF KeyedInv

LEMMA TypesStep ==
  ASSUME TypesInv, Next
  PROVE  TypesInv'
<1> USE DEF TypesInv
<1>1. ASSUME NEW r \in Requests, Request(r) PROVE TypesInv'
  <2>1. stats' \in _CacheStats
    BY <1>1, CountFacts DEF Request, TypeOK
  <2>2. hitsBefore' \in [Requests -> Nat]
    BY <1>1 DEF Request, TypeOK, _CacheStats
  <2>3. goal' \in [Requests -> Goals \cup {None}] /\ pc' = [pc EXCEPT ![r] = "lookup"]
        /\ goal'[r] \in Goals /\ \A q \in Requests \ {r} : goal'[q] = goal[q]
    BY <1>1 DEF Request, Goto, TypeOK
  <2>4. TypeOK'
    BY <1>1, <2>1, <2>2, <2>3 DEF Request, designer, TypeOK
  <2>5. RequestInv'
    BY <1>1, <2>3 DEF Request, TypeOK, RequestInv
  <2>. QED
    BY <1>1, <2>4, <2>5 DEF Request, history, HistoryTypes, KeyedInv
<1>2. ASSUME NEW r \in Requests, LookedUp(r) PROVE TypesInv'
  <2>0. /\ pc[r] = "lookup" /\ goal[r] \in Goals
        /\ UNCHANGED <<designer, memory, request, proven, abandoned>>
    BY <1>2 DEF LookedUp, RequestInv
  <2>1. lru' \in Seq(Item) /\ Len(lru') <= MaxSize /\ Keyed(lru')
    BY <1>2, Touched DEF LookedUp, TypeOK, KeyedInv
  <2>2. PICK s \in Lookup(goal[r]) :
          \/ /\ s # None /\ Count({"hits"}) /\ spec' = [spec EXCEPT ![r] = s]
             /\ cacheHit' = [cacheHit EXCEPT ![r] = stats.hits + 1 > hitsBefore[r]]
             /\ Goto(r, "designed")
             /\ cached' = [cached EXCEPT ![r] = TRUE]
             /\ overlapped' = [q \in Requests |->
                                  overlapped[q] \/ (q # r /\ pc[q] \in {"lookup", "designing", "storing"})]
          \/ /\ \E F : Count(F)
             /\ Goto(r, "designing")
             /\ UNCHANGED <<spec, cacheHit, cached, overlapped>>
    BY <1>2 DEF LookedUp, Designed
  <2>3. s # None => s \in Proposals
    BY LookupFacts DEF TypeOK
  <2>4. stats' \in _CacheStats
    BY <2>2, CountFacts DEF TypeOK
  <2>5. HistoryTypes'
    BY <2>2 DEF HistoryTypes
  <2>6. TypeOK'
    <3> DEFINE hit == stats.hits + 1 > hitsBefore[r]
    <3>0. hit \in BOOLEAN /\ (cacheHit' = [cacheHit EXCEPT ![r] = hit] \/ cacheHit' = cacheHit)
      BY <2>2
    <3> HIDE DEF hit
    <3>1. cacheHit' \in [Requests -> BOOLEAN]
      BY <3>0 DEF TypeOK
    <3>2. spec' \in [Requests -> Proposals \cup {None}]
      BY <2>2, <2>3 DEF TypeOK
    <3>3. pc' \in [Requests -> {"idle", "lookup", "designing", "storing", "designed", "running",
                               "recording", "recording_failure"} \cup Ended]
      BY <2>2 DEF TypeOK, Goto
    <3>. QED
      BY <2>0, <2>1, <2>4, <3>1, <3>2, <3>3 DEF TypeOK, designer, request
  <2>7. RequestInv'
    BY <2>0, <2>2, <2>3 DEF RequestInv, TypeOK, request, Goto
  <2>. QED
    BY <2>1, <2>5, <2>6, <2>7 DEF KeyedInv
<1>3. ASSUME NEW r \in Requests, HandleDesignFailure(r) PROVE TypesInv'
  <2>0. /\ pc[r] = "designing" /\ goal[r] \in Goals
        /\ UNCHANGED <<designer, lru, memory, request, history>>
    BY <1>3 DEF HandleDesignFailure, RequestInv
  <2>1. \/ /\ fallback # None /\ spec' = [spec EXCEPT ![r] = fallback]
           /\ cacheHit' = [cacheHit EXCEPT ![r] = stats.hits > hitsBefore[r]]
           /\ Goto(r, "designed")
        \/ Goto(r, "raised") /\ UNCHANGED <<spec, cacheHit>>
    BY <1>3 DEF HandleDesignFailure, Designed
  <2>2. fallback # None => fallback \in Proposals
    BY SettingsAssumption DEF TypeOK, Proposals
  <2>3. stats' \in _CacheStats
    BY <1>3, CountFacts DEF HandleDesignFailure, TypeOK
  <2>4. TypeOK'
    <3> DEFINE hit == stats.hits > hitsBefore[r]
    <3>0. hit \in BOOLEAN /\ (cacheHit' = [cacheHit EXCEPT ![r] = hit] \/ cacheHit' = cacheHit)
      BY <2>1
    <3> HIDE DEF hit
    <3>1. spec' \in [Requests -> Proposals \cup {None}] /\ cacheHit' \in [Requests -> BOOLEAN]
      <4>1. spec' \in [Requests -> Proposals \cup {None}]
        BY <2>1, <2>2 DEF TypeOK
      <4>2. cacheHit' \in [Requests -> BOOLEAN]
        BY <3>0 DEF TypeOK
      <4>. QED
        BY <4>1, <4>2
    <3>2. pc' \in [Requests -> {"idle", "lookup", "designing", "storing", "designed", "running",
                               "recording", "recording_failure"} \cup Ended]
      BY <2>1 DEF TypeOK, Goto, Ended
    <3>. QED
      BY <2>0, <2>3, <3>1, <3>2 DEF TypeOK, designer, request
  <2>5. RequestInv'
    BY <2>0, <2>1, <2>2 DEF RequestInv, TypeOK, request, Goto
  <2>. QED
    BY <2>0, <2>4, <2>5 DEF KeyedInv, HistoryTypes, history
<1>4. ASSUME NEW r \in Requests, DesignFresh(r) PROVE TypesInv'
  <2>1. stats' \in _CacheStats
    BY <1>4, CountFacts DEF DesignFresh, TypeOK
  <2>2. TypeOK'
    <3>1. spec' \in [Requests -> Proposals \cup {None}]
      BY <1>4 DEF DesignFresh, TypeOK, Proposals
    <3>2. pc' \in [Requests -> {"idle", "lookup", "designing", "storing", "designed", "running",
                               "recording", "recording_failure"} \cup Ended]
      BY <1>4 DEF DesignFresh, TypeOK, Goto
    <3>. QED
      BY <1>4, <2>1, <3>1, <3>2 DEF DesignFresh, TypeOK, designer, request
  <2>3. RequestInv'
    BY <1>4 DEF DesignFresh, RequestInv, TypeOK, request, Goto, Proposals
  <2>. QED
    BY <1>4, <2>2, <2>3 DEF DesignFresh, KeyedInv, HistoryTypes, history
<1>5. ASSUME NEW r \in Requests, StoreDesign(r) PROVE TypesInv'
  <2>0. /\ pc[r] = "storing" /\ goal[r] \in Goals /\ spec[r] \in Proposals
        /\ UNCHANGED <<designer, stats, request, history>>
    BY <1>5 DEF StoreDesign, RequestInv
  <2>1. /\ lru' \in Seq(Item) /\ Len(lru') <= MaxSize /\ KeyedInv'
        /\ memory' \in Seq(MemoryEntry)
    BY <1>5, <2>0, StoredTypes DEF StoreDesign
  <2>2. /\ spec' = [spec EXCEPT ![r] = spec[r]] /\ Goto(r, "designed")
        /\ cacheHit' = [cacheHit EXCEPT ![r] = stats.hits > hitsBefore[r]]
    BY <1>5 DEF StoreDesign, Designed
  <2>3. TypeOK'
    BY <2>0, <2>1, <2>2 DEF TypeOK, designer, request, Goto
  <2>4. RequestInv'
    BY <2>0, <2>2 DEF RequestInv, TypeOK, request, Goto
  <2>. QED
    BY <2>0, <2>1, <2>3, <2>4 DEF HistoryTypes, history
<1>6. ASSUME NEW r \in Requests, Hydrate(r) PROVE TypesInv'
  <2>1. TypeOK'
    BY <1>6 DEF Hydrate, TypeOK, designer, request, Goto, Ended
  <2>2. RequestInv'
    BY <1>6 DEF Hydrate, RequestInv, TypeOK, request, Goto
  <2>. QED
    BY <1>6, <2>1, <2>2 DEF Hydrate, KeyedInv, HistoryTypes
<1>7. ASSUME NEW r \in Requests, Ran(r) PROVE TypesInv'
  <2>1. TypeOK'
    BY <1>7 DEF Ran, TypeOK, designer, request, Goto
  <2>2. RequestInv'
    BY <1>7 DEF Ran, RequestInv, TypeOK, request, Goto
  <2>. QED
    BY <1>7, <2>1, <2>2 DEF Ran, KeyedInv, HistoryTypes, history
<1>8. ASSUME NEW r \in Requests, Record(r) PROVE TypesInv'
  <2>0. /\ goal[r] \in Goals /\ spec[r] \in Proposals
        /\ pc[r] \in {"recording", "recording_failure"}
        /\ UNCHANGED <<designer, stats, spec, cacheHit, request, cached, overlapped, abandoned>>
        /\ \E s \in {"done", "raised"} : Goto(r, s)
    BY <1>8 DEF Record, RequestInv
  <2>1. /\ lru' \in Seq(Item) /\ Len(lru') <= MaxSize /\ KeyedInv'
        /\ memory' \in Seq(MemoryEntry)
    BY <1>8, <2>0, StoredTypes DEF Record
  <2>2. TypeOK'
    BY <2>0, <2>1 DEF TypeOK, designer, request, Goto, Ended
  <2>3. RequestInv'
    BY <2>0 DEF RequestInv, TypeOK, request, Goto
  <2>. QED
    BY <2>0, <2>1, <2>2, <2>3 DEF HistoryTypes
<1>9. ASSUME NEW r \in Requests, Cancel(r) PROVE TypesInv'
  <2>1. TypeOK'
    BY <1>9 DEF Cancel, TypeOK, designer, request, Goto, Ended
  <2>2. RequestInv'
    BY <1>9 DEF Cancel, RequestInv, TypeOK, request, Goto
  <2>. QED
    BY <1>9, <2>1, <2>2 DEF Cancel, KeyedInv, HistoryTypes
<1>10. ASSUME NEW s \in Specs, RegistryChanges(s) PROVE TypesInv'
  <2>1. hydratable' \subseteq Proposals
    BY <1>10 DEF RegistryChanges, TypeOK, Proposals
  <2>2. /\ UNCHANGED <<cache, verify, fallback, lru, memory, stats, pc, spec, cacheHit>>
        /\ UNCHANGED <<goal, entry, hitsBefore, cached, overlapped>>
    BY <1>10 DEF RegistryChanges, request, history
  <2>. QED
    BY <2>1, <2>2 DEF TypeOK, KeyedInv, RequestInv, HistoryTypes
<1>11. ASSUME NEW r \in Requests, DesignEscapes(r) PROVE TypesInv'
  <2>1. /\ pc[r] \in {"lookup", "designing"} /\ Goto(r, "escaped")
        /\ UNCHANGED <<designer, memory, stats, spec, cacheHit, request, history>>
        /\ Touch(goal[r]) \/ lru' = lru
    BY <1>11 DEF DesignEscapes
  <2>2. lru' \in Seq(Item) /\ Len(lru') <= MaxSize /\ KeyedInv'
    BY <2>1, Touched DEF TypeOK, KeyedInv
  <2>3. TypeOK'
    BY <2>1, <2>2 DEF TypeOK, designer, request, Goto, Ended
  <2>4. RequestInv'
    BY <2>1 DEF RequestInv, TypeOK, request, Goto
  <2>. QED
    BY <2>1, <2>2, <2>3, <2>4 DEF HistoryTypes, history
<1>. QED
  BY <1>1, <1>2, <1>3, <1>4, <1>5, <1>6, <1>7, <1>8, <1>9, <1>10, <1>11 DEF Next

-----------------------------------------------------------------------------
(* The reported hit.  Only a request served from the cache moves the       *)
(* counter; for every other request in flight that is an overlap.          *)
LEMMA HitStep ==
  ASSUME TypesInv, HitInv, CacheHitExplained, Next
  PROVE  HitInv' /\ CacheHitExplained'
<1> USE DEF TypesInv
<1>0. stats.hits \in Nat /\ \A q \in Requests : hitsBefore[q] \in Nat
  BY DEF TypeOK, _CacheStats
<1>1. ASSUME NEW r \in Requests, Request(r) PROVE HitInv' /\ CacheHitExplained'
  <2>1. stats'.hits = stats.hits
    BY <1>1, CountFacts DEF Request, TypeOK
  <2>2. /\ pc[r] = "idle" /\ pc' = [pc EXCEPT ![r] = "lookup"]
        /\ hitsBefore' = [hitsBefore EXCEPT ![r] = stats.hits]
        /\ UNCHANGED <<cacheHit, cached, overlapped>>
    BY <1>1 DEF Request, Goto, history
  <2>. QED
    BY <1>0, <2>1, <2>2 DEF HitInv, CacheHitExplained, TypeOK
<1>2. ASSUME NEW r \in Requests, LookedUp(r) PROVE HitInv' /\ CacheHitExplained'
  <2>0. pc[r] = "lookup" /\ hitsBefore' = hitsBefore
    BY <1>2 DEF LookedUp, request
  <2>1. CASE /\ Count({"hits"}) /\ Goto(r, "designed")
             /\ cacheHit' = [cacheHit EXCEPT ![r] = stats.hits + 1 > hitsBefore[r]]
             /\ cached' = [cached EXCEPT ![r] = TRUE]
             /\ overlapped' = [q \in Requests |->
                                 overlapped[q] \/ (q # r /\ pc[q] \in {"lookup", "designing", "storing"})]
    <3>1. stats'.hits = stats.hits + 1
      BY <2>1, CountFacts DEF TypeOK
    <3>2. pc'[r] = "designed" /\ cached'[r] /\ cacheHit'[r]
      <4> DEFINE hit == stats.hits + 1 > hitsBefore[r]
      <4>1. hit
        BY <1>0, <2>0 DEF HitInv
      <4>2. cacheHit' = [cacheHit EXCEPT ![r] = hit]
        BY <2>1
      <4> HIDE DEF hit
      <4>3. cacheHit'[r]
        BY <4>1, <4>2 DEF TypeOK
      <4>. QED
        BY <2>1, <4>3 DEF Goto, TypeOK, HistoryTypes
    <3>3. ASSUME NEW q \in Requests, q # r
          PROVE  /\ pc'[q] = pc[q] /\ cached'[q] = cached[q] /\ cacheHit'[q] = cacheHit[q]
                 /\ overlapped'[q] <=> overlapped[q] \/ pc[q] \in {"lookup", "designing", "storing"}
      BY <2>1, <3>3 DEF Goto, TypeOK, HistoryTypes
    <3>. QED
      BY <1>0, <2>0, <3>1, <3>2, <3>3 DEF HitInv, CacheHitExplained
  <2>2. CASE /\ \E F : Count(F) /\ "hits" \notin F
             /\ Goto(r, "designing")
             /\ UNCHANGED <<cacheHit, cached, overlapped>>
    <3>1. stats'.hits = stats.hits
      BY <2>2, CountFacts DEF TypeOK
    <3>. QED
      BY <1>0, <2>0, <2>2, <3>1 DEF Goto, HitInv, CacheHitExplained, TypeOK
  <2>. QED
    BY <1>2, <2>1, <2>2 DEF LookedUp, Designed
<1>3. ASSUME NEW r \in Requests, pc[r] \in {"designing", "storing"}, Goto(r, "designed"),
             stats'.hits = stats.hits,
             cacheHit' = [cacheHit EXCEPT ![r] = stats.hits > hitsBefore[r]],
             UNCHANGED <<hitsBefore, cached, overlapped>>
      PROVE  HitInv' /\ CacheHitExplained'
  BY <1>0, <1>3 DEF Goto, HitInv, CacheHitExplained, TypeOK, HistoryTypes
<1>4. ASSUME NEW r \in Requests, NEW s, Goto(r, s), stats'.hits = stats.hits,
             UNCHANGED <<cacheHit, hitsBefore, cached, overlapped>>,
             s \in {"storing", "raised", "cancelled", "escaped"}
             \/ (s \in {"running", "recording", "recording_failure", "done"}
                  /\ pc[r] \in {"designed", "running", "recording", "recording_failure"}),
             s = "storing" => pc[r] = "designing"
      PROVE  HitInv' /\ CacheHitExplained'
  BY <1>0, <1>4 DEF Goto, HitInv, CacheHitExplained, TypeOK
<1>5. ASSUME NEW r \in Requests, HandleDesignFailure(r) PROVE HitInv' /\ CacheHitExplained'
  <2>1. stats'.hits = stats.hits
    BY <1>5, CountFacts DEF HandleDesignFailure, TypeOK
  <2>. QED
    BY <1>3, <1>4, <1>5, <2>1 DEF HandleDesignFailure, Designed, request, history
<1>6. ASSUME NEW r \in Requests, DesignFresh(r) PROVE HitInv' /\ CacheHitExplained'
  <2>1. stats'.hits = stats.hits
    BY <1>6, CountFacts DEF DesignFresh, TypeOK
  <2>. QED
    BY <1>4, <1>6, <2>1 DEF DesignFresh, request, history
<1>7. ASSUME NEW r \in Requests, StoreDesign(r) PROVE HitInv' /\ CacheHitExplained'
  BY <1>3, <1>7 DEF StoreDesign, Designed, request, history
<1>8. ASSUME NEW r \in Requests, Hydrate(r) \/ Ran(r) \/ Record(r) \/ Cancel(r)
      PROVE  HitInv' /\ CacheHitExplained'
  <2>1. UNCHANGED <<stats, cacheHit, hitsBefore, cached, overlapped>>
    BY <1>8 DEF Hydrate, Ran, Record, Cancel, request, history
  <2>2. \E s : /\ Goto(r, s)
              /\ \/ s \in {"raised", "cancelled"}
                 \/ /\ s \in {"running", "recording", "recording_failure", "done"}
                    /\ pc[r] \in {"designed", "running", "recording", "recording_failure"}
    BY <1>8 DEF Hydrate, Ran, Record, Cancel
  <2>. QED
    BY <1>4, <2>1, <2>2
<1>9. ASSUME NEW s \in Specs, RegistryChanges(s) PROVE HitInv' /\ CacheHitExplained'
  <2>1. UNCHANGED <<stats, pc, cacheHit, hitsBefore, cached, overlapped>>
    BY <1>9 DEF RegistryChanges, request, history
  <2>. QED
    BY <2>1 DEF HitInv, CacheHitExplained
<1>10. ASSUME NEW r \in Requests, DesignEscapes(r) PROVE HitInv' /\ CacheHitExplained'
  BY <1>4, <1>10 DEF DesignEscapes, request, history
<1>. QED
  BY <1>1, <1>2, <1>5, <1>6, <1>7, <1>8, <1>9, <1>10 DEF Next

-----------------------------------------------------------------------------
(* What the LRU holds is tried. *)

Tried(item) ==
    \/ <<item.goal, item.spec>> \in proven \cup abandoned
    \/ \E r \in Requests : /\ goal[r] = item.goal /\ spec[r] = item.spec
                           /\ pc[r] \in {"designed", "running", "recording", "recording_failure"}

(* Nothing new in the cache, and the request that moves keeps its          *)
(* specification in use, or had none in use, or its pair is recorded.      *)
LEMMA TriedKept ==
  ASSUME TypeOK, UnprovenIsTried, UNCHANGED cache,
         \A i \in DOMAIN lru' : \E j \in DOMAIN lru : lru'[i] = lru[j],
         proven \subseteq proven', abandoned \subseteq abandoned',
         NEW r \in Requests, NEW s, Goto(r, s),
         \A q \in Requests \ {r} : goal'[q] = goal[q] /\ spec'[q] = spec[q],
         \/ pc[r] \notin {"designed", "running", "recording", "recording_failure"}
         \/ /\ goal'[r] = goal[r] /\ spec'[r] = spec[r]
            /\ s \in {"designed", "running", "recording", "recording_failure"}
         \/ <<goal[r], spec[r]>> \in proven' \cup abandoned'
  PROVE  UnprovenIsTried'
<1> SUFFICES ASSUME cache = "lru", NEW i \in DOMAIN lru', NEW x, x = lru'[i] PROVE Tried(x)'
  BY DEF UnprovenIsTried, Tried
<1>1. PICK j \in DOMAIN lru : x = lru[j]
  OBVIOUS
<1>2. Tried(x)
  BY <1>1 DEF UnprovenIsTried, Tried
<1>3. CASE <<x.goal, x.spec>> \in proven \cup abandoned
  BY <1>1, <1>3 DEF Tried
<1>4. ASSUME NEW q \in Requests, goal[q] = x.goal, spec[q] = x.spec,
             pc[q] \in {"designed", "running", "recording", "recording_failure"}
      PROVE  Tried(x)'
  <2>1. CASE q # r
    <3>1. goal'[q] = goal[q] /\ spec'[q] = spec[q] /\ pc'[q] = pc[q]
      BY <2>1 DEF Goto, TypeOK
    <3>. QED
      BY <1>1, <1>4, <3>1 DEF Tried
  <2>2. CASE q = r
    BY <1>1, <1>4, <2>2 DEF Tried, Goto, TypeOK
  <2>. QED
    BY <2>1, <2>2
<1>. QED
  BY <1>2, <1>3, <1>4 DEF Tried

(* A store for r's goal: as a success it caches r's specification, which   *)
(* is in use or recorded after the step; as a failure it leaves no item of *)
(* that goal.                                                              *)
LEMMA TriedStored ==
  ASSUME TypesInv, UnprovenIsTried, UNCHANGED <<cache, goal, abandoned>>,
         proven \subseteq proven',
         NEW r \in Requests, goal[r] \in Goals, spec[r] \in Proposals,
         NEW success, Store(goal[r], spec[r], success),
         spec' = spec, NEW s, Goto(r, s),
         success => s = "designed" \/ <<goal[r], spec[r]>> \in proven'
  PROVE  UnprovenIsTried'
<1> SUFFICES ASSUME cache = "lru", NEW i \in DOMAIN lru', NEW x, x = lru'[i] PROVE Tried(x)'
  BY DEF UnprovenIsTried, Tried
<1>1. \/ success /\ x = [goal |-> goal[r], spec |-> spec[r]]
      \/ x.goal # goal[r] /\ \E j \in DOMAIN lru : x = lru[j]
  <2>1. LruStore(goal[r], spec[r], success)
    BY DEF Store
  <2>2. lru \in Seq(Item) /\ Keyed(lru) /\ Len(lru) <= MaxSize
    BY DEF TypesInv, TypeOK, KeyedInv
  <2>3. \/ success /\ lru'[i] = [goal |-> goal[r], spec |-> spec[r]]
        \/ lru'[i].goal # goal[r] /\ \E j \in DOMAIN lru : lru'[i] = lru[j]
    BY <2>1, <2>2, LruStored
  <2>4. x = lru'[i]
    OBVIOUS
  <2>. QED
    BY <2>3, <2>4, Zenon
<1>2. CASE success /\ x = [goal |-> goal[r], spec |-> spec[r]]
  BY <1>2 DEF Tried, Goto, TypesInv, TypeOK
<1>3. CASE x.goal # goal[r] /\ \E j \in DOMAIN lru : x = lru[j]
  <2>1. Tried(x)
    BY <1>3 DEF UnprovenIsTried, Tried
  <2>2. \A q \in Requests \ {r} : pc'[q] = pc[q]
    BY DEF Goto, TypesInv, TypeOK
  <2>. QED
    BY <1>3, <2>1, <2>2 DEF Tried
<1>. QED
  BY <1>1, <1>2, <1>3

LEMMA TriedStep ==
  ASSUME TypesInv, UnprovenIsTried, Next
  PROVE  UnprovenIsTried'
<1>0. TypeOK
  BY DEF TypesInv
<1>1. ASSUME NEW r \in Requests, Request(r) PROVE UnprovenIsTried'
  <2>1. /\ pc[r] = "idle" /\ Goto(r, "lookup") /\ UNCHANGED <<cache, lru, spec, proven, abandoned>>
        /\ \A q \in Requests \ {r} : goal'[q] = goal[q]
    BY <1>0, <1>1 DEF Request, designer, history, TypeOK
  <2>. QED
    BY <1>0, <2>1, TriedKept
<1>2. ASSUME NEW r \in Requests, LookedUp(r) PROVE UnprovenIsTried'
  <2>1. /\ pc[r] = "lookup" /\ UNCHANGED <<cache, goal, proven, abandoned>>
        /\ \E s : Goto(r, s)
        /\ \A q \in Requests \ {r} : spec'[q] = spec[q]
    BY <1>0, <1>2 DEF LookedUp, Designed, designer, request, TypeOK
  <2>2. \A i \in DOMAIN lru' : \E j \in DOMAIN lru : lru'[i] = lru[j]
    BY <1>2, Touched DEF LookedUp, TypesInv, TypeOK, KeyedInv
  <2>. QED
    BY <1>0, <2>1, <2>2, TriedKept
<1>3. ASSUME NEW r \in Requests, HandleDesignFailure(r) \/ DesignFresh(r) PROVE UnprovenIsTried'
  <2>1. /\ pc[r] = "designing" /\ UNCHANGED <<cache, lru, goal, proven, abandoned>>
        /\ \E s : Goto(r, s)
        /\ \A q \in Requests \ {r} : spec'[q] = spec[q]
    BY <1>0, <1>3 DEF HandleDesignFailure, DesignFresh, Designed, designer, request, history, TypeOK
  <2>. QED
    BY <1>0, <2>1, TriedKept
<1>4. ASSUME NEW r \in Requests, StoreDesign(r) PROVE UnprovenIsTried'
  <2>1. /\ pc[r] = "storing" /\ UNCHANGED <<cache, goal, proven, abandoned>> /\ Goto(r, "designed")
        /\ spec' = [spec EXCEPT ![r] = spec[r]] /\ Store(goal[r], spec[r], TRUE)
    BY <1>4 DEF StoreDesign, Designed, designer, request, history
  <2>2. spec' = spec
    BY <1>0, <2>1 DEF TypeOK
  <2>3. goal[r] \in Goals /\ spec[r] \in Proposals
    BY <2>1 DEF TypesInv, RequestInv
  <2>. QED
    BY <2>1, <2>2, <2>3, TriedStored
<1>5. ASSUME NEW r \in Requests, Hydrate(r) PROVE UnprovenIsTried'
  <2>1. /\ UNCHANGED <<cache, lru, goal, spec, proven>> /\ abandoned \subseteq abandoned'
        /\ \E s : /\ Goto(r, s)
                 /\ \/ s \in {"running", "recording_failure"}
                    \/ <<goal[r], spec[r]>> \in abandoned'
    <3>1. CASE IsHydratable(spec[r])
      BY <1>5, <3>1 DEF Hydrate, designer, request
    <3>2. CASE ~IsHydratable(spec[r]) /\ entry[r] = "execute"
      BY <1>5, <3>2 DEF Hydrate, designer, request
    <3>3. CASE ~IsHydratable(spec[r]) /\ entry[r] # "execute"
      <4>1. entry[r] = "design_and_run"
        BY <3>3 DEF TypesInv, TypeOK
      <4>. QED
        BY <1>5, <3>3, <4>1 DEF Hydrate, designer, request
    <3>. QED
      BY <3>1, <3>2, <3>3
  <2>. QED
    BY <1>0, <2>1, TriedKept
<1>6. ASSUME NEW r \in Requests, Ran(r) PROVE UnprovenIsTried'
  <2>1. /\ UNCHANGED <<cache, lru, goal, spec, proven, abandoned>>
        /\ \E s \in {"recording", "recording_failure"} : Goto(r, s)
    BY <1>6 DEF Ran, designer, request, history
  <2>. QED
    BY <1>0, <2>1, TriedKept
<1>7. ASSUME NEW r \in Requests, Record(r) PROVE UnprovenIsTried'
  <2>1. /\ UNCHANGED <<cache, goal, spec, abandoned>> /\ proven \subseteq proven'
        /\ Store(goal[r], spec[r], pc[r] = "recording")
        /\ pc[r] = "recording" => <<goal[r], spec[r]>> \in proven'
        /\ \E s : Goto(r, s)
    BY <1>7 DEF Record, designer, request
  <2>2. goal[r] \in Goals /\ spec[r] \in Proposals
    BY <1>7 DEF Record, TypesInv, RequestInv
  <2>. QED
    BY <2>1, <2>2, TriedStored
<1>8. ASSUME NEW r \in Requests, Cancel(r) PROVE UnprovenIsTried'
  <2>1. /\ UNCHANGED <<cache, lru, goal, spec, proven>> /\ abandoned \subseteq abandoned'
        /\ <<goal[r], spec[r]>> \in abandoned' /\ Goto(r, "cancelled")
    BY <1>8 DEF Cancel, designer, request
  <2>. QED
    BY <1>0, <2>1, TriedKept
<1>9. ASSUME NEW s \in Specs, RegistryChanges(s) PROVE UnprovenIsTried'
  <2>1. UNCHANGED <<cache, lru, pc, goal, spec, proven, abandoned>>
    BY <1>9 DEF RegistryChanges, request, history
  <2>. QED
    BY <2>1 DEF UnprovenIsTried
<1>10. ASSUME NEW r \in Requests, DesignEscapes(r) PROVE UnprovenIsTried'
  <2>1. /\ pc[r] \in {"lookup", "designing"} /\ Goto(r, "escaped")
        /\ UNCHANGED <<cache, goal, spec, proven, abandoned>>
        /\ Touch(goal[r]) \/ lru' = lru
    BY <1>10 DEF DesignEscapes, designer, request, history
  <2>2. \A i \in DOMAIN lru' : \E j \in DOMAIN lru : lru'[i] = lru[j]
    BY <2>1, Touched DEF TypesInv, TypeOK, KeyedInv
  <2>. QED
    BY <1>0, <2>1, <2>2, TriedKept
<1>. QED
  BY <1>1, <1>2, <1>3, <1>4, <1>5, <1>6, <1>7, <1>8, <1>9, <1>10 DEF Next

-----------------------------------------------------------------------------
LEMMA InitIInv == Init => IInv
<1> SUFFICES ASSUME Init PROVE IInv
  OBVIOUS
<1>1. TypeOK
  <2>1. lru \in Seq(Item) /\ Len(lru) <= MaxSize /\ memory \in Seq(MemoryEntry)
    BY EmptySeq, SizeAssumption DEF Init
  <2>2. [cache |-> cache, verify |-> verify, fallback |-> fallback] \in Settings
    BY SettingsAssumption DEF Init
  <2>. QED
    BY <2>1, <2>2 DEF Init, TypeOK, _CacheStats
<1>2. KeyedInv /\ UnprovenIsTried
  BY DEF Init, KeyedInv, Keyed, UnprovenIsTried
<1>3. HistoryTypes /\ RequestInv /\ HitInv /\ CacheHitExplained /\ FallbackInv
  BY DEF Init, HistoryTypes, RequestInv, HitInv, CacheHitExplained, FallbackInv
<1>4. StatsAddUp
  <2>1. \A p \in {"lookup", "designing", "cancelled", "escaped"} : InFlight({p}) = 0
    <3> SUFFICES ASSUME NEW p \in {"lookup", "designing", "cancelled", "escaped"} PROVE InFlight({p}) = 0
      OBVIOUS
    <3>1. {r \in Requests : pc[r] \in {p}} = {}
      BY DEF Init
    <3>. QED
      BY <3>1, FS_EmptySet DEF InFlight
  <2>. QED
    BY <2>1 DEF Init, StatsAddUp
<1>. QED
  BY <1>1, <1>2, <1>3, <1>4 DEF IInv

LEMMA NextIInv == IInv /\ [Next]_vars => IInv'
<1> SUFFICES ASSUME IInv, [Next]_vars PROVE IInv'
  OBVIOUS
<1>1. CASE Next
  <2>1. TypesInv'
    BY <1>1, TypesStep DEF IInv, TypesInv
  <2>2. StatsAddUp' /\ FallbackInv'
    BY <1>1, StatsStep DEF IInv
  <2>3. HitInv' /\ CacheHitExplained'
    BY <1>1, HitStep DEF IInv, TypesInv
  <2>4. UnprovenIsTried'
    BY <1>1, TriedStep DEF IInv, TypesInv
  <2>. QED
    BY <2>1, <2>2, <2>3, <2>4 DEF IInv, TypesInv
<1>2. CASE UNCHANGED vars
  <2>1. UNCHANGED <<cache, verify, fallback, hydratable, lru, memory, stats, pc, spec, cacheHit>>
        /\ UNCHANGED <<goal, entry, hitsBefore, cached, overlapped, proven, abandoned>>
    BY <1>2 DEF vars, designer, request, history
  <2>2. TypeOK' /\ HistoryTypes' /\ KeyedInv' /\ RequestInv'
    BY <2>1 DEF IInv, TypeOK, HistoryTypes, KeyedInv, RequestInv
  <2>3. HitInv' /\ CacheHitExplained' /\ UnprovenIsTried'
    BY <2>1 DEF IInv, HitInv, CacheHitExplained, UnprovenIsTried
  <2>4. StatsAddUp' /\ FallbackInv'
    BY <2>1 DEF IInv, StatsAddUp, FallbackInv, InFlight
  <2>. QED
    BY <2>2, <2>3, <2>4 DEF IInv
<1>. QED
  BY <1>1, <1>2

THEOREM Invariance == Spec => []IInv
<1>1. Init => IInv
  BY InitIInv
<1>2. IInv /\ [Next]_vars => IInv'
  BY NextIInv
<1>. QED
  BY <1>1, <1>2, PTL DEF Spec

(* The cache keeps its size and one item per goal, and the statistics add  *)
(* up over every interleaving of requests, failures and cancellations.     *)
THEOREM StatisticsAddUp == Spec => []Consistent
<1>1. IInv => Consistent
  BY DEF IInv, Consistent
<1>. QED
  BY <1>1, Invariance, PTL

(* A specification in the LRU succeeded for its goal, or is being tried,   *)
(* or was given up: no failed run leaves one behind.                       *)
THEOREM FailuresAreEvicted == Spec => []UnprovenIsTried
<1>1. IInv => UnprovenIsTried
  BY DEF IInv
<1>. QED
  BY <1>1, Invariance, PTL

(* A reported cache_hit is a hit of the request itself or of one that was  *)
(* served while it was in flight, and no hit goes unreported.              *)
THEOREM HitsAreExplained == Spec => []CacheHitExplained
<1>1. IInv => CacheHitExplained
  BY DEF IInv
<1>. QED
  BY <1>1, Invariance, PTL
=============================================================================
