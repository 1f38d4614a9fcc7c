------------------------- MODULE OptimizationProofs -------------------------
(***************************************************************************)
(* Proofs about the topologies and their optimizer.  Optimization, for     *)
(* every configuration, set of outcomes and genome: the winner by weighted *)
(* score is on the Pareto front, the parent of a design was shown to it,   *)
(* no broken design is archived, and what an agent gets is legal.          *)
(* Orchestration, for every tree of operations: what runs was resolved as  *)
(* a whole and counted, no branch runs that nobody awaits, and a loop      *)
(* returns its best.                                                       *)
(***************************************************************************)
EXTENDS Optimization, Orchestration, FiniteSetTheorems, SequenceTheorems, WellFoundedInduction, TLAPS

-----------------------------------------------------------------------------
(* Induction by descent: if each counterexample up to n has the number     *)
(* before it as another one, there is none.                                *)
LEMMA Descent ==
  ASSUME NEW n \in Nat, NEW V \in SUBSET (1..n), \A i \in V : i - 1 \in V
  PROVE  V = {}
<1> SUFFICES ASSUME V # {} PROVE FALSE
  OBVIOUS
<1> DEFINE Below(v) == {i \in V : i < v}
           T == {Below(v) : v \in V}
<1>1. \A v \in V : v \in Int /\ v >= 1 /\ v - 1 \in V
  OBVIOUS
<1>2. T \subseteq FiniteSubsetsOf(1..n) /\ T # {}
  <2>1. ASSUME NEW v \in V PROVE Below(v) \in SUBSET (1..n) /\ IsFiniteSet(Below(v))
    <3>1. IsFiniteSet(1..n)
      BY FS_Interval
    <3>2. Below(v) \subseteq 1..n
      OBVIOUS
    <3>. QED
      BY <3>1, <3>2, FS_Subset
  <2>. QED
    BY <2>1 DEF FiniteSubsetsOf
<1>3. PICK U \in T : \A Q \in T : <<Q, U>> \notin StrictSubsetOrdering(1..n)
  <2> HIDE DEF T
  <2>. QED
    BY <1>2, FS_StrictSubsetOrderingWellFounded, WFMin
<1>4. PICK v \in V : U = Below(v)
  OBVIOUS
<1>5. v - 1 \in V /\ v - 1 \in Below(v) /\ v - 1 \notin Below(v - 1) /\ Below(v - 1) \subseteq Below(v)
  <2>1. v \in Int /\ v - 1 \in V /\ v - 1 < v /\ ~(v - 1 < v - 1)
    BY <1>1
  <2>2. \A i \in V : i < v - 1 => i < v
    BY <1>1, <2>1
  <2>. QED
    BY <2>1, <2>2
<1>6. <<Below(v - 1), U>> \in StrictSubsetOrdering(1..n)
  BY <1>2, <1>4, <1>5 DEF StrictSubsetOrdering
<1>. QED
  BY <1>3, <1>5, <1>6

-----------------------------------------------------------------------------
(* g is the sequence of partial sums of f over s. *)
Partial(f, s, n, g) ==
    /\ g \in [0..n -> Int] /\ g[0] = 0
    /\ \A i \in 1..n : g[i] = g[i - 1] + f[s[i]]

Sums(f, s, g) == g = [i \in 0..Len(s) |-> IF i = 0 THEN 0 ELSE g[i - 1] + f[s[i]]]

LEMMA PartialExists ==
  ASSUME NEW M, NEW f, NEW s \in Seq(M), \A x \in M : f[x] \in Int
  PROVE  \E g : Partial(f, s, Len(s), g)
<1> DEFINE V == {n \in 1..Len(s) : ~ \E g : Partial(f, s, n, g)}
<1>1. Len(s) \in Nat /\ \A i \in 1..Len(s) : s[i] \in M /\ f[s[i]] \in Int
  OBVIOUS
<1>2. Partial(f, s, 0, [i \in 0..0 |-> 0])
  BY DEF Partial
<1>3. ASSUME NEW n \in 1..Len(s), NEW h, Partial(f, s, n - 1, h)
      PROVE  \E g : Partial(f, s, n, g)
  <2> DEFINE g == [i \in 0..n |-> IF i = n THEN h[n - 1] + f[s[n]] ELSE h[i]]
  <2>1. /\ h \in [0..(n - 1) -> Int] /\ h[0] = 0
        /\ \A i \in 1..(n - 1) : h[i] = h[i - 1] + f[s[i]]
    BY <1>3 DEF Partial
  <2>2. f[s[n]] \in Int /\ n \in Nat /\ n >= 1
    BY <1>1
  <2>3. \A i \in 0..n : i = n \/ i \in 0..(n - 1)
    BY <2>2
  <2>4. g \in [0..n -> Int]
    BY <2>1, <2>2, <2>3
  <2>5. g[0] = 0
    BY <2>1, <2>2
  <2>6. ASSUME NEW i \in 1..n PROVE g[i] = g[i - 1] + f[s[i]]
    <3>1. g[i - 1] = h[i - 1]
      BY <2>2
    <3>. QED
      BY <2>1, <2>2, <3>1
  <2>. QED
    BY <2>4, <2>5, <2>6 DEF Partial
<1>4. \A n \in V : n - 1 \in V
  <2> SUFFICES ASSUME NEW n \in V, n - 1 \notin V PROVE FALSE
    OBVIOUS
  <2>1. n \in 1..Len(s) /\ ~ \E g : Partial(f, s, n, g)
    OBVIOUS
  <2>2. n - 1 = 0 \/ n - 1 \in 1..Len(s)
    BY <1>1, <2>1
  <2>3. \E h : Partial(f, s, n - 1, h)
    BY <1>2, <2>2
  <2>. QED
    BY <1>3, <2>1, <2>3
<1>5. V = {}
  <2>1. V \in SUBSET (1..Len(s))
    OBVIOUS
  <2> HIDE DEF V
  <2>. QED
    BY <1>1, <1>4, <2>1, Descent
<1>6. Len(s) = 0 \/ Len(s) \in 1..Len(s)
  BY <1>1
<1>. QED
  BY <1>2, <1>5, <1>6

(* Sum is the last of the partial sums. *)
LEMMA SumIs ==
  ASSUME NEW M, NEW f, NEW s \in Seq(M), \A x \in M : f[x] \in Int, NEW g, Partial(f, s, Len(s), g)
  PROVE  Sum(f, s) = g[Len(s)]
<1>1. Len(s) \in Nat /\ g \in [0..Len(s) -> Int] /\ g[0] = 0
      /\ \A i \in 1..Len(s) : g[i] = g[i - 1] + f[s[i]]
  BY DEF Partial
<1>2. Sums(f, s, g)
  <2>1. \A i \in 0..Len(s) : i = 0 \/ i \in 1..Len(s)
    BY <1>1
  <2>2. \A i \in 0..Len(s) : g[i] = IF i = 0 THEN 0 ELSE g[i - 1] + f[s[i]]
    BY <1>1, <2>1
  <2>. QED
    BY <1>1, <2>2 DEF Sums
<1>3. PICK h : Sums(f, s, h) /\ Sum(f, s) = h[Len(s)]
  BY <1>2, Zenon DEF Sum, Sums
<1> DEFINE V == {i \in 1..Len(s) : h[i] # g[i]}
<1>4. h[0] = 0 /\ \A i \in 1..Len(s) : h[i] = h[i - 1] + f[s[i]]
  <2>1. \A i \in 0..Len(s) : h[i] = IF i = 0 THEN 0 ELSE h[i - 1] + f[s[i]]
    BY <1>3 DEF Sums
  <2>2. 0 \in 0..Len(s) /\ \A i \in 1..Len(s) : i \in 0..Len(s) /\ i # 0
    BY <1>1
  <2>. QED
    BY <2>1, <2>2
<1>5. \A i \in V : i - 1 \in V
  BY <1>1, <1>4
<1>6. V = {}
  <2>1. V \in SUBSET (1..Len(s))
    OBVIOUS
  <2> HIDE DEF V
  <2>. QED
    BY <1>1, <1>5, <2>1, Descent
<1>. QED
  BY <1>1, <1>3, <1>4, <1>6

LEMMA SumFacts ==
  ASSUME NEW M, NEW f, NEW s \in Seq(M), \A x \in M : f[x] \in Int
  PROVE  \E g : Partial(f, s, Len(s), g) /\ Sum(f, s) = g[Len(s)] /\ Sum(f, s) \in Int
<1>1. PICK g : Partial(f, s, Len(s), g)
  BY PartialExists
<1>2. Sum(f, s) = g[Len(s)]
  BY <1>1, SumIs
<1>3. Len(s) \in 0..Len(s)
  OBVIOUS
<1>. QED
  BY <1>1, <1>2, <1>3 DEF Partial

-----------------------------------------------------------------------------
(* What sums of numbers within bounds are within. *)
LEMMA SumBounds ==
  ASSUME NEW M, NEW f, NEW s \in Seq(M), NEW b \in Int,
         \A x \in M : f[x] \in Int /\ 0 <= f[x] /\ f[x] <= b
  PROVE  Sum(f, s) \in Int /\ 0 <= Sum(f, s) /\ Sum(f, s) <= b * Len(s)
<1>1. PICK g : Partial(f, s, Len(s), g) /\ Sum(f, s) = g[Len(s)] /\ Sum(f, s) \in Int
  BY SumFacts
<1>2. Len(s) \in Nat /\ \A i \in 1..Len(s) : f[s[i]] \in Int /\ 0 <= f[s[i]] /\ f[s[i]] <= b
  OBVIOUS
<1>3. /\ g \in [0..Len(s) -> Int] /\ g[0] = 0
      /\ \A i \in 1..Len(s) : g[i] = g[i - 1] + f[s[i]]
  BY <1>1 DEF Partial
<1> DEFINE Good(i) == 0 <= g[i] /\ g[i] <= b * i
           V == {i \in 1..Len(s) : ~Good(i)}
<1>4. Good(0)
  BY <1>3
<1>9. ASSUME NEW i \in 1..Len(s)
      PROVE  /\ i \in Int /\ i - 1 \in 0..Len(s)
             /\ g[i - 1] \in Int /\ g[i] = g[i - 1] + f[s[i]]
             /\ f[s[i]] \in Int /\ 0 <= f[s[i]] /\ f[s[i]] <= b
  <2>1. i \in Int /\ i - 1 \in 0..Len(s)
    BY <1>2
  <2>. QED
    BY <1>2, <1>3, <2>1
<1>5. ASSUME NEW i \in 1..Len(s), Good(i - 1) PROVE Good(i)
  <2>1. /\ i \in Int /\ g[i - 1] \in Int /\ g[i] = g[i - 1] + f[s[i]]
        /\ f[s[i]] \in Int /\ 0 <= f[s[i]] /\ f[s[i]] <= b
    BY <1>9
  <2>2. 0 <= g[i - 1] /\ g[i - 1] <= b * (i - 1)
    BY <1>5
  <2>3. b * (i - 1) = b * i - b /\ b * i \in Int
    BY <2>1
  <2>. QED
    BY <2>1, <2>2, <2>3
<1>6. \A i \in V : i - 1 \in V
  <2> SUFFICES ASSUME NEW i \in V, i - 1 \notin V PROVE FALSE
    OBVIOUS
  <2>1. i \in 1..Len(s) /\ ~Good(i) /\ (i - 1 = 0 \/ i - 1 \in 1..Len(s))
    BY <1>2
  <2>2. Good(i - 1)
    BY <1>4, <2>1
  <2>. QED
    BY <1>5, <2>1, <2>2
<1>7. V = {}
  <2>1. V \in SUBSET (1..Len(s))
    OBVIOUS
  <2> HIDE DEF V
  <2>. QED
    BY <1>2, <1>6, <2>1, Descent
<1>8. Good(Len(s))
  <2>1. Len(s) = 0 \/ Len(s) \in 1..Len(s)
    BY <1>2
  <2>. QED
    BY <1>4, <1>7, <2>1
<1>. QED
  BY <1>1, <1>8

(* Only some indices add to the sum. *)
LEMMA SumOfSome ==
  ASSUME NEW M, NEW f, NEW s \in Seq(M), NEW b \in Nat,
         \A x \in M : f[x] \in Int /\ 0 <= f[x] /\ f[x] <= b,
         NEW H \in SUBSET (1..Len(s)), \A i \in 1..Len(s) : f[s[i]] = 0 \/ i \in H
  PROVE  /\ Sum(f, s) \in Int /\ 0 <= Sum(f, s)
         /\ Cardinality(H) \in Nat /\ Sum(f, s) <= b * Cardinality(H)
<1>1. PICK g : Partial(f, s, Len(s), g) /\ Sum(f, s) = g[Len(s)] /\ Sum(f, s) \in Int
  BY SumFacts
<1>2. /\ Len(s) \in Nat /\ DOMAIN s = 1..Len(s)
      /\ \A i \in 1..Len(s) : /\ s[i] \in M /\ f[s[i]] \in Int /\ 0 <= f[s[i]]
                              /\ f[s[i]] <= IF i \in H THEN b ELSE 0
  OBVIOUS
<1>3. /\ g \in [0..Len(s) -> Int] /\ g[0] = 0
      /\ \A i \in 1..Len(s) : g[i] = g[i - 1] + f[s[i]]
  BY <1>1 DEF Partial
<1> DEFINE Hits(i) == {j \in 1..i : j \in H}
           c(i) == Cardinality(Hits(i))
           Good(i) == 0 <= g[i] /\ g[i] <= b * c(i)
           V == {i \in 1..Len(s) : ~Good(i)}
<1>4. ASSUME NEW i \in 0..Len(s) PROVE IsFiniteSet(Hits(i)) /\ c(i) \in Nat
  <2>1. IsFiniteSet(1..i)
    BY FS_Interval
  <2>2. Hits(i) \subseteq 1..i
    OBVIOUS
  <2> HIDE DEF Hits
  <2>. QED
    BY <2>1, <2>2, FS_Subset, FS_CardinalityType
<1>5. Good(0)
  <2>1. c(0) \in Nat
    <3>1. 0 \in 0..Len(s)
      BY <1>2
    <3> HIDE DEF Hits
    <3>. QED
      BY <1>4, <3>1
  <2> HIDE DEF c
  <2>2. b * c(0) >= 0
    BY <2>1
  <2>. QED
    BY <1>3, <2>2
<1>12. ASSUME NEW i \in 1..Len(s)
       PROVE  /\ i \in Int /\ i - 1 \in 0..Len(s)
              /\ g[i - 1] \in Int /\ g[i] = g[i - 1] + f[s[i]]
              /\ f[s[i]] \in Int /\ 0 <= f[s[i]] /\ f[s[i]] <= IF i \in H THEN b ELSE 0
  <2>1. i \in Int /\ i - 1 \in 0..Len(s)
    BY <1>2
  <2>. QED
    BY <1>2, <1>3, <2>1
<1>6. ASSUME NEW i \in 1..Len(s), Good(i - 1) PROVE Good(i)
  <2>1. /\ i \in Int /\ i - 1 \in 0..Len(s) /\ g[i - 1] \in Int /\ g[i] = g[i - 1] + f[s[i]]
        /\ f[s[i]] \in Int /\ 0 <= f[s[i]] /\ f[s[i]] <= IF i \in H THEN b ELSE 0
    BY <1>12
  <2>2. IsFiniteSet(Hits(i - 1)) /\ c(i - 1) \in Nat
    BY <1>4, <2>1
  <2>3. Hits(i) = IF i \in H THEN Hits(i - 1) \cup {i} ELSE Hits(i - 1)
    <3>1. \A j \in 1..i : j = i \/ j \in 1..(i - 1)
      BY <2>1
    <3>2. \A j \in 1..(i - 1) : j \in 1..i
      BY <2>1
    <3>3. i \in 1..i
      BY <2>1
    <3>. QED
      BY <3>1, <3>2, <3>3
  <2>4. c(i) = IF i \in H THEN c(i - 1) + 1 ELSE c(i - 1)
    <3>1. i \notin Hits(i - 1)
      BY <2>1
    <3> HIDE DEF Hits
    <3>. QED
      BY <2>2, <2>3, <3>1, FS_AddElement
  <2>5. 0 <= g[i - 1] /\ g[i - 1] <= b * c(i - 1)
    BY <1>6
  <2> HIDE DEF Hits, c
  <2>6. b * (c(i - 1) + 1) = b * c(i - 1) + b /\ b * c(i - 1) \in Int
    BY <2>2
  <2>7. CASE i \in H
    <3>1. c(i) = c(i - 1) + 1 /\ f[s[i]] <= b
      BY <2>1, <2>4, <2>7
    <3>2. b * c(i) = b * c(i - 1) + b
      BY <2>6, <3>1, Zenon
    <3> DEFINE m == b * c(i) k == b * c(i - 1)
    <3>3. m = k + b /\ k \in Int /\ 0 <= g[i - 1] /\ g[i - 1] <= k
      BY <2>5, <2>6, <3>2
    <3> HIDE DEF m, k
    <3>4. 0 <= g[i] /\ g[i] <= m
      BY <2>1, <3>1, <3>3
    <3>. QED
      BY <3>4, Zenon DEF m
  <2>8. CASE i \notin H
    <3>1. c(i) = c(i - 1) /\ f[s[i]] = 0
      BY <2>1, <2>4, <2>8
    <3>2. g[i] = g[i - 1]
      BY <2>1, <3>1
    <3>. QED
      BY <2>5, <3>1, <3>2, Zenon
  <2>. QED
    BY <2>7, <2>8
<1>7. \A i \in V : i - 1 \in V
  <2> SUFFICES ASSUME NEW i \in V, i - 1 \notin V PROVE FALSE
    OBVIOUS
  <2>1. i \in 1..Len(s) /\ ~Good(i) /\ (i - 1 = 0 \/ i - 1 \in 1..Len(s))
    BY <1>2
  <2>2. Good(i - 1)
    BY <1>5, <2>1
  <2>. QED
    BY <1>6, <2>1, <2>2
<1>8. V = {}
  <2>1. V \in SUBSET (1..Len(s))
    OBVIOUS
  <2> HIDE DEF V
  <2>. QED
    BY <1>2, <1>7, <2>1, Descent
<1>9. Good(Len(s))
  <2>1. Len(s) = 0 \/ Len(s) \in 1..Len(s)
    BY <1>2
  <2>. QED
    BY <1>5, <1>8, <2>1
<1>10. Len(s) \in 0..Len(s) /\ Hits(Len(s)) = H
  <2>1. \A j : j \in Hits(Len(s)) <=> j \in H
    OBVIOUS
  <2>2. Hits(Len(s)) = H
    BY <2>1, Zenon
  <2>. QED
    BY <1>2, <2>2
<1>11. c(Len(s)) \in Nat
  BY <1>4, <1>10
<1>. QED
  BY <1>1, <1>9, <1>10, <1>11

LEMMA Distribute ==
  ASSUME NEW w \in Int, NEW a \in Int, NEW b \in Int
  PROVE  w * (a + b) = w * a + w * b /\ w * a \in Int
OBVIOUS

LEMMA WeightedStep ==
  ASSUME NEW w1 \in Int, NEW w2 \in Int, NEW w3 \in Int,
         NEW a1 \in Int, NEW a2 \in Int, NEW a3 \in Int,
         NEW b1 \in Int, NEW b2 \in Int, NEW b3 \in Int
  PROVE  w1 * (a1 + b1) + w2 * (a2 + b2) + w3 * (a3 + b3)
            = (w1 * a1 + w2 * a2 + w3 * a3) + (w1 * b1 + w2 * b2 + w3 * b3)
<1>1. /\ w1 * (a1 + b1) = w1 * a1 + w1 * b1 /\ w1 * a1 \in Int /\ w1 * b1 \in Int
      /\ w2 * (a2 + b2) = w2 * a2 + w2 * b2 /\ w2 * a2 \in Int /\ w2 * b2 \in Int
      /\ w3 * (a3 + b3) = w3 * a3 + w3 * b3 /\ w3 * a3 \in Int /\ w3 * b3 \in Int
  BY Distribute
<1>. QED
  BY <1>1

(* The sum of a weighted sum is the weighted sum of the sums.              *)
IsWeighted(M, f, f1, f2, f3, w1, w2, w3) ==
    /\ w1 \in Int /\ w2 \in Int /\ w3 \in Int
    /\ \A x \in M : f[x] \in Int /\ f1[x] \in Int /\ f2[x] \in Int /\ f3[x] \in Int
    /\ \A x \in M : f[x] = w1 * f1[x] + w2 * f2[x] + w3 * f3[x]

LEMMA SumWeighted ==
  ASSUME NEW M, NEW f, NEW f1, NEW f2, NEW f3, NEW w1, NEW w2, NEW w3,
         IsWeighted(M, f, f1, f2, f3, w1, w2, w3), NEW s \in Seq(M)
  PROVE  /\ Sum(f, s) \in Int /\ Sum(f1, s) \in Int
         /\ Sum(f2, s) \in Int /\ Sum(f3, s) \in Int
         /\ Sum(f, s) = w1 * Sum(f1, s) + w2 * Sum(f2, s) + w3 * Sum(f3, s)
<1>0. /\ w1 \in Int /\ w2 \in Int /\ w3 \in Int
      /\ \A x \in M : f[x] \in Int
      /\ \A x \in M : f1[x] \in Int
      /\ \A x \in M : f2[x] \in Int
      /\ \A x \in M : f3[x] \in Int
      /\ \A x \in M : f[x] = w1 * f1[x] + w2 * f2[x] + w3 * f3[x]
  BY DEF IsWeighted
<1>1. PICK g1 : Partial(f1, s, Len(s), g1) /\ Sum(f1, s) = g1[Len(s)] /\ Sum(f1, s) \in Int
  BY <1>0, SumFacts
<1>2. PICK g2 : Partial(f2, s, Len(s), g2) /\ Sum(f2, s) = g2[Len(s)] /\ Sum(f2, s) \in Int
  BY <1>0, SumFacts
<1>3. PICK g3 : Partial(f3, s, Len(s), g3) /\ Sum(f3, s) = g3[Len(s)] /\ Sum(f3, s) \in Int
  BY <1>0, SumFacts
<1> DEFINE g == [i \in 0..Len(s) |-> w1 * g1[i] + w2 * g2[i] + w3 * g3[i]]
<1>4. /\ Len(s) \in Nat
      /\ \A i \in 1..Len(s) : s[i] \in M /\ f1[s[i]] \in Int /\ f2[s[i]] \in Int
                              /\ f3[s[i]] \in Int
  <2>1. Len(s) \in Nat /\ \A i \in 1..Len(s) : s[i] \in M
    OBVIOUS
  <2>. QED
    BY <1>0, <2>1
<1>5. /\ \A i \in 0..Len(s) : g1[i] \in Int /\ g2[i] \in Int /\ g3[i] \in Int
      /\ g1[0] = 0 /\ g2[0] = 0 /\ g3[0] = 0
      /\ \A i \in 1..Len(s) : /\ g1[i] = g1[i - 1] + f1[s[i]]
                              /\ g2[i] = g2[i - 1] + f2[s[i]]
                              /\ g3[i] = g3[i - 1] + f3[s[i]]
  BY <1>1, <1>2, <1>3 DEF Partial
<1>6. g \in [0..Len(s) -> Int]
  <2>1. ASSUME NEW i \in 0..Len(s) PROVE w1 * g1[i] + w2 * g2[i] + w3 * g3[i] \in Int
    <3>1. g1[i] \in Int /\ g2[i] \in Int /\ g3[i] \in Int
      BY <1>5
    <3>2. w1 * g1[i] \in Int /\ w2 * g2[i] \in Int /\ w3 * g3[i] \in Int
      BY <1>0, <3>1, Distribute
    <3>. QED
      BY <3>2
  <2>. QED
    BY <2>1
<1>7. g[0] = 0
  BY <1>0, <1>4, <1>5
<1>8. ASSUME NEW i \in 1..Len(s) PROVE g[i] = g[i - 1] + f[s[i]]
  <2>1. i \in 0..Len(s) /\ i - 1 \in 0..Len(s)
    BY <1>4
  <2>2. /\ g[i] = w1 * g1[i] + w2 * g2[i] + w3 * g3[i]
        /\ g[i - 1] = w1 * g1[i - 1] + w2 * g2[i - 1] + w3 * g3[i - 1]
    BY <2>1
  <2>3. f[s[i]] = w1 * f1[s[i]] + w2 * f2[s[i]] + w3 * f3[s[i]]
    BY <1>0, <1>4
  <2> HIDE DEF g
  <2>4. /\ g1[i - 1] \in Int /\ f1[s[i]] \in Int /\ g1[i] = g1[i - 1] + f1[s[i]]
        /\ g2[i - 1] \in Int /\ f2[s[i]] \in Int /\ g2[i] = g2[i - 1] + f2[s[i]]
        /\ g3[i - 1] \in Int /\ f3[s[i]] \in Int /\ g3[i] = g3[i - 1] + f3[s[i]]
    BY <1>0, <1>4, <1>5, <2>1
  <2>5. w1 * (g1[i - 1] + f1[s[i]]) + w2 * (g2[i - 1] + f2[s[i]]) + w3 * (g3[i - 1] + f3[s[i]])
           = g[i - 1] + f[s[i]]
    <3> DEFINE a1 == g1[i - 1] a2 == g2[i - 1] a3 == g3[i - 1]
               b1 == f1[s[i]] b2 == f2[s[i]] b3 == f3[s[i]]
    <3>1. /\ a1 \in Int /\ a2 \in Int /\ a3 \in Int
          /\ b1 \in Int /\ b2 \in Int /\ b3 \in Int
      BY <2>4
    <3>2. g[i - 1] = w1 * a1 + w2 * a2 + w3 * a3 /\ f[s[i]] = w1 * b1 + w2 * b2 + w3 * b3
      BY <2>2, <2>3
    <3> HIDE DEF a1, a2, a3, b1, b2, b3
    <3>3. w1 * (a1 + b1) + w2 * (a2 + b2) + w3 * (a3 + b3)
             = (w1 * a1 + w2 * a2 + w3 * a3) + (w1 * b1 + w2 * b2 + w3 * b3)
      BY <1>0, <3>1, WeightedStep
    <3>4. w1 * (a1 + b1) + w2 * (a2 + b2) + w3 * (a3 + b3) = g[i - 1] + f[s[i]]
      BY <3>2, <3>3, Zenon
    <3>. QED
      BY <3>4 DEF a1, a2, a3, b1, b2, b3
  <2>6. g[i] = w1 * (g1[i - 1] + f1[s[i]]) + w2 * (g2[i - 1] + f2[s[i]])
               + w3 * (g3[i - 1] + f3[s[i]])
    BY <2>2, <2>4, Zenon
  <2>. QED
    BY <2>5, <2>6, Zenon
<1>9. Partial(f, s, Len(s), g)
  <2> HIDE DEF g
  <2>. QED
    BY <1>6, <1>7, <1>8 DEF Partial
<1>10. Sum(f, s) = g[Len(s)] /\ Len(s) \in 0..Len(s)
  <2> HIDE DEF g
  <2>1. Sum(f, s) = g[Len(s)]
    <3>1. \A x \in M : f[x] \in Int
      BY <1>0
    <3>. QED
      BY <1>9, <3>1, SumIs, Zenon
  <2>. QED
    BY <1>4, <2>1
<1>11. g[Len(s)] = w1 * Sum(f1, s) + w2 * Sum(f2, s) + w3 * Sum(f3, s) /\ g[Len(s)] \in Int
  BY <1>1, <1>2, <1>3, <1>6, <1>10
<1>. QED
  BY <1>1, <1>2, <1>3, <1>10, <1>11

LEMMA SumNat ==
  ASSUME NEW M, NEW f, NEW s \in Seq(M), \A x \in M : f[x] \in Nat
  PROVE  Sum(f, s) \in Nat
<1>1. PICK g : Partial(f, s, Len(s), g) /\ Sum(f, s) = g[Len(s)] /\ Sum(f, s) \in Int
  BY SumFacts
<1>2. Len(s) \in Nat /\ \A i \in 1..Len(s) : s[i] \in M
  OBVIOUS
<1>3. /\ g \in [0..Len(s) -> Int] /\ g[0] = 0
      /\ \A i \in 1..Len(s) : g[i] = g[i - 1] + f[s[i]] /\ f[s[i]] \in Nat
  BY <1>1, <1>2 DEF Partial
<1> DEFINE V == {i \in 1..Len(s) : ~(0 <= g[i])}
<1>4. \A i \in V : i - 1 \in V
  BY <1>2, <1>3
<1>5. V = {}
  <2>1. V \in SUBSET (1..Len(s))
    OBVIOUS
  <2> HIDE DEF V
  <2>. QED
    BY <1>2, <1>4, <2>1, Descent
<1>6. Len(s) = 0 \/ Len(s) \in 1..Len(s)
  BY <1>2
<1>. QED
  BY <1>1, <1>3, <1>5, <1>6

-----------------------------------------------------------------------------
(* A quotient within bounds. *)
LEMMA Quotient ==
  ASSUME NEW a \in Int, NEW n \in Nat \ {0}, NEW b \in Int, 0 <= a
  PROVE  /\ a \div n \in Nat
         /\ a <= b * n => a \div n <= b
<1>1. a \div n \in Int /\ a = n * (a \div n) + (a % n) /\ 0 <= a % n /\ a % n < n
  OBVIOUS
<1> DEFINE q == a \div n
<1>2. q \in Int /\ n * q <= a /\ a < n * q + n
  BY <1>1
<1> HIDE DEF q
<1>3. q >= 0
  <2>1. q < 0 => n * q + n <= 0
    BY <1>2
  <2>. QED
    BY <1>2, <2>1
<1>4. ASSUME a <= b * n PROVE q <= b
  <2>1. q > b => n * q >= b * n + n
    <3> SUFFICES ASSUME q > b PROVE n * q >= b * n + n
      OBVIOUS
    <3>1. q - (b + 1) >= 0 /\ q - (b + 1) \in Int
      BY <1>2
    <3>2. n * (q - (b + 1)) >= 0
      BY <3>1
    <3>3. n * (q - (b + 1)) = n * q - (b * n + n)
      BY <1>2
    <3>4. n * q \in Int /\ b * n \in Int
      BY <1>2
    <3>. QED
      BY <3>2, <3>3, <3>4
  <2>2. n * q \in Int /\ b * n \in Int
    BY <1>2
  <2>. QED
    BY <1>2, <1>4, <2>1, <2>2
<1>. QED
  BY <1>2, <1>3, <1>4 DEF q

Field(field) == [b \in MetricBundle |-> b[field]]

LEMMA BundleFacts ==
  ASSUME NEW b \in MetricBundle
  PROVE  /\ b.accuracy \in Nat /\ b.accuracy <= Scale
         /\ b.cost_usd \in Nat /\ b.latency_ms \in Nat
         /\ Field("accuracy")[b] = b.accuracy /\ Field("cost_usd")[b] = b.cost_usd
         /\ Field("latency_ms")[b] = b.latency_ms
         /\ b.confidence = None \/ (b.confidence \in Nat /\ b.confidence <= Scale)
BY ScaleAssumption DEF MetricBundle, Field

(* The mean of the trials of an example is a bundle. *)
LEMMA EvaluateOneType ==
  ASSUME NEW trials \in [1..Trials -> Outcomes]
  PROVE  EvaluateOne(trials) \in MetricBundle
<1>1. /\ trials \in Seq(MetricBundle) /\ Len(trials) = Trials /\ DOMAIN trials = 1..Trials
      /\ Trials \in Nat \ {0} /\ trials[1] \in MetricBundle
  BY OutcomesAssumption
<1> DEFINE rated == {i \in DOMAIN trials : trials[i].confidence # None}
           Rating == [b \in MetricBundle |-> IF b.confidence = None THEN 0 ELSE b.confidence]
           mean == [accuracy |-> Sum(Field("accuracy"), trials) \div Len(trials),
                    confidence |-> IF rated = {} THEN None
                                   ELSE Sum(Rating, trials) \div Cardinality(rated),
                    cost_usd |-> Sum(Field("cost_usd"), trials) \div Len(trials),
                    latency_ms |-> Sum(Field("latency_ms"), trials) \div Len(trials),
                    error |-> trials[1].error]
<1>2. Sum(Field("accuracy"), trials) \div Len(trials) \in 0..Scale
  <2> DEFINE f == Field("accuracy")
             S == Sum(f, trials)
             n == Len(trials)
  <2>1. \A b \in MetricBundle : f[b] \in Int /\ 0 <= f[b] /\ f[b] <= Scale
    BY BundleFacts
  <2>2. Scale \in Int /\ n \in Nat \ {0} /\ trials \in Seq(MetricBundle)
    BY <1>1, ScaleAssumption
  <2> HIDE DEF f
  <2>3. S \in Int /\ 0 <= S /\ S <= Scale * n
    BY <2>1, <2>2, SumBounds, Zenon
  <2> HIDE DEF S, n
  <2>4. S \div n \in Nat /\ S \div n <= Scale
    BY <2>2, <2>3, Quotient, Zenon
  <2>5. S \div n \in 0..Scale
    BY <2>2, <2>4
  <2>. QED
    BY <2>5, Zenon DEF f, S, n
<1>3. ASSUME NEW field \in {"cost_usd", "latency_ms"}
      PROVE  Sum(Field(field), trials) \div Len(trials) \in Nat
  <2>1. \A b \in MetricBundle : Field(field)[b] \in Nat
    BY BundleFacts
  <2>2. Sum(Field(field), trials) \in Nat
    BY <1>1, <2>1, SumNat
  <2>. QED
    BY <1>1, <2>2, Quotient
<1>4. ASSUME rated # {} PROVE Sum(Rating, trials) \div Cardinality(rated) \in 0..Scale
  <2>1. \A b \in MetricBundle : Rating[b] \in Int /\ 0 <= Rating[b] /\ Rating[b] <= Scale
    BY BundleFacts, ScaleAssumption
  <2>2. /\ rated \in SUBSET (1..Len(trials))
        /\ \A i \in 1..Len(trials) : Rating[trials[i]] = 0 \/ i \in rated
    <3>1. \A i \in 1..Len(trials) : trials[i] \in MetricBundle /\ i \in DOMAIN trials
      BY <1>1
    <3>2. \A i \in 1..Len(trials) : i \notin rated => trials[i].confidence = None
      BY <3>1
    <3>3. \A i \in 1..Len(trials) : Rating[trials[i]] = 0 \/ i \in rated
      BY <3>1, <3>2
    <3>. QED
      BY <1>1, <3>3
  <2>4. IsFiniteSet(rated)
    <3>1. IsFiniteSet(1..Trials)
      BY <1>1, FS_Interval
    <3>2. rated \subseteq 1..Trials
      BY <1>1
    <3> HIDE DEF rated
    <3>. QED
      BY <3>1, <3>2, FS_Subset
  <2> DEFINE S == Sum(Rating, trials)
             c == Cardinality(rated)
  <2>5. Scale \in Nat /\ Scale \in Int /\ trials \in Seq(MetricBundle)
    BY <1>1, ScaleAssumption
  <2>6. S \in Int /\ 0 <= S /\ c \in Nat /\ S <= Scale * c
    <3> HIDE DEF Rating, rated
    <3>. QED
      BY <2>1, <2>2, <2>5, SumOfSome, Zenon
  <2> HIDE DEF Rating, rated
  <2>7. c # 0
    BY <1>4, <2>4, FS_EmptySet
  <2> HIDE DEF S, c
  <2>8. c \in Nat \ {0}
    BY <2>6, <2>7
  <2>9. S \div c \in Nat /\ S \div c <= Scale
    BY <2>5, <2>6, <2>8, Quotient, Zenon
  <2>10. S \div c \in 0..Scale
    BY <2>5, <2>9
  <2>. QED
    BY <2>10, Zenon DEF S, c, Rating, rated
<1>5. trials[1].error \in BOOLEAN
  BY <1>1 DEF MetricBundle
<1>6. EvaluateOne(trials) \in {trials[1], mean}
  BY Zenon DEF EvaluateOne, Field
<1>7. mean \in MetricBundle
  <2>1. (IF rated = {} THEN None ELSE Sum(Rating, trials) \div Cardinality(rated))
           \in 0..Scale \cup {None}
    BY <1>4
  <2> HIDE DEF rated, Rating
  <2>. QED
    BY <1>2, <1>3, <1>5, <2>1 DEF MetricBundle
<1>. QED
  BY <1>1, <1>6, <1>7


-----------------------------------------------------------------------------
LEMMA RoundedRatioInt ==
  ASSUME NEW a \in Int, NEW q \in Nat \ {0}
  PROVE  RoundedRatio(a, q) \in Int
BY DEF RoundedRatio

(* Clamped, snapped and clamped again, a scalar is within its bounds.      *)
LEMMA DecodeScalarLegal ==
  ASSUME NEW g, g.kind = "scalar", ValidGene(g), NEW value \in Int \cup {None, Malformed}
  PROVE  g.low <= DecodeScalar(g, value) /\ DecodeScalar(g, value) <= g.high
<1>1. /\ g.low \in Int /\ g.initial \in Int /\ g.high \in Int
      /\ g.low <= g.initial /\ g.initial <= g.high
      /\ g.quantize = None \/ g.quantize \in Nat \ {0}
  BY DEF ValidGene
<1>2. ASSUME NEW f \in Int
      PROVE  Clamp(g, f) \in Int /\ g.low <= Clamp(g, f) /\ Clamp(g, f) <= g.high
  BY <1>1 DEF Clamp
<1>3. CASE value \in {None, Malformed}
  BY <1>1, <1>3 DEF DecodeScalar
<1>4. CASE value \notin {None, Malformed}
  <2>1. value \in Int
    BY <1>4
  <2>2. CASE g.quantize = None
    BY <1>2, <1>4, <2>1, <2>2 DEF DecodeScalar
  <2>3. CASE g.quantize # None
    <3> DEFINE ratio == RoundedRatio(Clamp(g, value) - g.low, g.quantize)
    <3>1. ratio \in Int
      <4>1. Clamp(g, value) - g.low \in Int /\ g.quantize \in Nat \ {0}
        BY <1>1, <1>2, <2>1, <2>3
      <4>. QED
        BY <4>1, RoundedRatioInt, Zenon
    <3>2. DecodeScalar(g, value) = Clamp(g, g.low + ratio * g.quantize)
      BY <1>4, <2>3, Zenon DEF DecodeScalar
    <3> HIDE DEF ratio
    <3>3. g.low + ratio * g.quantize \in Int
      BY <1>1, <2>3, <3>1
    <3>. QED
      BY <1>2, <3>2, <3>3
  <2>. QED
    BY <2>2, <2>3
<1>. QED
  BY <1>3, <1>4

(* Whatever is proposed is decoded to legal values, and the initial ones are. *)
LEMMA DecodeLegal ==
  /\ \A n \in DOMAIN Genome : Legal(Genome[n], Initials[n])
  /\ \A c \in Candidates : \A n \in DOMAIN Genome : Legal(Genome[n], Decode(Genome, c)[n])
<1>1. ASSUME NEW n \in DOMAIN Genome PROVE Legal(Genome[n], Initials[n])
  <2> DEFINE g == Genome[n]
  <2>1. Initials[n] = g.initial /\ ValidGene(g)
    BY GenomeAssumption DEF Initials
  <2> HIDE DEF g
  <2>2. Legal(g, g.initial)
    BY <2>1 DEF ValidGene, Legal
  <2>. QED
    BY <2>1, <2>2 DEF g
<1>2. ASSUME NEW c \in Candidates, NEW n \in DOMAIN Genome
      PROVE  Legal(Genome[n], Decode(Genome, c)[n])
  <2> DEFINE g == Genome[n]
             v == c[n]
  <2>1. ValidGene(g) /\ (g.kind = "scalar" => v \in Int \cup {None, Malformed})
    BY GenomeAssumption, CandidatesAssumption
  <2>2. Decode(Genome, c)[n] = CASE g.kind = "scalar" -> DecodeScalar(g, v)
                                 [] g.kind = "categorical" -> DecodeCategorical(g, v)
                                 [] OTHER -> DecodePrompt(g, v)
    BY DEF Decode
  <2> HIDE DEF g, v
  <2>3. CASE g.kind = "scalar"
    <3>1. Decode(Genome, c)[n] = DecodeScalar(g, v)
      BY <2>2, <2>3
    <3>. QED
      BY <2>1, <2>3, <3>1, DecodeScalarLegal DEF Legal, g
  <2>4. CASE g.kind = "categorical"
    <3>1. Decode(Genome, c)[n] = DecodeCategorical(g, v)
      BY <2>2, <2>4
    <3>2. Legal(g, DecodeCategorical(g, v))
      BY <2>1, <2>4 DEF Legal, DecodeCategorical, ValidGene
    <3>. QED
      BY <3>1, <3>2 DEF g
  <2>5. CASE g.kind \notin {"scalar", "categorical"}
    <3>1. Legal(g, Decode(Genome, c)[n])
      BY <2>5 DEF Legal
    <3>. QED
      BY <3>1 DEF g
  <2>. QED
    BY <2>3, <2>4, <2>5
<1>. QED
  BY <1>1, <1>2

-----------------------------------------------------------------------------
(* What the topology evaluator gives are bundles with neither confidence nor cost. *)
LEMMA TopologyFacts ==
  ASSUME NEW b \in TopologyOutcomes
  PROVE  b \in MetricBundle /\ b.confidence = None /\ b.cost_usd = 0
<1>1. PICK o \in Outcomes : b = [o EXCEPT !.confidence = None, !.cost_usd = 0]
  BY DEF TopologyOutcomes
<1>2. o \in MetricBundle
  BY OutcomesAssumption
<1>. QED
  BY <1>1, <1>2 DEF MetricBundle

LEMMA DivExact ==
  ASSUME NEW a \in Int, NEW n \in Nat \ {0}
  PROVE  (a * n) \div n = a
<1> DEFINE q == (a * n) \div n
<1>1. a * n \in Int
  OBVIOUS
<1>2. q \in Int /\ q * n <= a * n /\ a * n < q * n + n
  BY <1>1
<1> HIDE DEF q
<1>3. (q - a) * n = q * n - a * n /\ q * n \in Int
  BY <1>2
<1>4. (q - a) * n <= 0 /\ (q - a) * n > 0 - n
  BY <1>1, <1>2, <1>3
<1>5. q - a <= 0
  <2>1. q - a > 0 => (q - a) * n > 0
    BY <1>2
  <2>. QED
    BY <1>2, <1>4, <2>1
<1>6. q - a >= 0
  <2>1. q - a < 0 => (q - a) * n <= 0 - n
    <3> SUFFICES ASSUME q - a < 0 PROVE (q - a) * n <= 0 - n
      OBVIOUS
    <3>1. (q - a) + 1 <= 0
      BY <1>2
    <3>2. ((q - a) + 1) * n <= 0
      BY <1>2, <3>1
    <3>3. ((q - a) + 1) * n = (q - a) * n + n /\ (q - a) * n \in Int
      BY <1>2
    <3>. QED
      BY <3>2, <3>3
  <2>. QED
    BY <1>2, <1>4, <2>1
<1>7. q = a
  BY <1>2, <1>5, <1>6
<1>. QED
  BY <1>7 DEF q

-----------------------------------------------------------------------------
(* A mean is exact where the length divides the unit. *)
LEMMA MeanIs ==
  ASSUME NEW M, NEW f, NEW s \in Seq(M), \A x \in M : f[x] \in Int,
         Len(s) > 0, Scale % Len(s) = 0
  PROVE  /\ Sum(f, s) \in Int /\ Scale \div Len(s) \in Nat \ {0}
         /\ Mean(f, s) = Sum(f, s) * (Scale \div Len(s))
<1> DEFINE S == Sum(f, s)
           n == Len(s)
           k == Scale \div n
<1>1. S \in Int
  <2>1. \E g : Partial(f, s, Len(s), g) /\ Sum(f, s) = g[Len(s)] /\ Sum(f, s) \in Int
    BY SumFacts
  <2>. QED
    BY <2>1
<1>2. n \in Nat \ {0}
  OBVIOUS
<1>3. Mean(f, s) = (S * Scale) \div n
  BY Zenon DEF Mean
<1>4. Scale % n = 0 /\ Scale \in Nat \ {0}
  BY ScaleAssumption
<1> HIDE DEF S, n
<1>5. k \in Nat \ {0} /\ Scale = k * n
  BY <1>2, <1>4
<1> HIDE DEF k
<1>6. S * Scale = (S * k) * n /\ S * k \in Int
  BY <1>1, <1>2, <1>5
<1>7. (S * Scale) \div n = S * k
  BY <1>2, <1>6, DivExact, Zenon
<1>. QED
  BY <1>1, <1>3, <1>5, <1>7, Zenon DEF S, n, k

Numbers(k, w1, w2, w3, a1, a2, a3) ==
    /\ k \in Int /\ w1 \in Int /\ w2 \in Int /\ w3 \in Int
    /\ a1 \in Int /\ a2 \in Int /\ a3 \in Int

LEMMA ScaledWeights ==
  ASSUME NEW k, NEW w1, NEW w2, NEW w3, NEW a1, NEW a2, NEW a3, Numbers(k, w1, w2, w3, a1, a2, a3)
  PROVE  /\ (w1 * a1 + w2 * a2 + w3 * a3) * k = w1 * (a1 * k) + w2 * (a2 * k) + w3 * (a3 * k)
         /\ (w1 * a1 + w2 * a2 + w3 * a3) * k \in Int
         /\ a1 * k \in Int /\ a2 * k \in Int /\ a3 * k \in Int
<1>. /\ k \in Int /\ w1 \in Int /\ w2 \in Int /\ w3 \in Int
     /\ a1 \in Int /\ a2 \in Int /\ a3 \in Int
  BY DEF Numbers
<1>1. /\ w1 * a1 \in Int /\ w2 * a2 \in Int /\ w3 * a3 \in Int
      /\ a1 * k \in Int /\ a2 * k \in Int /\ a3 * k \in Int
  BY Distribute
<1>2. /\ (w1 * a1) * k = w1 * (a1 * k) /\ (w2 * a2) * k = w2 * (a2 * k)
      /\ (w3 * a3) * k = w3 * (a3 * k)
  OBVIOUS
<1>3. /\ k * (w1 * a1 + (w2 * a2 + w3 * a3)) = k * (w1 * a1) + k * (w2 * a2 + w3 * a3)
      /\ k * (w2 * a2 + w3 * a3) = k * (w2 * a2) + k * (w3 * a3)
      /\ k * (w1 * a1) \in Int /\ k * (w2 * a2) \in Int /\ k * (w3 * a3) \in Int
  <2>1. w2 * a2 + w3 * a3 \in Int
    BY <1>1
  <2>. QED
    BY <1>1, <2>1, Distribute
<1>4. /\ (w1 * a1 + w2 * a2 + w3 * a3) * k = k * (w1 * a1 + (w2 * a2 + w3 * a3))
      /\ k * (w1 * a1) = (w1 * a1) * k /\ k * (w2 * a2) = (w2 * a2) * k /\ k * (w3 * a3) = (w3 * a3) * k
  BY <1>1
<1>. QED
  BY <1>1, <1>2, <1>3, <1>4

Weighted(a, c, l) == Weights.accuracy * a + Weights.cost_usd * c + Weights.latency_ms * l

(* The score is the weighted sum of the means domination looks at: the     *)
(* topology evaluator reports no confidence.                               *)
LEMMA ScoreIs ==
  ASSUME NEW s \in Seq(TopologyOutcomes), Len(s) > 0, Scale % Len(s) = 0
  PROVE  /\ MeanOf("accuracy", s) \in Int /\ MeanOf("cost_usd", s) \in Int
         /\ MeanOf("latency_ms", s) \in Int /\ MeanScore(s) \in Int
         /\ MeanScore(s) = Weighted(MeanOf("accuracy", s), MeanOf("cost_usd", s),
                                    MeanOf("latency_ms", s))
<1> DEFINE f == [b \in MetricBundle |-> Scalarize(b)]
           f1 == Field("accuracy")
           f2 == Field("cost_usd")
           f3 == Field("latency_ms")
           w1 == Weights.accuracy
           w2 == Weights.cost_usd
           w3 == Weights.latency_ms
           k == Scale \div Len(s)
<1>1. w1 \in Int /\ w2 \in Int /\ w3 \in Int
  BY WeightsAssumption
<1>2. ASSUME NEW b \in TopologyOutcomes
      PROVE  /\ f1[b] \in Int /\ f2[b] \in Int /\ f3[b] \in Int
             /\ f[b] = w1 * f1[b] + w2 * f2[b] + w3 * f3[b] /\ f[b] \in Int
  <2>1. b \in MetricBundle /\ b.confidence = None
    BY TopologyFacts
  <2>2. /\ f1[b] = b.accuracy /\ f2[b] = b.cost_usd /\ f3[b] = b.latency_ms
        /\ b.accuracy \in Int /\ b.cost_usd \in Int /\ b.latency_ms \in Int
    BY <2>1, BundleFacts
  <2>3. f[b] = b.accuracy * w1 + b.cost_usd * w2 + b.latency_ms * w3 + 0
    BY <2>1 DEF Scalarize
  <2>4. /\ w1 * b.accuracy = b.accuracy * w1 /\ w2 * b.cost_usd = b.cost_usd * w2
        /\ w3 * b.latency_ms = b.latency_ms * w3
        /\ w1 * b.accuracy \in Int /\ w2 * b.cost_usd \in Int /\ w3 * b.latency_ms \in Int
    BY <1>1, <2>2
  <2> HIDE DEF f, f1, f2, f3, w1, w2, w3
  <2>. QED
    BY <2>2, <2>3, <2>4
<1>3. MeanScore(s) = Mean(f, s)
  BY DEF MeanScore
<1>4. /\ MeanOf("accuracy", s) = Mean(f1, s) /\ MeanOf("cost_usd", s) = Mean(f2, s)
      /\ MeanOf("latency_ms", s) = Mean(f3, s)
  BY Zenon DEF MeanOf, Field
<1> HIDE DEF f, f1, f2, f3, w1, w2, w3
<1>5. /\ \A b \in TopologyOutcomes : f[b] \in Int /\ f1[b] \in Int /\ f2[b] \in Int /\ f3[b] \in Int
      /\ \A b \in TopologyOutcomes : f[b] = w1 * f1[b] + w2 * f2[b] + w3 * f3[b]
  BY <1>2
<1>6. /\ Sum(f, s) \in Int /\ Sum(f1, s) \in Int /\ Sum(f2, s) \in Int /\ Sum(f3, s) \in Int
      /\ Sum(f, s) = w1 * Sum(f1, s) + w2 * Sum(f2, s) + w3 * Sum(f3, s)
  <2>1. IsWeighted(TopologyOutcomes, f, f1, f2, f3, w1, w2, w3)
    BY <1>1, <1>5 DEF IsWeighted
  <2>. QED
    BY <2>1, SumWeighted
<1>7. /\ Mean(f, s) = Sum(f, s) * k /\ Mean(f1, s) = Sum(f1, s) * k
      /\ Mean(f2, s) = Sum(f2, s) * k /\ Mean(f3, s) = Sum(f3, s) * k
      /\ k \in Nat \ {0}
  <2>1. \A b \in TopologyOutcomes : f[b] \in Int
    BY <1>5
  <2>2. \A b \in TopologyOutcomes : f1[b] \in Int
    BY <1>5
  <2>3. \A b \in TopologyOutcomes : f2[b] \in Int
    BY <1>5
  <2>4. \A b \in TopologyOutcomes : f3[b] \in Int
    BY <1>5
  <2>5. Mean(f, s) = Sum(f, s) * k /\ k \in Nat \ {0}
    BY <2>1, MeanIs, Zenon
  <2>6. Mean(f1, s) = Sum(f1, s) * k
    BY <2>2, MeanIs, Zenon
  <2>7. Mean(f2, s) = Sum(f2, s) * k
    BY <2>3, MeanIs, Zenon
  <2>8. Mean(f3, s) = Sum(f3, s) * k
    BY <2>4, MeanIs, Zenon
  <2>. QED
    BY <2>5, <2>6, <2>7, <2>8
<1> HIDE DEF k
<1> DEFINE a1 == Sum(f1, s)
           a2 == Sum(f2, s)
           a3 == Sum(f3, s)
<1>8. k \in Int /\ a1 \in Int /\ a2 \in Int /\ a3 \in Int
  BY <1>6, <1>7
<1>9. Mean(f, s) = (w1 * a1 + w2 * a2 + w3 * a3) * k
  BY <1>6, <1>7, Zenon
<1>10. Mean(f1, s) = a1 * k /\ Mean(f2, s) = a2 * k /\ Mean(f3, s) = a3 * k
  BY <1>7, Zenon
<1> HIDE DEF a1, a2, a3
<1>11. /\ (w1 * a1 + w2 * a2 + w3 * a3) * k = w1 * (a1 * k) + w2 * (a2 * k) + w3 * (a3 * k)
       /\ (w1 * a1 + w2 * a2 + w3 * a3) * k \in Int
       /\ a1 * k \in Int /\ a2 * k \in Int /\ a3 * k \in Int
  <2>1. Numbers(k, w1, w2, w3, a1, a2, a3)
    BY <1>1, <1>8 DEF Numbers
  <2>. QED
    BY <2>1, ScaledWeights, Zenon
<1>. QED
  BY <1>3, <1>4, <1>9, <1>10, <1>11, Zenon DEF Weighted, w1, w2, w3

Better(a, c, l, a2, c2, l2) ==
    /\ a \in Int /\ c \in Int /\ l \in Int /\ a2 \in Int /\ c2 \in Int /\ l2 \in Int
    /\ a >= a2 /\ c <= c2 /\ l <= l2 /\ (a > a2 \/ c < c2 \/ l < l2)

LEMMA WeightedMonotone ==
  ASSUME SignedWeights, NEW a, NEW c, NEW l, NEW a2, NEW c2, NEW l2, Better(a, c, l, a2, c2, l2)
  PROVE  Weighted(a, c, l) > Weighted(a2, c2, l2)
<1>. /\ a \in Int /\ c \in Int /\ l \in Int /\ a2 \in Int /\ c2 \in Int /\ l2 \in Int
     /\ a >= a2 /\ c <= c2 /\ l <= l2 /\ (a > a2 \/ c < c2 \/ l < l2)
  BY DEF Better
<1> DEFINE w1 == Weights.accuracy
           w2 == Weights.cost_usd
           w3 == Weights.latency_ms
<1>1. w1 \in Int /\ w2 \in Int /\ w3 \in Int /\ w1 > 0 /\ w2 < 0 /\ w3 < 0
  BY WeightsAssumption DEF SignedWeights
<1> HIDE DEF w1, w2, w3
<1> SUFFICES w1 * a + w2 * c + w3 * l > w1 * a2 + w2 * c2 + w3 * l2
  BY DEF Weighted, w1, w2, w3
<1>2. ASSUME NEW w \in Int, NEW x \in Int, NEW y \in Int, w > 0, x >= y
      PROVE  w * x >= w * y /\ (x > y => w * x > w * y) /\ w * x \in Int /\ w * y \in Int
  <2>1. w * (x - y) >= 0 /\ (x > y => w * (x - y) > 0)
    BY <1>2
  <2>2. w * (x - y) = w * x - w * y /\ w * x \in Int /\ w * y \in Int
    OBVIOUS
  <2>. QED
    BY <2>1, <2>2
<1>3. ASSUME NEW w \in Int, NEW x \in Int, NEW y \in Int, w < 0, x <= y
      PROVE  w * x >= w * y /\ (x < y => w * x > w * y) /\ w * x \in Int /\ w * y \in Int
  <2>1. w * (x - y) >= 0 /\ (x < y => w * (x - y) > 0)
    BY <1>3
  <2>2. w * (x - y) = w * x - w * y /\ w * x \in Int /\ w * y \in Int
    OBVIOUS
  <2>. QED
    BY <2>1, <2>2
<1>4. w1 * a >= w1 * a2 /\ (a > a2 => w1 * a > w1 * a2) /\ w1 * a \in Int /\ w1 * a2 \in Int
  BY <1>1, <1>2
<1>5. w2 * c >= w2 * c2 /\ (c < c2 => w2 * c > w2 * c2) /\ w2 * c \in Int /\ w2 * c2 \in Int
  BY <1>1, <1>3
<1>6. w3 * l >= w3 * l2 /\ (l < l2 => w3 * l > w3 * l2) /\ w3 * l \in Int /\ w3 * l2 \in Int
  BY <1>1, <1>3
<1>. QED
  BY <1>4, <1>5, <1>6

(* A dominated entry scores less. *)
LEMMA DominatedScoresLess ==
  ASSUME SignedWeights, NEW s \in Seq(TopologyOutcomes), Len(s) > 0, Scale % Len(s) = 0,
         NEW t \in Seq(TopologyOutcomes), Len(t) > 0, Scale % Len(t) = 0, Dominates(s, t)
  PROVE  MeanScore(s) > MeanScore(t)
<1> DEFINE a == MeanOf("accuracy", s) c == MeanOf("cost_usd", s) l == MeanOf("latency_ms", s)
           a2 == MeanOf("accuracy", t) c2 == MeanOf("cost_usd", t) l2 == MeanOf("latency_ms", t)
<1>1. a \in Int /\ c \in Int /\ l \in Int /\ MeanScore(s) = Weighted(a, c, l)
  BY ScoreIs
<1>2. a2 \in Int /\ c2 \in Int /\ l2 \in Int /\ MeanScore(t) = Weighted(a2, c2, l2)
  BY ScoreIs
<1>3. LET better == <<a - a2, c2 - c, l2 - l>>
      IN (\A i \in 1..3 : better[i] >= 0) /\ (\E i \in 1..3 : better[i] > 0)
  BY Zenon DEF Dominates
<1> HIDE DEF a, c, l, a2, c2, l2
<1>4. a - a2 >= 0 /\ c2 - c >= 0 /\ l2 - l >= 0 /\ (a - a2 > 0 \/ c2 - c > 0 \/ l2 - l > 0)
  BY <1>3
<1>5. Better(a, c, l, a2, c2, l2)
  BY <1>1, <1>2, <1>4 DEF Better
<1>. QED
  BY <1>1, <1>2, <1>5, WeightedMonotone, Zenon

-----------------------------------------------------------------------------
(* A nonempty archive whose scores are numbers has a first best entry. *)
LEMMA BestExists ==
  ASSUME NEW a, NEW n \in Nat \ {0}, DOMAIN a = 1..n, \A i \in 1..n : a[i].score \in Int
  PROVE  /\ BestIdx(a) \in 1..n
         /\ \A j \in 1..n : a[BestIdx(a)].score >= a[j].score
         /\ \A j \in 1..(BestIdx(a) - 1) : a[j].score < a[BestIdx(a)].score
<1> DEFINE First(m, i) == /\ i \in 1..m
                          /\ \A j \in 1..m : a[i].score >= a[j].score
                          /\ \A j \in 1..(i - 1) : a[j].score < a[i].score
           V == {m \in 1..n : ~ \E i : First(m, i)}
<1>1. First(1, 1)
  OBVIOUS
<1>2. ASSUME NEW m \in 1..n, NEW i, First(m - 1, i) PROVE \E k : First(m, k)
  <2>1. m \in Int /\ i \in 1..(m - 1) /\ i \in 1..n /\ a[i].score \in Int /\ a[m].score \in Int
    BY <1>2
  <2>2. \A j \in 1..m : j = m \/ j \in 1..(m - 1)
    BY <2>1
  <2>3. \A j \in 1..(m - 1) : j \in 1..n /\ a[j].score \in Int /\ a[i].score >= a[j].score
    BY <1>2, <2>1
  <2>4. CASE a[m].score > a[i].score
    <3>1. \A j \in 1..(m - 1) : a[j].score < a[m].score
      BY <2>1, <2>3, <2>4
    <3>2. \A j \in 1..m : a[m].score >= a[j].score
      BY <2>1, <2>2, <2>3, <3>1
    <3>3. m \in 1..m
      BY <2>1
    <3>. QED
      BY <3>1, <3>2, <3>3
  <2>5. CASE ~(a[m].score > a[i].score)
    <3>1. \A j \in 1..m : a[i].score >= a[j].score
      BY <2>1, <2>2, <2>3, <2>5
    <3>2. i \in 1..m
      BY <2>1
    <3>. QED
      BY <1>2, <3>1, <3>2
  <2>. QED
    BY <2>4, <2>5
<1>3. \A m \in V : m - 1 \in V
  <2> SUFFICES ASSUME NEW m \in V, m - 1 \notin V PROVE FALSE
    OBVIOUS
  <2>1. m \in 1..n /\ ~ \E i : First(m, i)
    OBVIOUS
  <2>2. m # 1
    BY <1>1, <2>1
  <2>3. m - 1 \in 1..n
    BY <2>1, <2>2
  <2>4. \E i : First(m - 1, i)
    BY <2>3
  <2> HIDE DEF First
  <2>. QED
    BY <1>2, <2>1, <2>4
<1>4. V = {}
  <2>1. V \in SUBSET (1..n)
    OBVIOUS
  <2> HIDE DEF V
  <2>. QED
    BY <1>3, <2>1, Descent
<1>5. \E i : First(n, i)
  <2>1. n \in 1..n
    OBVIOUS
  <2>. QED
    BY <1>4, <2>1
<1>6. \E i \in DOMAIN a : /\ \A j \in DOMAIN a : a[i].score >= a[j].score
                          /\ \A j \in 1..(i - 1) : a[j].score < a[i].score
  BY <1>5
<1>. QED
  BY <1>6, Zenon DEF BestIdx

(* Ties are broken alike: a view that shows any entry shows the best.      *)
LEMMA BestIsShown ==
  ASSUME NEW a, NEW n \in Nat \ {0}, DOMAIN a = 1..n, \A i \in 1..n : a[i].score \in Int,
         NEW mode \in {"top_k", "cumulative"}
  PROVE  BestIdx(a) \in View(a, mode, ArchiveSize)
<1> DEFINE b == BestIdx(a)
           above(i) == {j \in DOMAIN a : \/ a[j].score > a[i].score
                                         \/ a[j].score = a[i].score /\ j < i}
<1>1. /\ b \in 1..n /\ \A j \in 1..n : a[b].score >= a[j].score
      /\ \A j \in 1..(b - 1) : a[j].score < a[b].score
  BY BestExists
<1> HIDE DEF b
<1>2. above(b) = {}
  <2> SUFFICES ASSUME NEW j \in above(b) PROVE FALSE
    OBVIOUS
  <2>1. j \in 1..n /\ a[j].score \in Int /\ a[b].score \in Int /\ a[b].score >= a[j].score
    BY <1>1
  <2>2. a[j].score = a[b].score /\ j < b
    BY <2>1
  <2>3. j \in 1..(b - 1)
    BY <1>1, <2>1, <2>2
  <2>. QED
    BY <1>1, <2>1, <2>2, <2>3
<1>3. CASE mode = "top_k"
  <2>1. View(a, mode, ArchiveSize) = {i \in DOMAIN a : Cardinality(above(i)) < ArchiveSize}
    BY <1>3 DEF View
  <2>2. Cardinality(above(b)) = 0
    <3> HIDE DEF above
    <3>. QED
      BY <1>2, FS_EmptySet
  <2>3. 0 < ArchiveSize
    BY ConfigAssumption DEF ValidConfig
  <2>4. Cardinality(above(b)) < ArchiveSize
    BY <2>2, <2>3, Zenon
  <2> HIDE DEF above
  <2>. QED
    BY <1>1, <2>1, <2>4 DEF b
<1>4. CASE mode = "cumulative"
  BY <1>1, <1>4 DEF View, b
<1>. QED
  BY <1>3, <1>4

(* The best by score is dominated by none. *)
LEMMA BestIsOnFront ==
  ASSUME SignedWeights, NEW a, NEW n \in Nat \ {0}, DOMAIN a = 1..n,
         \A i \in 1..n : /\ a[i].bundles \in Seq(TopologyOutcomes)
                         /\ Len(a[i].bundles) > 0 /\ Scale % Len(a[i].bundles) = 0
                         /\ a[i].score = MeanScore(a[i].bundles)
  PROVE  BestIdx(a) \in ParetoFront(a)
<1> DEFINE b == BestIdx(a)
<1>1. \A i \in 1..n : a[i].score \in Int
  BY ScoreIs
<1>2. b \in 1..n /\ \A j \in 1..n : a[b].score >= a[j].score
  BY <1>1, BestExists
<1> HIDE DEF b
<1>3. ASSUME NEW j \in 1..n, Dominates(a[j].bundles, a[b].bundles) PROVE FALSE
  <2>1. MeanScore(a[j].bundles) > MeanScore(a[b].bundles)
    BY <1>2, <1>3, DominatedScoresLess
  <2>2. a[j].score > a[b].score
    BY <1>2, <2>1
  <2>. QED
    BY <1>1, <1>2, <2>2
<1>. QED
  BY <1>2, <1>3 DEF ParetoFront, b

-----------------------------------------------------------------------------
(* The inductive invariant.  Of the archive: every entry is on a number of *)
(* examples that divides the unit and has the score of its bundles, and a  *)
(* design in it ran and had its parent before it.                          *)
Justified(mode, e) ==
    e.parent # 0 => /\ ~AllErrored(e.bundles)
                    /\ mode # "parallel" => e.parent \in e.shown

Scored(e) ==
    /\ e.bundles \in Seq(TopologyOutcomes)
    /\ Len(e.bundles) > 0 /\ Scale % Len(e.bundles) = 0
    /\ e.score = MeanScore(e.bundles)

ArchiveInv ==
    /\ archive \in Seq(ArchiveEntry)
    /\ \A i \in 1..Len(archive) : Scored(archive[i]) /\ Justified(strategy, archive[i])

SearchTypes ==
    /\ strategy \in Strategies
    /\ stage \in {"idle", "seed", "design", "reflexion", "evaluate", "debug", "result"}
    /\ generation \in 0..Generations /\ passes \in 0..ReflexionPasses /\ retries \in 0..DebugMax
    /\ calls \in 0..(1 + ReflexionPasses + DebugMax)
    /\ view \in SUBSET Nat /\ skipped \in Nat

(* Of a stage: each generation was archived or skipped, the counters fit   *)
(* it, and from the design on the best entry is in the view.               *)
StageInv ==
    /\ stage \in {"idle", "seed"} => archive = <<>> /\ generation = 0 /\ skipped = 0
    /\ stage \notin {"idle", "seed"} => archive # <<>> /\ Len(archive) + skipped = 1 + generation
    /\ stage # "result" => generation < Generations
    /\ stage = "result" => generation = Generations
    /\ stage \in {"reflexion", "evaluate", "debug"} => strategy = "parallel" \/ BestIdx(archive) \in view
    /\ stage \in {"idle", "seed", "design", "result"} => calls = 0 /\ passes = 0 /\ retries = 0 /\ view = {}
    /\ stage = "reflexion" => calls = 1 + passes /\ passes < ReflexionPasses /\ retries = 0
    /\ stage \in {"evaluate", "debug"} => calls <= 1 + ReflexionPasses + retries
    /\ stage = "debug" => retries < DebugMax

SearchInv == ArchiveInv /\ SearchTypes /\ StageInv

RunnerInv ==
    /\ running \in BOOLEAN /\ run \in 0..MaxRuns /\ iteration \in 0..MaxMetricCalls
    /\ \A n \in DOMAIN Genome : Legal(Genome[n], decoded[n])
    /\ bundle \in MetricBundle \cup {None}
    /\ pending \subseteq Iterations /\ collectors \subseteq Runs
    /\ history \in [Runs -> SUBSET Iterations]
    /\ running => run \in Runs

IInv == SearchInv /\ RunnerInv /\ InnerAgentIsCurrent

(* What the configuration gives of the sizes. *)
LEMMA SizesFacts ==
  /\ Cardinality(Examples) \in Nat \ {0} /\ Scale % Cardinality(Examples) = 0
  /\ BatchSize \in Nat \ {0} /\ Scale % BatchSize = 0
  /\ Generations \in Nat \ {0} /\ ReflexionPasses \in Nat /\ DebugMax \in Nat
  /\ Strategies \subseteq {"top_k", "cumulative", "parallel"}
<1>1. Cardinality(Examples) \in Nat \ {0}
  BY ExamplesAssumption, FS_EmptySet, FS_CardinalityType
<1>2. MinibatchSize \in Nat \ {0} /\ Generations \in Nat \ {0} /\ ReflexionPasses \in Nat /\ DebugMax \in Nat
      /\ Strategies \subseteq {"top_k", "cumulative", "parallel"}
  BY ConfigAssumption DEF ValidConfig
<1>3. BatchSize \in Nat \ {0}
  BY <1>1, <1>2 DEF BatchSize
<1>. QED
  BY <1>1, <1>2, <1>3, BatchesAssumption

(* An entry for an evaluation on m examples. *)
LEMMA EntryFacts ==
  ASSUME NEW m \in Nat \ {0}, Scale % m = 0, NEW s \in [1..m -> TopologyOutcomes],
         NEW g \in -1..(Generations - 1), NEW p \in Nat, view \in SUBSET Nat
  PROVE  /\ Entry(g, s, p) \in ArchiveEntry /\ Scored(Entry(g, s, p))
         /\ Entry(g, s, p).parent = p /\ Entry(g, s, p).bundles = s /\ Entry(g, s, p).shown = view
<1>1. s \in Seq(TopologyOutcomes) /\ Len(s) = m
  OBVIOUS
<1>2. s \in Seq(MetricBundle)
  BY TopologyFacts
<1>3. MeanScore(s) \in Int
  BY <1>1, ScoreIs
<1>4. /\ Entry(g, s, p).parent = p /\ Entry(g, s, p).bundles = s /\ Entry(g, s, p).shown = view
      /\ Entry(g, s, p).score = MeanScore(s)
  BY DEF Entry
<1>5. Entry(g, s, p) \in ArchiveEntry
  BY <1>2, <1>3 DEF Entry, ArchiveEntry
<1>6. Scored(Entry(g, s, p))
  BY <1>1, <1>4 DEF Scored
<1>. QED
  BY <1>4, <1>5, <1>6

(* An entry with the invariant's properties may be archived. *)
LEMMA Archived ==
  ASSUME ArchiveInv, NEW e \in ArchiveEntry, Scored(e), Justified(strategy, e), Add(e), strategy' = strategy
  PROVE  /\ ArchiveInv' /\ archive' # <<>> /\ Len(archive') = Len(archive) + 1
<1>1. archive \in Seq(ArchiveEntry) /\ archive' = Append(archive, e)
  BY DEF ArchiveInv, Add
<1>2. archive' \in Seq(ArchiveEntry) /\ Len(archive') = Len(archive) + 1 /\ Len(archive) \in Nat
  BY <1>1
<1>3. ASSUME NEW i \in 1..Len(archive') PROVE Scored(archive'[i]) /\ Justified(strategy, archive'[i])
  <2>1. CASE i = Len(archive) + 1
    <3>1. archive'[i] = e
      BY <1>1, <2>1
    <3>. QED
      BY <3>1
  <2>2. CASE i \in 1..Len(archive)
    <3>1. archive'[i] = archive[i]
      BY <1>1, <2>2
    <3>2. Scored(archive[i]) /\ Justified(strategy, archive[i])
      BY <2>2 DEF ArchiveInv
    <3>. QED
      BY <3>1, <3>2
  <2>. QED
    BY <1>2, <2>1, <2>2
<1>4. archive' # <<>>
  BY <1>2
<1>. QED
  BY <1>2, <1>3, <1>4 DEF ArchiveInv, Scored

(* What the archive's invariant says of its best entry. *)
LEMMA BestFacts ==
  ASSUME ArchiveInv, archive # <<>>
  PROVE  /\ BestIdx(archive) \in 1..Len(archive)
         /\ SignedWeights => BestIdx(archive) \in ParetoFront(archive)
         /\ \A mode \in {"top_k", "cumulative"} : BestIdx(archive) \in View(archive, mode, ArchiveSize)
<1>1. /\ Len(archive) \in Nat \ {0} /\ DOMAIN archive = 1..Len(archive)
      /\ \A i \in 1..Len(archive) : archive[i] \in ArchiveEntry
  BY DEF ArchiveInv
<1>2. \A i \in 1..Len(archive) : archive[i].score \in Int
  BY <1>1 DEF ArchiveEntry
<1>3. \A i \in 1..Len(archive) : /\ archive[i].bundles \in Seq(TopologyOutcomes)
                                 /\ Len(archive[i].bundles) > 0 /\ Scale % Len(archive[i].bundles) = 0
                                 /\ archive[i].score = MeanScore(archive[i].bundles)
  BY DEF ArchiveInv, Scored
<1>4. BestIdx(archive) \in 1..Len(archive)
  BY <1>1, <1>2, BestExists
<1>5. SignedWeights => BestIdx(archive) \in ParetoFront(archive)
  BY <1>1, <1>3, BestIsOnFront
<1>6. ASSUME NEW mode \in {"top_k", "cumulative"} PROVE BestIdx(archive) \in View(archive, mode, ArchiveSize)
  BY <1>1, <1>2, BestIsShown
<1>. QED
  BY <1>4, <1>5, <1>6

-----------------------------------------------------------------------------
LEMMA InitInv == Init => IInv
<1> SUFFICES ASSUME Init PROVE IInv
  OBVIOUS
<1>1. SearchInv
  <2>1. ArchiveInv
    BY DEF Init, ArchiveInv
  <2>2. SearchTypes /\ StageInv
    BY SizesFacts DEF Init, SearchTypes, StageInv
  <2>. QED
    BY <2>1, <2>2 DEF SearchInv
<1>2. RunnerInv
  <2>1. MaxRuns \in Nat /\ MaxMetricCalls \in Nat
    BY BoundsAssumption
  <2>2. \A n \in DOMAIN Genome : Legal(Genome[n], Initials[n])
    BY DecodeLegal
  <2>3. /\ running = FALSE /\ run = 0 /\ iteration = 0 /\ decoded = Initials /\ bundle = None
        /\ pending = {} /\ collectors = {} /\ history = [r \in Runs |-> {}]
    BY DEF Init
  <2>4. \A n \in DOMAIN Genome : Legal(Genome[n], decoded[n])
    BY <2>2, <2>3, Zenon
  <2>5. history \in [Runs -> SUBSET Iterations]
    BY <2>3
  <2>6. run \in 0..MaxRuns /\ iteration \in 0..MaxMetricCalls
    BY <2>1, <2>3
  <2>. QED
    BY <2>3, <2>4, <2>5, <2>6 DEF RunnerInv
<1>3. InnerAgentIsCurrent
  BY DEF Init, InnerAgentIsCurrent
<1>. QED
  BY <1>1, <1>2, <1>3 DEF IInv

(* Nothing of the archive changes with the rest of the search. *)
LEMMA ArchiveKept ==
  ASSUME ArchiveInv, archive' = archive, strategy' = strategy
  PROVE  ArchiveInv'
BY DEF ArchiveInv

(* A generation ends with an entry more, or one more skipped. *)
LEMMA GenerationEnds ==
  ASSUME SearchInv, NextGeneration, stage \notin {"idle", "seed", "result"}, skipped' \in Nat,
         ArchiveInv', archive' # <<>>, Len(archive') + skipped' = Len(archive) + skipped + 1
  PROVE  SearchInv'
<1>1. generation < Generations /\ generation \in Nat /\ Len(archive) + skipped = 1 + generation
  BY DEF SearchInv, SearchTypes, StageInv
<1>2. SearchTypes'
  BY <1>1, SizesFacts DEF SearchInv, SearchTypes, NextGeneration
<1>3. Len(archive') + skipped' = 1 + generation'
  BY <1>1 DEF NextGeneration
<1>4. StageInv'
  BY <1>1, <1>3, SizesFacts DEF StageInv, NextGeneration
<1>. QED
  BY <1>2, <1>4 DEF SearchInv

LEMMA SkipInv ==
  ASSUME SearchInv, stage \notin {"idle", "seed", "result"}, Skip
  PROVE  SearchInv'
<1>1. ArchiveInv'
  BY ArchiveKept DEF SearchInv, Skip, NextGeneration
<1>2. archive' # <<>> /\ skipped' = skipped + 1 /\ skipped \in Nat
  BY DEF SearchInv, SearchTypes, StageInv, Skip
<1>3. Len(archive) \in Nat /\ archive' = archive
  BY DEF SearchInv, ArchiveInv, Skip
<1>4. Len(archive') + skipped' = Len(archive) + skipped + 1
  BY <1>2, <1>3
<1>5. NextGeneration
  BY DEF Skip
<1>. QED
  BY <1>1, <1>2, <1>4, <1>5, GenerationEnds

LEMMA SearchStarts ==
  ASSUME SearchInv, Search
  PROVE  SearchInv'
<1>1. ArchiveInv'
  BY ArchiveKept DEF SearchInv, Search
<1>2. SearchTypes' /\ StageInv'
  BY DEF SearchInv, SearchTypes, StageInv, Search
<1>. QED
  BY <1>1, <1>2 DEF SearchInv

LEMMA SeedInv ==
  ASSUME SearchInv, SeedEvaluated
  PROVE  SearchInv'
<1>1. PICK s \in [1..Cardinality(Examples) -> TopologyOutcomes] : Add(Entry(-1, s, 0))
  BY DEF SeedEvaluated
<1>2. /\ stage = "seed" /\ archive = <<>> /\ generation = 0 /\ skipped = 0
      /\ view \in SUBSET Nat /\ ArchiveInv
  BY DEF SearchInv, SearchTypes, StageInv, SeedEvaluated
<1> DEFINE e == Entry(-1, s, 0)
<1>3. e \in ArchiveEntry /\ Scored(e) /\ e.parent = 0
  <2>1. -1 \in -1..(Generations - 1) /\ 0 \in Nat
    BY SizesFacts
  <2>2. Cardinality(Examples) \in Nat \ {0} /\ Scale % Cardinality(Examples) = 0
    BY SizesFacts
  <2>. QED
    BY <1>2, <2>1, <2>2, EntryFacts
<1> HIDE DEF e
<1>4. Justified(strategy, e)
  BY <1>3 DEF Justified
<1>5. Add(e) /\ strategy' = strategy
  BY <1>1 DEF e, SeedEvaluated
<1>6. ArchiveInv' /\ archive' # <<>> /\ Len(archive') = 1
  BY <1>2, <1>3, <1>4, <1>5, Archived
<1>7. SearchTypes'
  BY DEF SearchInv, SearchTypes, SeedEvaluated
<1>8. StageInv'
  BY <1>2, <1>6 DEF SearchInv, StageInv, SeedEvaluated
<1>. QED
  BY <1>6, <1>7, <1>8 DEF SearchInv

LEMMA DesignInv ==
  ASSUME SearchInv, DesignStep
  PROVE  SearchInv'
<1>1. stage = "design"
  BY DEF DesignStep
<1>2. CASE Skip
  BY <1>1, <1>2, SkipInv
<1>3. CASE /\ Proceed(IF ReflexionPasses = 0 THEN "evaluate" ELSE "reflexion")
           /\ BuildDesignPrompt
           /\ UNCHANGED <<passes, retries>>
  <2>1. ArchiveInv' /\ archive' = archive /\ strategy' = strategy
    BY <1>3, ArchiveKept DEF SearchInv, Proceed
  <2>2. strategy = "parallel" \/ BestIdx(archive) \in view'
    <3>1. ArchiveInv /\ archive # <<>> /\ strategy \in {"top_k", "cumulative", "parallel"}
      BY <1>1, SizesFacts DEF SearchInv, SearchTypes, StageInv
    <3>2. view' = View(archive, strategy, ArchiveSize)
      BY <1>3 DEF BuildDesignPrompt
    <3>. QED
      BY <3>1, <3>2, BestFacts
  <2>3. view' \in SUBSET Nat
    <3>1. DOMAIN archive \subseteq Nat
      BY DEF SearchInv, ArchiveInv
    <3>2. View(archive, strategy, ArchiveSize) \subseteq DOMAIN archive
      BY SizesFacts DEF View, SearchInv, SearchTypes
    <3>. QED
      BY <1>3, <3>1, <3>2 DEF BuildDesignPrompt
  <2>4. calls = 0 /\ passes = 0 /\ retries = 0 /\ ReflexionPasses \in Nat /\ DebugMax \in Nat
    BY <1>1, SizesFacts DEF SearchInv, StageInv
  <2>5. /\ stage' = IF ReflexionPasses = 0 THEN "evaluate" ELSE "reflexion"
        /\ calls' = calls + 1 /\ passes' = passes /\ retries' = retries
        /\ generation' = generation /\ skipped' = skipped
    BY <1>3 DEF Proceed
  <2>6. SearchTypes'
    BY <2>1, <2>3, <2>4, <2>5 DEF SearchInv, SearchTypes
  <2>7. StageInv'
    BY <1>1, <2>1, <2>2, <2>4, <2>5 DEF SearchInv, StageInv
  <2>. QED
    BY <2>1, <2>6, <2>7 DEF SearchInv
<1>. QED
  BY <1>2, <1>3 DEF DesignStep

LEMMA ReflexionInv ==
  ASSUME SearchInv, ReflexionStep
  PROVE  SearchInv'
<1>1. /\ stage = "reflexion" /\ calls = 1 + passes /\ passes < ReflexionPasses /\ retries = 0
      /\ passes \in Nat /\ ReflexionPasses \in Nat /\ DebugMax \in Nat
  BY SizesFacts DEF SearchInv, SearchTypes, StageInv, ReflexionStep
<1>2. PICK next \in {"evaluate", "reflexion"} :
          /\ Proceed(next)
          /\ \/ /\ passes' = passes + 1
                /\ next = IF passes + 1 = ReflexionPasses THEN "evaluate" ELSE "reflexion"
             \/ passes' = passes /\ next = "evaluate"
  BY DEF ReflexionStep, Revised
<1>3. /\ stage' = next /\ calls' = calls + 1 /\ view' = view /\ retries' = retries
      /\ strategy' = strategy /\ generation' = generation /\ archive' = archive /\ skipped' = skipped
  BY <1>2 DEF Proceed, ReflexionStep
<1>4. ArchiveInv'
  BY <1>3, ArchiveKept DEF SearchInv
<1>5. SearchTypes'
  BY <1>1, <1>2, <1>3 DEF SearchInv, SearchTypes
<1>6. StageInv'
  BY <1>1, <1>2, <1>3 DEF SearchInv, StageInv
<1>. QED
  BY <1>4, <1>5, <1>6 DEF SearchInv

LEMMA EvaluateInv ==
  ASSUME SearchInv, Evaluate
  PROVE  SearchInv'
<1>1. PICK s \in [1..BatchSize -> TopologyOutcomes] :
          IF ~AllErrored(s)
          THEN /\ Add(Entry(generation, s, BestIdx(archive)))
               /\ NextGeneration
               /\ UNCHANGED skipped
          ELSE IF retries >= DebugMax THEN Skip
          ELSE /\ stage' = "debug"
               /\ UNCHANGED <<strategy, generation, passes, retries, calls, archive, view, skipped,
                              gepa, target>>
  BY DEF Evaluate
<1>2. /\ stage = "evaluate" /\ ArchiveInv /\ archive # <<>> /\ view \in SUBSET Nat
      /\ strategy = "parallel" \/ BestIdx(archive) \in view
      /\ generation \in 0..(Generations - 1) /\ Generations \in Nat /\ skipped \in Nat
      /\ retries \in Nat /\ DebugMax \in Nat
  BY SizesFacts DEF SearchInv, SearchTypes, StageInv, Evaluate
<1>3. CASE ~AllErrored(s)
  <2> DEFINE e == Entry(generation, s, BestIdx(archive))
  <2>1. Add(e) /\ NextGeneration /\ skipped' = skipped /\ strategy' = strategy
    BY <1>1, <1>3 DEF NextGeneration
  <2>2. BestIdx(archive) \in Nat
    BY <1>2, BestFacts
  <2>3. /\ e \in ArchiveEntry /\ Scored(e)
        /\ e.parent = BestIdx(archive) /\ e.bundles = s /\ e.shown = view
    <3>1. generation \in -1..(Generations - 1)
      BY <1>2
    <3>2. BatchSize \in Nat \ {0} /\ Scale % BatchSize = 0
      BY SizesFacts
    <3>. QED
      BY <1>2, <2>2, <3>1, <3>2, EntryFacts
  <2> HIDE DEF e
  <2>4. Justified(strategy, e)
    BY <1>2, <1>3, <2>3 DEF Justified
  <2>5. ArchiveInv' /\ archive' # <<>> /\ Len(archive') = Len(archive) + 1
    BY <1>2, <2>1, <2>3, <2>4, Archived
  <2>6. Len(archive') + skipped' = Len(archive) + skipped + 1 /\ skipped' \in Nat
    BY <1>2, <2>1, <2>5 DEF ArchiveInv
  <2>. QED
    BY <1>2, <2>1, <2>5, <2>6, GenerationEnds
<1>4. CASE AllErrored(s) /\ retries >= DebugMax
  BY <1>1, <1>2, <1>4, SkipInv
<1>5. CASE AllErrored(s) /\ ~(retries >= DebugMax)
  <2>1. /\ stage' = "debug" /\ strategy' = strategy /\ generation' = generation /\ passes' = passes
        /\ retries' = retries /\ calls' = calls /\ archive' = archive /\ view' = view
        /\ skipped' = skipped
    BY <1>1, <1>5
  <2>2. ArchiveInv'
    BY <2>1, ArchiveKept DEF SearchInv
  <2>3. SearchTypes'
    BY <2>1 DEF SearchInv, SearchTypes
  <2>4. retries < DebugMax
    BY <1>2, <1>5
  <2>5. StageInv'
    BY <1>2, <2>1, <2>4 DEF SearchInv, StageInv
  <2>. QED
    BY <2>2, <2>3, <2>5 DEF SearchInv
<1>. QED
  BY <1>3, <1>4, <1>5

LEMMA DebugInv ==
  ASSUME SearchInv, DebugRetryStep
  PROVE  SearchInv'
<1>1. /\ stage = "debug" /\ retries < DebugMax /\ retries \in Nat /\ calls \in Nat
      /\ calls <= 1 + ReflexionPasses + retries /\ DebugMax \in Nat /\ ReflexionPasses \in Nat
  BY SizesFacts DEF SearchInv, SearchTypes, StageInv, DebugRetryStep
<1>2. CASE Skip
  BY <1>1, <1>2, SkipInv
<1>3. CASE Repaired /\ UNCHANGED <<passes, view>>
  <2>1. /\ stage' = "evaluate" /\ strategy' = strategy /\ generation' = generation /\ passes' = passes
        /\ retries' = retries + 1 /\ calls' = calls + 1 /\ archive' = archive /\ view' = view
        /\ skipped' = skipped
    BY <1>3 DEF Repaired, Proceed
  <2>2. ArchiveInv'
    BY <2>1, ArchiveKept DEF SearchInv
  <2>3. SearchTypes'
    BY <1>1, <2>1 DEF SearchInv, SearchTypes
  <2>4. StageInv'
    BY <1>1, <2>1 DEF SearchInv, StageInv
  <2>. QED
    BY <2>2, <2>3, <2>4 DEF SearchInv
<1>. QED
  BY <1>2, <1>3 DEF DebugRetryStep

-----------------------------------------------------------------------------
LEMMA RunnerFacts ==
  ASSUME RunnerInv
  PROVE  /\ run \in 0..MaxRuns /\ iteration \in 0..MaxMetricCalls
         /\ MaxRuns \in Nat /\ MaxMetricCalls \in Nat
         /\ running => <<run, iteration + 1>> \in Iterations \/ ~(iteration < MaxMetricCalls)
<1>1. MaxRuns \in Nat /\ MaxMetricCalls \in Nat
  BY BoundsAssumption
<1>2. iteration \in 0..MaxMetricCalls /\ run \in 0..MaxRuns /\ (running => run \in Runs)
  BY DEF RunnerInv
<1>3. iteration < MaxMetricCalls => iteration + 1 \in 1..MaxMetricCalls
  BY <1>1, <1>2
<1>. QED
  BY <1>1, <1>2, <1>3 DEF Iterations

LEMMA OptimizeInv ==
  ASSUME RunnerInv, Optimize
  PROVE  RunnerInv'
<1>1. /\ run < MaxRuns /\ running' = TRUE /\ run' = run + 1 /\ iteration' = 0
      /\ collectors' = collectors \cup {run + 1}
      /\ decoded' = decoded /\ bundle' = bundle /\ pending' = pending /\ history' = history
  BY DEF Optimize, WireHistoryCollector
<1>2. run + 1 \in Runs /\ run + 1 \in 0..MaxRuns /\ 0 \in 0..MaxMetricCalls
  BY <1>1, RunnerFacts DEF Runs
<1>. QED
  BY <1>1, <1>2 DEF RunnerInv

LEMMA EvaluateCandidateInv ==
  ASSUME RunnerInv, EvaluateCandidate
  PROVE  RunnerInv'
<1>1. PICK c \in Candidates : decoded' = Decode(Genome, c)
  BY DEF EvaluateCandidate
<1>2. PICK trials \in [1..Trials -> Outcomes] : bundle' = EvaluateOne(trials)
  BY DEF EvaluateCandidate, EvaluateBatch
<1>3. /\ running /\ iteration < MaxMetricCalls /\ iteration' = iteration + 1
      /\ pending' = pending \cup {<<run, iteration + 1>>}
      /\ running' = running /\ run' = run /\ collectors' = collectors /\ history' = history
  BY DEF EvaluateCandidate, EmitIterationSummary
<1>4. \A n \in DOMAIN Genome : Legal(Genome[n], decoded'[n])
  BY <1>1, DecodeLegal
<1>5. bundle' \in MetricBundle
  BY <1>2, EvaluateOneType
<1>6. iteration' \in 0..MaxMetricCalls /\ <<run, iteration + 1>> \in Iterations
  BY <1>3, RunnerFacts
<1>. QED
  BY <1>3, <1>4, <1>5, <1>6 DEF RunnerInv

LEMMA DeliverInv ==
  ASSUME RunnerInv, Deliver
  PROVE  RunnerInv'
<1>1. PICK e \in pending :
          /\ pending' = pending \ {e}
          /\ history' = [r \in Runs |-> IF r \in collectors THEN history[r] \cup {e} ELSE history[r]]
  BY DEF Deliver
<1>2. /\ running' = running /\ run' = run /\ iteration' = iteration /\ decoded' = decoded
      /\ bundle' = bundle /\ collectors' = collectors
  BY DEF Deliver
<1>3. e \in Iterations /\ history \in [Runs -> SUBSET Iterations] /\ pending \subseteq Iterations
  BY DEF RunnerInv
<1>4. history' \in [Runs -> SUBSET Iterations]
  BY <1>1, <1>3
<1>5. pending' \subseteq Iterations
  BY <1>1, <1>3
<1>. QED
  BY <1>2, <1>4, <1>5 DEF RunnerInv

-----------------------------------------------------------------------------
(* Searches, optimizations and applications of results leave the state of  *)
(* the others alone.                                                       *)
LEMMA NextInv == IInv /\ [Next]_vars => IInv'
<1> SUFFICES ASSUME IInv, [Next]_vars PROVE IInv'
  OBVIOUS
<1>1. SearchInv /\ RunnerInv /\ InnerAgentIsCurrent
  BY DEF IInv
<1>2. ASSUME UNCHANGED search PROVE SearchInv'
  BY <1>1, <1>2 DEF search, SearchInv, ArchiveInv, SearchTypes, StageInv
<1>3. ASSUME UNCHANGED gepa PROVE RunnerInv'
  BY <1>1, <1>3 DEF gepa, RunnerInv
<1>4. ASSUME UNCHANGED target PROVE InnerAgentIsCurrent'
  BY <1>1, <1>4 DEF target, InnerAgentIsCurrent
<1>5. CASE Search
  <2>1. SearchInv' /\ UNCHANGED gepa /\ UNCHANGED target
    BY <1>1, <1>5, SearchStarts DEF Search
  <2>. QED
    BY <1>3, <1>4, <2>1 DEF IInv
<1>6. CASE SearchStep
  <2>1. SearchInv'
    BY <1>1, <1>6, SeedInv, DesignInv, ReflexionInv, EvaluateInv, DebugInv DEF SearchStep
  <2>2. UNCHANGED gepa /\ UNCHANGED target
    <3>1. CASE SeedEvaluated
      BY <3>1 DEF SeedEvaluated
    <3>2. CASE DesignStep
      BY <3>2 DEF DesignStep, Proceed, Skip, NextGeneration
    <3>3. CASE ReflexionStep
      BY <3>3 DEF ReflexionStep, Revised, Proceed
    <3>4. CASE Evaluate
      BY <3>4 DEF Evaluate, Skip, NextGeneration
    <3>5. CASE DebugRetryStep
      BY <3>5 DEF DebugRetryStep, Repaired, Proceed, Skip, NextGeneration
    <3>. QED
      BY <1>6, <3>1, <3>2, <3>3, <3>4, <3>5 DEF SearchStep
  <2>. QED
    BY <1>3, <1>4, <2>1, <2>2 DEF IInv
<1>7. CASE Optimize
  <2>1. RunnerInv' /\ UNCHANGED search /\ UNCHANGED target
    BY <1>1, <1>7, OptimizeInv DEF Optimize
  <2>. QED
    BY <1>2, <1>4, <2>1 DEF IInv
<1>8. CASE EvaluateCandidate
  <2>1. RunnerInv' /\ UNCHANGED search /\ UNCHANGED target
    BY <1>1, <1>8, EvaluateCandidateInv DEF EvaluateCandidate
  <2>. QED
    BY <1>2, <1>4, <2>1 DEF IInv
<1>9. CASE GepaReturns
  <2>1. /\ running' = FALSE /\ UNCHANGED <<run, iteration, decoded, bundle, pending, collectors, history>>
        /\ UNCHANGED search /\ UNCHANGED target
    BY <1>9 DEF GepaReturns
  <2>2. RunnerInv'
    BY <1>1, <2>1 DEF RunnerInv
  <2>. QED
    BY <1>2, <1>4, <2>1, <2>2 DEF IInv
<1>10. CASE Deliver
  <2>1. RunnerInv' /\ UNCHANGED search /\ UNCHANGED target
    BY <1>1, <1>10, DeliverInv DEF Deliver
  <2>. QED
    BY <1>2, <1>4, <2>1 DEF IInv
<1>11. CASE BuildAgent
  <2>1. InnerAgentIsCurrent' /\ UNCHANGED search /\ UNCHANGED gepa
    BY <1>11 DEF BuildAgent, InnerAgentIsCurrent
  <2>. QED
    BY <1>2, <1>3, <2>1 DEF IInv
<1>12. CASE ApplyResult
  <2>1. InnerAgentIsCurrent' /\ UNCHANGED search /\ UNCHANGED gepa
    BY <1>1, <1>12 DEF ApplyResult, InnerAgentIsCurrent
  <2>. QED
    BY <1>2, <1>3, <2>1 DEF IInv
<1>13. CASE UNCHANGED vars
  <2>1. UNCHANGED search /\ UNCHANGED gepa /\ UNCHANGED target
    BY <1>13 DEF vars
  <2>. QED
    BY <1>2, <1>3, <1>4, <2>1 DEF IInv
<1>. QED
  BY <1>5, <1>6, <1>7, <1>8, <1>9, <1>10, <1>11, <1>12, <1>13 DEF Next, RunnerStep

LEMMA Invariance == Spec => []IInv
BY InitInv, NextInv, PTL DEF Spec

(* Whatever the optimizers and the applications of their results do, every *)
(* value is of its type, the genes an agent gets are legal (Genome.decode) *)
(* and the inner agent is the one of the agent's attributes (apply_result).*)
THEOREM OptimizersAreConsistent == Spec => []Consistent
<1>1. IInv => Consistent
  BY DEF IInv, SearchInv, ArchiveInv, SearchTypes, RunnerInv, Consistent, TypeOK
<1>. QED
  BY <1>1, Invariance, PTL

(* best and pareto of MetaAgentResult agree, given weights of the signs    *)
(* MetricWeights documents: of any archive, weighted sum and means, the    *)
(* entry with the best score is dominated by none.                         *)
THEOREM BestIsParetoOptimal == SignedWeights => (Spec => []WinnerOnFront)
<1> SUFFICES ASSUME SignedWeights PROVE Spec => []WinnerOnFront
  OBVIOUS
<1>1. IInv => WinnerOnFront
  BY BestFacts DEF IInv, SearchInv, WinnerOnFront
<1>. QED
  BY <1>1, Invariance, PTL

(* The parent of a design (_find_parent_idx) is among the entries its      *)
(* prompt showed (serialize_for_prompt), however scores tie.               *)
THEOREM DesignsKnowTheirParent == Spec => []ParentWasShown
<1>1. IInv => ParentWasShown
  BY DEF IInv, SearchInv, ArchiveInv, Justified, ParentWasShown
<1>. QED
  BY <1>1, Invariance, PTL

(* No design whose examples all failed is archived, and at the end every   *)
(* generation is accounted for.                                            *)
THEOREM FailuresAreNotArchived == Spec => []BrokenDesignsAreSkipped
<1>1. IInv => BrokenDesignsAreSkipped
  BY DEF IInv, SearchInv, ArchiveInv, StageInv, Justified, BrokenDesignsAreSkipped
<1>. QED
  BY <1>1, Invariance, PTL

-----------------------------------------------------------------------------
(* Orchestration.  The children a node may have running: op is the node,   *)
(* p where its run() is and f its frame.                                   *)
Awaited(op, p, f) ==
    CASE op.kind = "pipeline" /\ p = "waiting" -> {op.steps[f.at + 1]}
      [] op.kind = "parallel" /\ p \in {"waiting", "cancelled"} -> Elems(op.steps)
      [] op.kind = "parallel" /\ p = "reaping" -> f.late
      [] op.kind = "router" /\ p = "classifying" -> {op.classifier}
      [] op.kind = "router" /\ p = "waiting" -> {f.at}
      [] op.kind = "loop" /\ p = "waiting" -> {op.step}
      [] op.kind = "loop" /\ p = "evaluating" -> {op.evaluator}
      [] OTHER -> {}

(* An iteration after which the loop goes on. *)
Unsure(op, record) ==
    ~record.passed /\ (op.confidence = None \/ record.score = None \/ record.score < op.confidence)

(* What a loop returns is kept as KeepsBest has it. *)
Keeps(op, f) ==
    LET h == f.history
        b == BestIteration(h)
    IN op.keep_best /\ h # <<>> /\ ~h[Len(h)].passed /\ b # 0 /\ h[b].out # None =>
           \E i \in DOMAIN h : h[i].out = f.data /\ h[i].score = h[b].score

PlaceInv(op, p, f) ==
    /\ op.kind = "pipeline" /\ p \in {"ready", "waiting"} => f.at < Len(op.steps)
    /\ op.kind = "router" /\ p = "waiting" => f.at \in Workers(op)
    /\ op.kind = "loop" /\ p \in Live => \A i \in DOMAIN f.history : Unsure(op, f.history[i])
    /\ op.kind = "loop" /\ p = "ok" => Keeps(op, f)

(* Nothing begins before everything is resolved.                           *)
StartInv ==
    IF pc[Root] \in {"idle", "invalid"}
    THEN frame[Root] = Fresh /\ \A n \in Nodes \ {Root} : pc[n] = "idle"
    ELSE \A n \in Nodes : FromSpec(n)

AwaitInv == \A n \in Nodes : \A k \in Kids(n) : pc[k] \in Live => k \in Awaited(spec[n], pc[n], frame[n])

RunInv ==
    /\ RunTypeOK /\ TopologySpec(spec)
    /\ StartInv /\ AwaitInv
    /\ \A n \in Nodes : PlaceInv(spec[n], pc[n], frame[n])

-----------------------------------------------------------------------------
(* A set of numbers has a smallest one.                                    *)
LEMMA SmallestExists ==
  ASSUME NEW n \in Nat, NEW V \in SUBSET (1..n), V # {}
  PROVE  \E v \in V : \A w \in V : v <= w
<1> SUFFICES ASSUME \A v \in V : \E w \in V : ~(v <= w) PROVE FALSE
  OBVIOUS
<1> DEFINE U == {i \in 1..n : \E v \in V : v <= i}
<1>1. ASSUME NEW i \in U PROVE i - 1 \in U
  <2>1. PICK v \in V : v <= i
    OBVIOUS
  <2>2. PICK w \in V : ~(v <= w)
    OBVIOUS
  <2>3. i \in 1..n /\ v \in 1..n /\ w \in 1..n
    OBVIOUS
  <2>4. i - 1 \in 1..n /\ w <= i - 1
    BY <2>1, <2>2, <2>3
  <2>. QED
    BY <2>4
<1>2. U \in SUBSET (1..n)
  OBVIOUS
<1>3. U = {}
  <2> HIDE DEF U
  <2>. QED
    BY <1>1, <1>2, Descent
<1>4. PICK v \in V : TRUE
  OBVIOUS
<1>5. v \in 1..n /\ v <= v
  BY <1>4
<1>. QED
  BY <1>3, <1>4, <1>5

LEMMA LargestExists ==
  ASSUME NEW n \in Nat, NEW V \in SUBSET (1..n), V # {}
  PROVE  \E v \in V : \A w \in V : w <= v
<1> DEFINE W == {n + 1 - v : v \in V}
<1>1. W \in SUBSET (1..n) /\ W # {}
  <2>1. \A v \in V : n + 1 - v \in 1..n
    <3>1. \A v \in V : v \in 1..n
      OBVIOUS
    <3>. QED
      BY <3>1
  <2>2. PICK v \in V : TRUE
    OBVIOUS
  <2>3. n + 1 - v \in W
    OBVIOUS
  <2>. QED
    BY <2>1, <2>3
<1>2. PICK w \in W : \A u \in W : w <= u
  <2> HIDE DEF W
  <2>. QED
    BY <1>1, SmallestExists
<1>3. PICK v \in V : w = n + 1 - v
  BY <1>2
<1>4. ASSUME NEW u \in V PROVE u <= v
  <2>1. n + 1 - v <= n + 1 - u
    BY <1>2, <1>3
  <2>2. u \in Int /\ v \in Int
    OBVIOUS
  <2>. QED
    BY <2>1, <2>2
<1>. QED
  BY <1>4

(* A function may be defined by recursion along a rank: its value at m is  *)
(* G of m and of what it is below m.                                       *)
Descends(n, S, R, rank, G) ==
    /\ n \in Nat /\ R # {} /\ rank \in [S -> 1..n] /\ G \in [S \X [S -> R] -> R]
    /\ \A m \in S : \A f, g \in [S -> R] :
           (\A k \in S : rank[k] < rank[m] => f[k] = g[k]) => G[<<m, f>>] = G[<<m, g>>]

Solves(f, S, G) == \A m \in S : f[m] = G[<<m, f>>]

LEMMA Recursion ==
  ASSUME NEW n, NEW S, NEW R, NEW rank, NEW G, Descends(n, S, R, rank, G)
  PROVE  \E f \in [S -> R] : Solves(f, S, G)
<1> USE DEF Solves
<1>0. n \in Nat /\ R # {} /\ rank \in [S -> 1..n] /\ G \in [S \X [S -> R] -> R]
  BY DEF Descends
<1> DEFINE Defined(f, i) == \A m \in S : rank[m] <= i => f[m] = G[<<m, f>>]
           V == {i \in 1..n : \A f \in [S -> R] : ~Defined(f, i)}
<1>1. \A m \in S : rank[m] \in 1..n
  BY <1>0
<1>2. ASSUME NEW i \in V PROVE i - 1 \in V
  <2> SUFFICES ASSUME i - 1 \notin V PROVE FALSE
    OBVIOUS
  <2>1. i \in 1..n
    OBVIOUS
  <2>2. PICK f \in [S -> R] : Defined(f, i - 1)
    <3>1. CASE i = 1
      <4>1. PICK r \in R : TRUE
        BY <1>0
      <4>2. [m \in S |-> r] \in [S -> R]
        OBVIOUS
      <4>3. \A m \in S : ~(rank[m] <= i - 1)
        BY <1>1, <3>1
      <4>. QED
        BY <4>2, <4>3
    <3>2. CASE i # 1
      <4>1. i - 1 \in 1..n
        BY <1>0, <2>1, <3>2
      <4>. QED
        BY <4>1
    <3>. QED
      BY <3>1, <3>2
  <2> DEFINE g == [m \in S |-> IF rank[m] = i THEN G[<<m, f>>] ELSE f[m]]
  <2>3. g \in [S -> R]
    BY <1>0
  <2>4. ASSUME NEW m \in S, rank[m] <= i PROVE g[m] = G[<<m, g>>]
    <3>1. \A k \in S : rank[k] < rank[m] => f[k] = g[k]
      <4>1. \A k \in S : rank[k] < rank[m] => rank[k] # i
        BY <1>1, <2>1, <2>4
      <4>. QED
        BY <4>1
    <3>2. G[<<m, f>>] = G[<<m, g>>]
      <4> HIDE DEF g
      <4>. QED
        BY <2>3, <3>1 DEF Descends
    <3>3. CASE rank[m] = i
      BY <3>2, <3>3
    <3>4. CASE rank[m] # i
      <4>1. rank[m] <= i - 1
        BY <1>1, <2>1, <2>4, <3>4
      <4>2. f[m] = G[<<m, f>>]
        BY <2>2, <4>1
      <4>. QED
        BY <3>2, <3>4, <4>2
    <3>. QED
      BY <3>3, <3>4
  <2>5. Defined(g, i)
    BY <2>4
  <2>. QED
    BY <2>3, <2>5
<1>3. V = {}
  <2>1. V \in SUBSET (1..n)
    OBVIOUS
  <2> HIDE DEF V
  <2>. QED
    BY <1>0, <1>2, <2>1, Descent
<1>4. CASE n = 0
  <2>1. S = {}
    BY <1>1, <1>4
  <2>2. PICK r \in R : TRUE
    BY <1>0
  <2>3. [m \in S |-> r] \in [S -> R]
    OBVIOUS
  <2>. QED
    BY <2>1, <2>3
<1>5. CASE n # 0
  <2>1. n \in 1..n
    BY <1>0, <1>5
  <2>2. PICK f \in [S -> R] : Defined(f, n)
    BY <1>3, <2>1
  <2>3. \A m \in S : rank[m] <= n
    BY <1>0, <1>1
  <2>. QED
    BY <2>2, <2>3
<1>. QED
  BY <1>4, <1>5

(* What a kind of operation has.                                           *)
LEMMA OperationFacts ==
  ASSUME NEW nodes, NEW op \in OperationSpec(nodes)
  PROVE  /\ op.kind \in Leaf \cup {"pipeline", "parallel", "router", "loop"}
         /\ op.kind = "pipeline" => op.steps \in Seq(nodes)
         /\ op.kind = "parallel" => op.steps \in Seq(nodes)
         /\ op.kind = "router" => op.routes \in Seq(nodes) /\ op.classifier \in Opt(nodes) /\ op.fallback \in Opt(nodes)
         /\ op.kind = "loop" => /\ op.step \in nodes /\ op.evaluator \in nodes
                                /\ op.confidence \in Opt(Nat) /\ op.keep_best \in BOOLEAN
<1>1. CASE op \in StepSpec
  BY <1>1 DEF StepSpec, Leaf
<1>2. CASE op \in PipelineSpec(nodes)
  BY <1>2 DEF PipelineSpec
<1>3. CASE op \in ParallelSpec(nodes)
  BY <1>3 DEF ParallelSpec
<1>4. CASE op \in RouterSpec(nodes)
  BY <1>4 DEF RouterSpec
<1>5. CASE op \in RefinementLoopSpec(nodes)
  BY <1>5 DEF RefinementLoopSpec
<1>. QED
  BY <1>1, <1>2, <1>3, <1>4, <1>5 DEF OperationSpec

LEMMA ElemsFacts ==
  ASSUME NEW T, NEW s \in Seq(T)
  PROVE  /\ Elems(s) \subseteq T
         /\ \A i \in 1..Len(s) : s[i] \in Elems(s)
         /\ s # <<>> => Elems(s) # {} /\ 0 < Len(s)
<1>1. DOMAIN s = 1..Len(s) /\ Len(s) \in Nat /\ \A i \in 1..Len(s) : s[i] \in T
  OBVIOUS
<1>2. s # <<>> => 0 < Len(s)
  OBVIOUS
<1>3. 0 < Len(s) => 1 \in DOMAIN s
  BY <1>1
<1>. QED
  BY <1>1, <1>2, <1>3 DEF Elems

LEMMA WorkersFacts ==
  ASSUME NEW op
  PROVE  /\ op.kind \in {"pipeline", "parallel"} => Workers(op) = Elems(op.steps) /\ Deciders(op) = {}
         /\ op.kind = "router" => /\ Workers(op) = Elems(op.routes) \cup ({op.fallback} \ {None})
                                  /\ Deciders(op) = {op.classifier} \ {None}
         /\ op.kind = "loop" => Workers(op) = {op.step} /\ Deciders(op) = {op.evaluator}
         /\ op.kind \in Leaf => Parts(op) = {}
         /\ Parts(op) = Workers(op) \cup Deciders(op)
BY DEF Workers, Deciders, Parts, Leaf

LEMMA PartsFacts ==
  ASSUME NEW nodes, NEW op \in OperationSpec(nodes)
  PROVE  Parts(op) \subseteq nodes
<1>1. CASE op.kind \in Leaf
  BY <1>1, WorkersFacts
<1>2. CASE op.kind \in {"pipeline", "parallel"}
  BY <1>2, OperationFacts, ElemsFacts, WorkersFacts
<1>3. CASE op.kind = "router"
  BY <1>3, OperationFacts, ElemsFacts, WorkersFacts DEF Opt
<1>4. CASE op.kind = "loop"
  BY <1>4, OperationFacts, WorkersFacts
<1>. QED
  BY <1>1, <1>2, <1>3, <1>4, OperationFacts

(* The tree: every node but the root has one parent, which is smaller.     *)
LEMMA TreeFacts ==
  ASSUME TopologySpec(spec)
  PROVE  /\ Len(spec) \in Nat /\ Nodes = 1..Len(spec) /\ Root \in Nodes
         /\ \A n \in Nodes : /\ spec[n] \in OperationSpec(Nodes)
                             /\ Kids(n) \subseteq Nodes
                             /\ \A k \in Kids(n) : k > n /\ k # Root
                             /\ Workers(spec[n]) \subseteq Kids(n) /\ Deciders(spec[n]) \subseteq Kids(n)
         /\ \A p, q, k : p \in Nodes /\ q \in Nodes /\ k \in Kids(p) /\ k \in Kids(q) => p = q
         /\ \A k \in Nodes \ {Root} : /\ Parent(k) \in Nodes /\ k \in Kids(Parent(k)) /\ Parent(k) < k
                                      /\ \A p \in Nodes : k \in Kids(p) => p = Parent(k)
<1>1. spec \in Seq(OperationSpec(Nodes)) /\ spec # <<>>
  BY DEF TopologySpec, Nodes
<1>2. Len(spec) \in Nat /\ Nodes = 1..Len(spec) /\ Root \in Nodes /\ \A n \in Nodes : spec[n] \in OperationSpec(Nodes)
  <2> DEFINE T == OperationSpec(Nodes)
  <2>1. spec \in Seq(T)
    BY <1>1
  <2> HIDE DEF T
  <2>2. Len(spec) \in Nat /\ DOMAIN spec = 1..Len(spec) /\ Len(spec) # 0 /\ \A n \in 1..Len(spec) : spec[n] \in T
    BY <1>1, <2>1
  <2>. QED
    BY <2>2 DEF T, Nodes, Root
<1>3. ASSUME NEW n \in Nodes
      PROVE  /\ Kids(n) \subseteq Nodes
             /\ \A k \in Kids(n) : k > n /\ k # Root
             /\ Workers(spec[n]) \subseteq Kids(n) /\ Deciders(spec[n]) \subseteq Kids(n)
  <2>1. Kids(n) \subseteq Nodes
    BY <1>2, PartsFacts DEF Kids
  <2>2. \A k \in Kids(n) : k > n
    BY DEF TopologySpec, Nodes, Kids
  <2>3. n \in 1..Len(spec)
    BY <1>2
  <2>4. \A k \in Kids(n) : k # Root
    BY <1>2, <2>2, <2>3 DEF Root
  <2>. QED
    BY <2>1, <2>2, <2>4, WorkersFacts DEF Kids
<1>4. \A p, q, k : p \in Nodes /\ q \in Nodes /\ k \in Kids(p) /\ k \in Kids(q) => p = q
  BY DEF TopologySpec, Nodes, Kids
<1>5. ASSUME NEW k \in Nodes \ {Root}
      PROVE  /\ Parent(k) \in Nodes /\ k \in Kids(Parent(k)) /\ Parent(k) < k
             /\ \A p \in Nodes : k \in Kids(p) => p = Parent(k)
  <2>1. \E p \in Nodes : k \in Kids(p)
    BY DEF TopologySpec, Nodes, Kids
  <2>2. Parent(k) \in Nodes /\ k \in Kids(Parent(k))
    BY <2>1 DEF Parent
  <2>3. k > Parent(k)
    BY <1>3, <2>2
  <2>4. k \in 1..Len(spec) /\ Parent(k) \in 1..Len(spec)
    BY <1>2, <2>2
  <2>. QED
    BY <1>4, <2>2, <2>3, <2>4
<1>. QED
  BY <1>2, <1>3, <1>4, <1>5

-----------------------------------------------------------------------------
(* Hydration reaches every node.                                           *)
LEMMA HydratesAll ==
  ASSUME TopologySpec(spec), Hydrates(Root)
  PROVE  \A n \in Nodes : FromSpec(n)
<1> DEFINE Built(f) == f = [m \in Nodes |-> FromSpec(m) /\ \A k \in Kids(m) : f[k]]
           resolved == CHOOSE f : Built(f)
           N == Len(spec)
<1>1. \E f : Built(f)
  <2> DEFINE rank == [m \in Nodes |-> N + 1 - m]
             G == [x \in Nodes \X [Nodes -> BOOLEAN] |-> FromSpec(x[1]) /\ \A k \in Kids(x[1]) : x[2][k]]
  <2>1. N \in Nat /\ rank \in [Nodes -> 1..N]
    BY TreeFacts
  <2>2. G \in [Nodes \X [Nodes -> BOOLEAN] -> BOOLEAN]
    OBVIOUS
  <2>3. ASSUME NEW m \in Nodes, NEW f \in [Nodes -> BOOLEAN], NEW g \in [Nodes -> BOOLEAN],
               \A k \in Nodes : rank[k] < rank[m] => f[k] = g[k]
        PROVE  G[<<m, f>>] = G[<<m, g>>]
    <3>1. \A k \in Kids(m) : k \in Nodes /\ k > m /\ m \in Int /\ k \in Int /\ N \in Int
      BY TreeFacts
    <3>2. \A k \in Kids(m) : rank[k] < rank[m]
      BY <3>1
    <3>3. \A k \in Kids(m) : f[k] = g[k]
      BY <2>3, <3>1, <3>2
    <3>4. G[<<m, f>>] = (FromSpec(m) /\ \A k \in Kids(m) : f[k])
      OBVIOUS
    <3>5. G[<<m, g>>] = (FromSpec(m) /\ \A k \in Kids(m) : g[k])
      OBVIOUS
    <3> HIDE DEF G
    <3>. QED
      BY <3>3, <3>4, <3>5
  <2>4. PICK f \in [Nodes -> BOOLEAN] : \A m \in Nodes : f[m] = G[<<m, f>>]
    <3> HIDE DEF G, rank
    <3> DEFINE R == BOOLEAN
    <3>1. Descends(N, Nodes, R, rank, G)
      BY <2>1, <2>2, <2>3 DEF Descends
    <3> HIDE DEF R, N
    <3>2. \E f \in [Nodes -> R] : Solves(f, Nodes, G)
      BY <3>1, Recursion
    <3>. QED
      BY <3>2 DEF R, Solves
  <2>5. \A m \in Nodes : f[m] = (FromSpec(m) /\ \A k \in Kids(m) : f[k])
    BY <2>4
  <2>6. Built(f)
    BY <2>5
  <2>. QED
    BY <2>6
<1>2. resolved = [m \in Nodes |-> FromSpec(m) /\ \A k \in Kids(m) : resolved[k]]
  BY <1>1
<1>3. resolved[Root] = TRUE
  <2>1. Hydrates(Root) <=> resolved[Root]
    BY DEF Hydrates
  <2>. QED
    BY <1>2, <2>1, TreeFacts
<1> HIDE DEF resolved
<1>4. \A m \in Nodes : resolved[m] = (FromSpec(m) /\ \A k \in Kids(m) : resolved[k])
  BY <1>2
<1> DEFINE V == {m \in Nodes : resolved[m] # TRUE}
<1>5. V = {}
  <2> SUFFICES ASSUME V # {} PROVE FALSE
    OBVIOUS
  <2>1. PICK v \in V : \A w \in V : v <= w
    <3>1. V \in SUBSET (1..N) /\ N \in Nat
      BY TreeFacts
    <3> HIDE DEF V
    <3>. QED
      BY <3>1, SmallestExists
  <2>2. v \in Nodes \ {Root}
    BY <1>3
  <2>3. Parent(v) \in Nodes /\ v \in Kids(Parent(v)) /\ Parent(v) < v
    BY <2>2, TreeFacts
  <2>4. resolved[Parent(v)] # TRUE
    BY <1>4, <2>3
  <2>5. v <= Parent(v)
    BY <2>1, <2>3, <2>4
  <2>6. v \in Int /\ Parent(v) \in Int
    BY <2>2, <2>3, TreeFacts
  <2>. QED
    BY <2>3, <2>5, <2>6
<1>. QED
  BY <1>4, <1>5

(* Some member of a finite set has the greatest value, and one of these is *)
(* the first.                                                              *)
LEMMA GreatestExists ==
  ASSUME NEW n \in Nat, NEW W \in SUBSET (1..n), W # {}, NEW f, \A i \in W : f[i] \in Int
  PROVE  \E i \in W : \A j \in W : f[i] >= f[j]
<1> DEFINE Best(m, i) == i \in W /\ i <= m /\ \A j \in W : j <= m => f[i] >= f[j]
           V == {m \in 1..n : (\E i \in W : i <= m) /\ ~ \E i : Best(m, i)}
<1>1. \A i \in W : i \in 1..n
  OBVIOUS
<1>2. ASSUME NEW m \in V PROVE m - 1 \in V
  <2>1. m \in 1..n
    OBVIOUS
  <2>2. PICK k \in W : k <= m
    OBVIOUS
  <2>3. ~ \E i : Best(m, i)
    OBVIOUS
  <2>4. \A j \in W : j <= m => j <= m - 1 \/ j = m
    BY <1>1, <2>1
  <2>5. \A j \in W : j <= m - 1 => j <= m
    BY <1>1, <2>1
  <2>6. ASSUME m \in W, \A j \in W : j <= m - 1 => f[m] >= f[j] PROVE FALSE
    <3>1. m <= m /\ f[m] >= f[m]
      BY <2>1, <2>6
    <3>2. Best(m, m)
      BY <2>4, <2>6, <3>1
    <3>. QED
      BY <2>3, <3>2
  <2>7. \E j \in W : j <= m - 1
    <3> SUFFICES ASSUME \A j \in W : ~(j <= m - 1) PROVE FALSE
      OBVIOUS
    <3>1. m \in W
      BY <2>2, <2>4
    <3>. QED
      BY <2>6, <3>1
  <2>8. ASSUME NEW i, Best(m - 1, i) PROVE FALSE
    <3>1. i \in W /\ i <= m - 1 /\ i <= m /\ \A j \in W : j <= m - 1 => f[i] >= f[j]
      BY <2>5, <2>8
    <3>2. m \in W /\ ~(f[i] >= f[m])
      <4> SUFFICES ASSUME ~(m \in W /\ ~(f[i] >= f[m])) PROVE FALSE
        OBVIOUS
      <4>1. Best(m, i)
        BY <2>4, <3>1
      <4>. QED
        BY <2>3, <4>1
    <3>3. \A j \in W : j <= m - 1 => f[m] >= f[j]
      <4>1. f[i] \in Int /\ f[m] \in Int /\ \A j \in W : f[j] \in Int
        BY <3>1, <3>2
      <4>. QED
        BY <3>1, <3>2, <4>1
    <3>. QED
      BY <2>6, <3>2, <3>3
  <2>9. m - 1 \in 1..n
    <3>1. PICK j \in W : j <= m - 1
      BY <2>7
    <3>2. j \in 1..n
      BY <1>1
    <3>. QED
      BY <2>1, <3>1, <3>2
  <2> HIDE DEF Best
  <2>. QED
    BY <2>7, <2>8, <2>9
<1>3. V = {}
  <2>1. V \in SUBSET (1..n)
    OBVIOUS
  <2> HIDE DEF V
  <2>. QED
    BY <1>2, <2>1, Descent
<1>4. n \in 1..n /\ \A i \in W : i <= n
  <2>1. PICK i \in W : TRUE
    OBVIOUS
  <2>. QED
    BY <1>1, <2>1
<1>5. PICK i : Best(n, i)
  <2> HIDE DEF Best
  <2>1. \E j \in W : j <= n
    BY <1>4
  <2>. QED
    BY <1>3, <1>4, <2>1
<1>. QED
  BY <1>4, <1>5

LEMMA FirstGreatest ==
  ASSUME NEW n \in Nat, NEW W \in SUBSET (1..n), W # {}, NEW f, \A i \in W : f[i] \in Int
  PROVE  \E i \in W : /\ \A j \in W : f[i] >= f[j]
                      /\ \A k \in W : (\A j \in W : f[k] >= f[j]) => i <= k
<1> DEFINE M == {i \in W : \A j \in W : f[i] >= f[j]}
<1>1. M # {}
  BY GreatestExists
<1>2. M \in SUBSET (1..n)
  OBVIOUS
<1>3. PICK i \in M : \A k \in M : i <= k
  <2> HIDE DEF M
  <2>. QED
    BY <1>1, <1>2, SmallestExists
<1>. QED
  BY <1>3

-----------------------------------------------------------------------------
(* The depth of a topology.                                                *)
LEMMA WorkersExist ==
  ASSUME TopologySpec(spec), NEW n \in Nodes, ~IsLeaf(n), FromSpec(n)
  PROVE  Workers(spec[n]) # {}
<1> DEFINE op == spec[n]
<1>1. op \in OperationSpec(Nodes)
  BY TreeFacts
<1>2. CASE op.kind = "pipeline"
  <2>1. op.steps \in Seq(Nodes) /\ op.steps # <<>>
    BY <1>1, <1>2, OperationFacts DEF FromSpec, IsLeaf, Kind, PipelineFromSpec, PipelineBuilds
  <2>. QED
    BY <1>2, <2>1, ElemsFacts, WorkersFacts
<1>3. CASE op.kind = "parallel"
  <2>1. op.steps \in Seq(Nodes) /\ op.steps # <<>>
    BY <1>1, <1>3, OperationFacts DEF FromSpec, IsLeaf, Kind, ParallelFromSpec, ParallelBuilds
  <2>. QED
    BY <1>3, <2>1, ElemsFacts, WorkersFacts
<1>4. CASE op.kind = "router"
  <2>1. op.routes \in Seq(Nodes) /\ op.routes # <<>>
    BY <1>1, <1>4, OperationFacts DEF FromSpec, IsLeaf, Kind, RouterFromSpec, RouterBuilds
  <2>2. Elems(op.routes) # {}
    BY <2>1, ElemsFacts
  <2>3. Elems(op.routes) \subseteq Workers(op)
    BY <1>4, WorkersFacts
  <2>. QED
    BY <2>2, <2>3
<1>5. CASE op.kind = "loop"
  BY <1>5, WorkersFacts
<1>. QED
  BY <1>1, <1>2, <1>3, <1>4, <1>5, OperationFacts DEF IsLeaf, Kind

Below(depth, n) == {depth[k] : k \in Workers(spec[n])}

LEMMA DeepestFacts ==
  ASSUME TopologySpec(spec), NEW n \in Nodes, ~IsLeaf(n), FromSpec(n),
         NEW f, \A k \in Workers(spec[n]) : f[k] \in Nat
  PROVE  Deepest(Below(f, n)) \in Nat /\ \A k \in Workers(spec[n]) : f[k] <= Deepest(Below(f, n))
<1> DEFINE W == Workers(spec[n])
           D == {f[k] : k \in W}
<1>1. W # {} /\ W \in SUBSET Nodes /\ Nodes = 1..Len(spec) /\ Len(spec) \in Nat
  BY WorkersExist, TreeFacts
<1>2. W \in SUBSET (1..Len(spec)) /\ \A k \in W : f[k] \in Int
  BY <1>1
<1>3. PICK i \in W : \A j \in W : f[i] >= f[j]
  <2> HIDE DEF W
  <2>. QED
    BY <1>1, <1>2, GreatestExists
<1>4. f[i] \in D /\ \A e \in D : f[i] >= e
  BY <1>3
<1>5. Deepest(Below(f, n)) \in D /\ \A e \in D : Deepest(Below(f, n)) >= e
  BY <1>4 DEF Deepest, Below
<1>6. PICK k \in W : Deepest(Below(f, n)) = f[k]
  BY <1>5
<1>7. Deepest(Below(f, n)) \in Nat
  BY <1>6
<1>8. \A j \in W : Deepest(Below(f, n)) >= f[j] /\ f[j] \in Nat
  BY <1>5
<1>. QED
  BY <1>7, <1>8

LEMMA DepthFacts ==
  ASSUME TopologySpec(spec), \A n \in Nodes : FromSpec(n)
  PROVE  \E depth \in [Nodes -> Nat] :
            /\ TopologyDepth(Root) = depth[Root]
            /\ \A n \in Nodes : ~IsLeaf(n) =>
                   depth[n] >= 1 /\ \A k \in Workers(spec[n]) : depth[n] >= 1 + depth[k]
<1> DEFINE Defines(f) ==
               f = [m \in Nodes |-> IF IsLeaf(m) THEN 0 ELSE 1 + Deepest(Below(f, m))]
           depth == CHOOSE f : Defines(f)
           N == Len(spec)
<1>1. \E f : Defines(f) /\ f \in [Nodes -> Nat]
  <2> DEFINE rank == [m \in Nodes |-> N + 1 - m]
             G == [x \in Nodes \X [Nodes -> Nat] |-> IF IsLeaf(x[1]) THEN 0 ELSE 1 + Deepest(Below(x[2], x[1]))]
  <2>1. N \in Nat /\ rank \in [Nodes -> 1..N]
    BY TreeFacts
  <2>2. G \in [Nodes \X [Nodes -> Nat] -> Nat]
    <3>1. ASSUME NEW m \in Nodes, NEW f \in [Nodes -> Nat], ~IsLeaf(m) PROVE 1 + Deepest(Below(f, m)) \in Nat
      <4>1. \A k \in Workers(spec[m]) : f[k] \in Nat
        BY TreeFacts
      <4>2. Deepest(Below(f, m)) \in Nat
        BY <3>1, <4>1, DeepestFacts
      <4>. QED
        BY <4>2
    <3>. QED
      BY <3>1
  <2>3. ASSUME NEW m \in Nodes, NEW f \in [Nodes -> Nat], NEW g \in [Nodes -> Nat],
               \A k \in Nodes : rank[k] < rank[m] => f[k] = g[k]
        PROVE  G[<<m, f>>] = G[<<m, g>>]
    <3>1. \A k \in Kids(m) : k \in Nodes /\ k > m /\ m \in Int /\ k \in Int /\ N \in Int
      BY TreeFacts
    <3>2. \A k \in Workers(spec[m]) : k \in Kids(m) /\ k \in Nodes /\ rank[k] < rank[m]
      BY <3>1, TreeFacts
    <3>3. {f[k] : k \in Workers(spec[m])} = {g[k] : k \in Workers(spec[m])}
      BY <2>3, <3>2
    <3>4. Deepest(Below(f, m)) = Deepest(Below(g, m))
      BY <3>3 DEF Below
    <3>. QED
      BY <3>4
  <2>4. PICK f \in [Nodes -> Nat] : \A m \in Nodes : f[m] = G[<<m, f>>]
    <3> HIDE DEF G, rank
    <3>1. Descends(N, Nodes, Nat, rank, G)
      BY <2>1, <2>2, <2>3 DEF Descends
    <3> HIDE DEF N
    <3>2. \E f \in [Nodes -> Nat] : Solves(f, Nodes, G)
      BY <3>1, Recursion
    <3>. QED
      BY <3>2 DEF Solves
  <2>5. \A m \in Nodes : f[m] = IF IsLeaf(m) THEN 0 ELSE 1 + Deepest(Below(f, m))
    BY <2>4
  <2>6. Defines(f)
    BY <2>5
  <2>. QED
    BY <2>6
<1>2. Defines(depth)
  BY <1>1
<1> HIDE DEF depth
<1>3. \A m \in Nodes : depth[m] = IF IsLeaf(m) THEN 0 ELSE 1 + Deepest(Below(depth, m))
  BY <1>2
<1> DEFINE V == {m \in Nodes : depth[m] \notin Nat}
<1>4. V = {}
  <2> SUFFICES ASSUME V # {} PROVE FALSE
    OBVIOUS
  <2>1. PICK v \in V : \A w \in V : w <= v
    <3>1. V \in SUBSET (1..N) /\ N \in Nat
      BY TreeFacts
    <3> HIDE DEF V
    <3>. QED
      BY <3>1, LargestExists
  <2>2. ~IsLeaf(v)
    BY <1>3
  <2>3. ASSUME NEW k \in Workers(spec[v]) PROVE depth[k] \in Nat
    <3>1. k \in Nodes /\ k > v
      BY TreeFacts
    <3>2. k \in Int /\ v \in Int
      BY <3>1, TreeFacts
    <3>. QED
      BY <2>1, <3>1, <3>2
  <2>4. Deepest(Below(depth, v)) \in Nat
    BY <2>2, <2>3, DeepestFacts
  <2>. QED
    BY <1>3, <2>2, <2>4
<1>5. depth \in [Nodes -> Nat]
  <2>1. depth = [m \in Nodes |-> depth[m]]
    BY <1>2
  <2>. QED
    BY <1>4, <2>1
<1>6. TopologyDepth(Root) = depth[Root]
  BY DEF TopologyDepth, depth, Below
<1>7. ASSUME NEW n \in Nodes, ~IsLeaf(n)
      PROVE  depth[n] >= 1 /\ \A k \in Workers(spec[n]) : depth[n] >= 1 + depth[k]
  <2>1. \A k \in Workers(spec[n]) : depth[k] \in Nat
    BY <1>5, TreeFacts
  <2>2. Deepest(Below(depth, n)) \in Nat /\ \A k \in Workers(spec[n]) : depth[k] <= Deepest(Below(depth, n))
    BY <1>7, <2>1, DeepestFacts
  <2>3. depth[n] = 1 + Deepest(Below(depth, n))
    BY <1>3, <1>7
  <2>. QED
    BY <2>1, <2>2, <2>3
<1>. QED
  BY <1>5, <1>6, <1>7

(* No run awaits through more levels than the depth of the topology.       *)
LEMMA LevelFacts ==
  ASSUME TopologySpec(spec)
  PROVE  LET level[n \in Nodes] == IF n = Root THEN 1 ELSE 1 + level[Parent(n)]
         IN level[Root] = 1 /\ \A n \in Nodes \ {Root} : level[n] = 1 + level[Parent(n)]
<1> DEFINE Defines(f) == f = [n \in Nodes |-> IF n = Root THEN 1 ELSE 1 + f[Parent(n)]]
           level == CHOOSE f : Defines(f)
           N == Len(spec)
<1>1. \E f : Defines(f)
  <2> DEFINE rank == [m \in Nodes |-> m]
             G == [x \in Nodes \X [Nodes -> Nat] |-> IF x[1] = Root THEN 1 ELSE 1 + x[2][Parent(x[1])]]
  <2>1. N \in Nat /\ rank \in [Nodes -> 1..N]
    BY TreeFacts
  <2>2. G \in [Nodes \X [Nodes -> Nat] -> Nat]
    <3>1. \A m \in Nodes \ {Root} : Parent(m) \in Nodes
      BY TreeFacts
    <3>. QED
      BY <3>1
  <2>3. ASSUME NEW m \in Nodes, NEW f \in [Nodes -> Nat], NEW g \in [Nodes -> Nat],
               \A k \in Nodes : rank[k] < rank[m] => f[k] = g[k]
        PROVE  G[<<m, f>>] = G[<<m, g>>]
    <3>1. m # Root => Parent(m) \in Nodes /\ rank[Parent(m)] < rank[m]
      BY TreeFacts
    <3>2. m # Root => f[Parent(m)] = g[Parent(m)]
      BY <2>3, <3>1
    <3>. QED
      BY <3>2
  <2>4. PICK f \in [Nodes -> Nat] : \A m \in Nodes : f[m] = G[<<m, f>>]
    <3> HIDE DEF G, rank
    <3>1. Descends(N, Nodes, Nat, rank, G)
      BY <2>1, <2>2, <2>3 DEF Descends
    <3> HIDE DEF N
    <3>2. \E f \in [Nodes -> Nat] : Solves(f, Nodes, G)
      BY <3>1, Recursion
    <3>. QED
      BY <3>2 DEF Solves
  <2>5. \A m \in Nodes : f[m] = IF m = Root THEN 1 ELSE 1 + f[Parent(m)]
    BY <2>4
  <2>6. Defines(f)
    BY <2>5
  <2>. QED
    BY <2>6
<1>2. level = [n \in Nodes |-> IF n = Root THEN 1 ELSE 1 + level[Parent(n)]]
  BY <1>1
<1> HIDE DEF level
<1>3. level[Root] = 1 /\ \A n \in Nodes \ {Root} : level[n] = 1 + level[Parent(n)]
  BY <1>2, TreeFacts
<1>. QED
  BY <1>3 DEF level

LEMMA LevelsBounded ==
  ASSUME TopologySpec(spec), \A n \in Nodes : FromSpec(n)
  PROVE  LET level[n \in Nodes] == IF n = Root THEN 1 ELSE 1 + level[Parent(n)]
         IN \A n \in Nodes : ~IsLeaf(n) => level[n] <= TopologyDepth(Root)
<1> DEFINE level[n \in Nodes] == IF n = Root THEN 1 ELSE 1 + level[Parent(n)]
           N == Len(spec)
<1>1. level[Root] = 1 /\ \A n \in Nodes \ {Root} : level[n] = 1 + level[Parent(n)]
  BY LevelFacts
<1> HIDE DEF level
<1>2. PICK depth \in [Nodes -> Nat] :
            /\ TopologyDepth(Root) = depth[Root]
            /\ \A n \in Nodes : ~IsLeaf(n) =>
                   depth[n] >= 1 /\ \A k \in Workers(spec[n]) : depth[n] >= 1 + depth[k]
  BY DepthFacts
<1> DEFINE Fits(n) == level[n] \in Nat /\ (~IsLeaf(n) => level[n] + depth[n] <= 1 + depth[Root])
           V == {n \in Nodes : ~Fits(n)}
<1>3. Root \in Nodes /\ depth[Root] \in Nat /\ Fits(Root)
  BY <1>1, TreeFacts
<1>4. ASSUME NEW v \in Nodes \ {Root}, Fits(Parent(v)) PROVE Fits(v)
  <2>1. Parent(v) \in Nodes /\ v \in Kids(Parent(v))
    BY TreeFacts
  <2>2. level[v] = 1 + level[Parent(v)] /\ level[Parent(v)] \in Nat
    BY <1>1, <1>4
  <2>3. ~IsLeaf(Parent(v))
    <3>1. Kids(Parent(v)) # {}
      BY <2>1
    <3>. QED
      BY <3>1, WorkersFacts DEF Kids, IsLeaf, Kind
  <2>4. ASSUME ~IsLeaf(v) PROVE level[v] + depth[v] <= 1 + depth[Root]
    <3>1. v \in Workers(spec[Parent(v)])
      <4>1. v \notin Deciders(spec[Parent(v)])
        BY <2>1, <2>4 DEF TopologySpec, Nodes, IsLeaf, Kind
      <4>. QED
        BY <2>1, <4>1, WorkersFacts DEF Kids
    <3>2. depth[Parent(v)] >= 1 + depth[v]
      BY <1>2, <2>1, <2>3, <3>1
    <3>3. level[Parent(v)] + depth[Parent(v)] <= 1 + depth[Root]
      BY <1>4, <2>3
    <3>4. depth[v] \in Nat /\ depth[Parent(v)] \in Nat /\ depth[Root] \in Nat
      BY <1>3, <2>1
    <3>. QED
      BY <2>2, <3>2, <3>3, <3>4
  <2>. QED
    BY <2>2, <2>4
<1>5. V = {}
  <2> SUFFICES ASSUME V # {} PROVE FALSE
    OBVIOUS
  <2> HIDE DEF Fits
  <2>1. PICK v \in V : \A w \in V : v <= w
    <3>1. V \in SUBSET (1..N) /\ N \in Nat
      BY TreeFacts
    <3> HIDE DEF V
    <3>. QED
      BY <3>1, SmallestExists
  <2>2. v \in Nodes \ {Root}
    BY <1>3
  <2>3. Parent(v) \in Nodes /\ Parent(v) < v /\ Parent(v) \in Int /\ v \in Int
    BY <2>2, TreeFacts
  <2>4. ~(v <= Parent(v))
    BY <2>3
  <2>5. Fits(Parent(v))
    BY <2>1, <2>3, <2>4
  <2>. QED
    BY <1>4, <2>2, <2>5
<1>6. ASSUME NEW n \in Nodes, ~IsLeaf(n) PROVE level[n] <= TopologyDepth(Root)
  <2>1. level[n] \in Nat /\ level[n] + depth[n] <= 1 + depth[Root]
    BY <1>5, <1>6
  <2>2. depth[n] \in Nat /\ depth[n] >= 1
    BY <1>2, <1>6
  <2>. QED
    BY <1>2, <1>3, <2>1, <2>2
<1>. QED
  BY <1>6 DEF level

LEMMA RunInvChecked == RunInv => RunsWhatWasChecked
<1> SUFFICES ASSUME RunInv PROVE NothingRunsUnresolved /\ WithinCeilings
  BY DEF RunsWhatWasChecked, RunInv
<1>1. TopologySpec(spec) /\ StartInv /\ RunTypeOK
  BY DEF RunInv
<1>2. ASSUME NEW m \in Nodes \ {Root}, pc[m] # "idle" PROVE \A n \in Nodes : FromSpec(n)
  BY <1>1, <1>2 DEF StartInv
<1>3. ASSUME NEW n \in Nodes, FromSpec(n)
      PROVE  IF IsLeaf(n) THEN StepResolves(n) ELSE Registered(spec[n].needs)
  <2>1. Kind(n) \in Leaf \cup {"pipeline", "parallel", "router", "loop"}
    BY <1>1, TreeFacts, OperationFacts DEF Kind
  <2>. QED
    BY <1>3, <2>1 DEF FromSpec, PipelineFromSpec, ParallelFromSpec, RouterFromSpec, LoopFromSpec, IsLeaf, Leaf
<1>4. NothingRunsUnresolved
  BY <1>2, <1>3 DEF NothingRunsUnresolved
<1>5. Cardinality({n \in Nodes : Kind(n) = "agent" /\ pc[n] # "idle"}) <= CountAgentSteps(Root)
  <2> DEFINE A == {n \in Nodes : Kind(n) = "agent" /\ pc[n] # "idle"}
             B == {m \in Nodes : Kind(m) = "agent" \/ \E p \in Nodes : m \in Deciders(spec[p])}
  <2>1. IsFiniteSet(Nodes)
    BY <1>1, TreeFacts, FS_Interval
  <2>2. IsFiniteSet(B)
    BY <2>1, FS_Subset
  <2>3. A \subseteq B
    OBVIOUS
  <2> HIDE DEF A, B
  <2>4. Cardinality(A) <= Cardinality(B)
    BY <2>2, <2>3, FS_Subset
  <2>. QED
    BY <2>4 DEF A, B, CountAgentSteps
<1>6. (\E n \in Nodes : ~IsLeaf(n) /\ pc[n] \in Live) => \A n \in Nodes : FromSpec(n)
  BY <1>1, TreeFacts DEF StartInv, Live
<1>7. WithinCeilings
  <2> DEFINE level[n \in Nodes] == IF n = Root THEN 1 ELSE 1 + level[Parent(n)]
  <2>1. ASSUME NEW n \in Nodes, ~IsLeaf(n), pc[n] \in Live PROVE level[n] <= TopologyDepth(Root)
    <3>1. \A m \in Nodes : ~IsLeaf(m) => level[m] <= TopologyDepth(Root)
      BY <1>1, <1>6, <2>1, LevelsBounded
    <3>. QED
      BY <2>1, <3>1
  <2>. QED
    BY <1>5, <2>1 DEF WithinCeilings
<1>. QED
  BY <1>4, <1>7

LEMMA RunInvStray == RunInv => NoStrayBranches
<1> SUFFICES ASSUME RunInv, NEW k \in Nodes \ {Root}, pc[k] \in Live
             PROVE  \/ pc[Parent(k)] \in Live
                    \/ Kind(Parent(k)) = "parallel" /\ pc[Parent(k)] = "cancelled"
  BY DEF NoStrayBranches
<1> DEFINE p == Parent(k)
<1>1. p \in Nodes /\ k \in Kids(p)
  BY TreeFacts DEF RunInv
<1>2. k \in Awaited(spec[p], pc[p], frame[p])
  BY <1>1 DEF RunInv, AwaitInv
<1>. QED
  BY <1>2 DEF Awaited, Live, Kind

LEMMA RunInvKeeps == RunInv => KeepsBest
BY DEF RunInv, PlaceInv, Keeps, KeepsBest, Kind

-----------------------------------------------------------------------------
LEMMA ElemsLast ==
  ASSUME NEW T, NEW s \in Seq(T), s # <<>>
  PROVE  /\ Len(s) \in DOMAIN s /\ Len(s) \in Nat
         /\ \A i \in DOMAIN s : i < Len(s) \/ i = Len(s)
OBVIOUS

(* The best iteration.                                                     *)
LEMMA BestIterationFacts ==
  ASSUME NEW h \in Seq(IterationRecord)
  PROVE  LET b == BestIteration(h)
         IN /\ \A i \in DOMAIN h : h[i].score # None => b # 0
            /\ b # 0 => /\ b \in DOMAIN h /\ h[b].score \in Nat
                        /\ \A i \in DOMAIN h : h[i].score # None => h[i].score \in Nat /\ h[b].score >= h[i].score
<1> DEFINE scored == {i \in DOMAIN h : h[i].score # None}
           greatest == {i \in scored : \A j \in scored : h[i].score >= h[j].score}
           b == BestIteration(h)
<1>1. Len(h) \in Nat /\ DOMAIN h = 1..Len(h) /\ \A i \in DOMAIN h : h[i] \in IterationRecord
  <2> DEFINE T == IterationRecord
  <2> HIDE DEF T
  <2>1. h \in Seq(T) => Len(h) \in Nat /\ DOMAIN h = 1..Len(h) /\ \A i \in DOMAIN h : h[i] \in T
    OBVIOUS
  <2>. QED
    BY <2>1 DEF T
<1>2. \A i \in scored : h[i].score \in Nat
  BY <1>1, ScoresAssumption DEF IterationRecord, Opt
<1>3. b = IF scored = {} THEN 0 ELSE CHOOSE i \in greatest : \A j \in greatest : i <= j
  BY DEF BestIteration
<1>4. CASE scored = {}
  BY <1>3, <1>4
<1>5. CASE scored # {}
  <2> DEFINE f == [i \in scored |-> h[i].score]
  <2>1. PICK i \in scored : /\ \A j \in scored : f[i] >= f[j]
                            /\ \A k \in scored : (\A j \in scored : f[k] >= f[j]) => i <= k
    <3>1. scored \in SUBSET (1..Len(h)) /\ \A i \in scored : f[i] \in Int
      <4>1. \A i \in scored : i \in 1..Len(h)
        BY <1>1
      <4>2. \A i \in scored : f[i] = h[i].score
        OBVIOUS
      <4> HIDE DEF scored, f
      <4>. QED
        BY <1>2, <4>1, <4>2
    <3> DEFINE N == Len(h)
    <3>2. N \in Nat
      BY <1>1
    <3> HIDE DEF scored, f, N
    <3>3. scored \in SUBSET (1..N) /\ scored # {} /\ \A i \in scored : f[i] \in Int
      BY <1>5, <3>1 DEF N
    <3>. QED
      BY <3>2, <3>3, FirstGreatest
  <2>2. i \in greatest /\ \A k \in greatest : i <= k
    BY <2>1
  <2>3. b \in greatest
    BY <1>3, <1>5, <2>2
  <2>4. b \in DOMAIN h /\ b # 0
    BY <1>1, <2>3
  <2>. QED
    BY <1>2, <2>3, <2>4
<1>. QED
  BY <1>4, <1>5

LEMMA ResolvedKept ==
  ASSUME NEW n, NEW f, f.history \in Seq(IterationRecord), f.data = ResolveKeptOutput(n, f.history)
  PROVE  Keeps(spec[n], f)
<1> DEFINE h == f.history
           b == BestIteration(h)
<1> SUFFICES ASSUME spec[n].keep_best, h # <<>>, b # 0, h[b].out # None
             PROVE  \E i \in DOMAIN h : h[i].out = f.data /\ h[i].score = h[b].score
  BY DEF Keeps
<1>1. b \in DOMAIN h /\ h[b].score \in Nat
      /\ \A i \in DOMAIN h : h[i].score # None => h[i].score \in Nat /\ h[b].score >= h[i].score
  BY BestIterationFacts
<1>2. Len(h) \in DOMAIN h
  BY ElemsLast
<1>3. CASE h[Len(h)].score = None \/ h[Len(h)].score < h[b].score
  <2>1. f.data = h[b].out
    BY <1>3 DEF ResolveKeptOutput
  <2>. QED
    BY <1>1, <2>1
<1>4. CASE ~(h[Len(h)].score = None \/ h[Len(h)].score < h[b].score)
  <2>1. f.data = h[Len(h)].out
    BY <1>4 DEF ResolveKeptOutput
  <2>2. h[Len(h)].score = h[b].score
    BY <1>1, <1>2, <1>4
  <2>. QED
    BY <1>2, <2>1, <2>2
<1>. QED
  BY <1>3, <1>4

(* The iteration that is confident enough is the best one, as none before  *)
(* it was.                                                                 *)
LEMMA ConfidentKept ==
  ASSUME NEW n, NEW f, f.history \in Seq(IterationRecord), f.history # <<>>,
         spec[n].confidence \in Opt(Nat),
         \A i \in DOMAIN f.history : i < Len(f.history) => Unsure(spec[n], f.history[i]),
         ~Unsure(spec[n], f.history[Len(f.history)]),
         f.data = f.history[Len(f.history)].out
  PROVE  Keeps(spec[n], f)
<1> DEFINE h == f.history
           b == BestIteration(h)
<1> SUFFICES ASSUME ~h[Len(h)].passed, b # 0
             PROVE  \E i \in DOMAIN h : h[i].out = f.data /\ h[i].score = h[b].score
  BY DEF Keeps
<1>1. b \in DOMAIN h /\ h[b].score \in Nat
      /\ \A i \in DOMAIN h : h[i].score # None => h[i].score \in Nat /\ h[b].score >= h[i].score
  BY BestIterationFacts
<1>2. Len(h) \in DOMAIN h /\ \A i \in DOMAIN h : i < Len(h) \/ i = Len(h)
  BY ElemsLast
<1>3. spec[n].confidence \in Nat /\ h[Len(h)].score # None /\ ~(h[Len(h)].score < spec[n].confidence)
  BY DEF Unsure, Opt
<1>4. h[Len(h)].score \in Nat /\ h[b].score >= h[Len(h)].score
  BY <1>1, <1>2, <1>3
<1>5. b = Len(h)
  <2> SUFFICES ASSUME b # Len(h) PROVE FALSE
    OBVIOUS
  <2>1. Unsure(spec[n], h[b])
    BY <1>1, <1>2
  <2>2. h[b].score < spec[n].confidence
    <3>1. h[b].score # None /\ spec[n].confidence # None
      BY <1>1, <1>3, NoneAssumption
    <3>. QED
      BY <2>1, <3>1 DEF Unsure
  <2>. QED
    BY <1>1, <1>3, <1>4, <2>2
<1>. QED
  BY <1>2, <1>5

-----------------------------------------------------------------------------
(* A step of n: it goes on at s with the frame g, and S begin.             *)
Moves(n, s, g, S) ==
    /\ pc' = [m \in Nodes |-> IF m = n THEN s ELSE IF m \in S THEN "ready" ELSE pc[m]]
    /\ frame' = [m \in Nodes |-> IF m = n THEN g ELSE IF m \in S THEN Fresh ELSE frame[m]]
    /\ UNCHANGED <<spec, registered>>

LEMMA FrameFacts ==
  ASSUME RunTypeOK, NEW n \in Nodes
  PROVE  /\ frame[n] \in Frame(Nodes)
         /\ frame[n].at \in Nat /\ frame[n].data \in Opt(Values) /\ frame[n].history \in Seq(IterationRecord)
         /\ frame[n].late \subseteq Nodes
         /\ Fresh \in Frame(Nodes)
<1>1. frame[n] \in Frame(Nodes)
  BY DEF RunTypeOK
<1>2. Fresh \in Frame(Nodes)
  BY DEF Fresh, Frame, Opt
<1>. QED
  BY <1>1, <1>2 DEF Frame

LEMMA FreshPlace ==
  ASSUME TopologySpec(spec), NEW n \in Nodes, FromSpec(n)
  PROVE  PlaceInv(spec[n], "ready", Fresh)
<1>1. Fresh.at = 0 /\ Fresh.history = <<>>
  BY DEF Fresh
<1>2. ASSUME spec[n].kind = "pipeline" PROVE 0 < Len(spec[n].steps)
  <2>1. spec[n].steps # <<>>
    BY <1>2 DEF FromSpec, IsLeaf, Leaf, Kind, PipelineFromSpec, PipelineBuilds
  <2>2. spec[n].steps \in Seq(Nodes)
    BY <1>2, TreeFacts, OperationFacts
  <2>. QED
    BY <2>1, <2>2, ElemsFacts
<1>3. \A i \in DOMAIN Fresh.history : FALSE
  BY <1>1
<1>. QED
  BY <1>1, <1>2, <1>3 DEF PlaceInv

LEMMA Moved ==
  ASSUME RunInv, NEW n \in Nodes, pc[n] \in Live,
         NEW s \in Live \cup Ended, NEW g \in Frame(Nodes), NEW S \in SUBSET Kids(n),
         Moves(n, s, g, S), asked' \subseteq Nodes,
         \A m \in S : \A k \in Kids(m) : pc[k] \notin Live,
         \A k \in Kids(n) : k \in S \/ pc[k] \in Live => k \in Awaited(spec[n], s, g),
         PlaceInv(spec[n], s, g)
  PROVE  RunInv'
<1>1. RunTypeOK /\ TopologySpec(spec) /\ StartInv /\ AwaitInv /\ \A m \in Nodes : PlaceInv(spec[m], pc[m], frame[m])
  BY DEF RunInv
<1>2. /\ spec' = spec /\ registered' = registered /\ Nodes' = Nodes
      /\ pc' = [m \in Nodes |-> IF m = n THEN s ELSE IF m \in S THEN "ready" ELSE pc[m]]
      /\ frame' = [m \in Nodes |-> IF m = n THEN g ELSE IF m \in S THEN Fresh ELSE frame[m]]
  BY DEF Moves, Nodes
<1>3. /\ pc'[n] = s /\ frame'[n] = g /\ n \notin S /\ Root \notin S /\ S \subseteq Nodes
      /\ \A m \in S : pc'[m] = "ready" /\ frame'[m] = Fresh
      /\ \A m \in Nodes : m # n /\ m \notin S => pc'[m] = pc[m] /\ frame'[m] = frame[m]
  <2>1. \A k \in Kids(n) : k \in Nodes /\ k > n /\ n \in Int /\ k # Root
    BY <1>1, TreeFacts
  <2>2. n \notin S
    BY <2>1
  <2>. QED
    BY <1>2, <2>1, <2>2
<1>4. TopologySpec(spec)' /\ RunTypeOK'
  <2>1. pc' \in [Nodes -> {"idle", "invalid"} \cup Ended \cup Live]
    <3>1. "ready" \in Live
      BY DEF Live
    <3>2. \A m \in Nodes : pc[m] \in {"idle", "invalid"} \cup Ended \cup Live
      BY <1>1 DEF RunTypeOK
    <3>. QED
      BY <1>2, <3>1, <3>2
  <2>2. frame' \in [Nodes -> Frame(Nodes)]
    <3>1. Fresh \in Frame(Nodes) /\ \A m \in Nodes : frame[m] \in Frame(Nodes)
      BY <1>1, FrameFacts
    <3>. QED
      BY <1>2, <3>1
  <2>. QED
    BY <1>1, <1>2, <2>1, <2>2 DEF RunTypeOK
<1>5. pc[Root] \notin {"idle", "invalid"} /\ \A m \in Nodes : FromSpec(m)
  BY <1>1 DEF StartInv, Live
<1>6. StartInv'
  <2>1. pc'[Root] \notin {"idle", "invalid"}
    BY <1>1, <1>3, <1>5, TreeFacts DEF Live, Ended
  <2>2. \A m \in Nodes : FromSpec(m)' <=> FromSpec(m)
    BY <1>2 DEF FromSpec, IsLeaf, Kind, StepResolves, PipelineFromSpec, ParallelFromSpec, RouterFromSpec,
                LoopFromSpec, Registered, PipelineBuilds, ParallelBuilds, RouterBuilds, LoopBuilds
  <2>. QED
    BY <1>2, <1>5, <2>1, <2>2 DEF StartInv
<1>7. AwaitInv'
  <2> SUFFICES ASSUME NEW p \in Nodes, NEW k \in Kids(p), pc'[k] \in Live
               PROVE  k \in Awaited(spec[p], pc'[p], frame'[p])
    BY <1>2 DEF AwaitInv, Kids
  <2>1. k \in Nodes /\ \A q \in Nodes : k \in Kids(q) => q = p
    BY <1>1, TreeFacts
  <2>2. CASE p = n
    <3>1. k # n
      BY <1>1, <2>2, TreeFacts
    <3>2. k \in S \/ pc[k] \in Live
      BY <1>3, <2>1, <3>1
    <3>. QED
      BY <1>3, <2>2, <3>2
  <2>3. CASE p \in S
    <3>1. pc[k] \notin Live
      BY <2>3
    <3>2. k \notin S
      BY <1>3, <2>1, <2>3
    <3>3. k # n
      BY <3>1
    <3>. QED
      BY <1>3, <2>1, <3>1, <3>2, <3>3
  <2>4. CASE p # n /\ p \notin S
    <3>1. k \notin S
      BY <2>1, <2>4
    <3>2. pc[k] \in Live
      BY <1>3, <2>1, <3>1
    <3>3. k \in Awaited(spec[p], pc[p], frame[p])
      BY <1>1, <3>2 DEF AwaitInv
    <3>. QED
      BY <1>3, <2>4, <3>3
  <2>. QED
    BY <2>2, <2>3, <2>4
<1>8. ASSUME NEW m \in Nodes PROVE PlaceInv(spec[m], pc'[m], frame'[m])
  <2>1. CASE m \in S
    BY <1>1, <1>3, <1>5, <2>1, FreshPlace
  <2>2. CASE m \notin S
    BY <1>1, <1>3, <2>2
  <2>. QED
    BY <2>1, <2>2
<1>. QED
  BY <1>2, <1>4, <1>6, <1>7, <1>8 DEF RunInv

(* n awaits the nodes of S, or comes to its end.                           *)
LEMMA Begins ==
  ASSUME RunInv, NEW n \in Nodes, pc[n] \in Live,
         NEW f \in Frame(Nodes), NEW s \in Live, NEW S \in SUBSET Kids(n), Await(n, f, s, S),
         \A k \in Kids(n) : pc[k] \notin Live,
         S \subseteq Awaited(spec[n], s, f), PlaceInv(spec[n], s, f)
  PROVE  RunInv'
<1>1. Moves(n, s, f, S) /\ asked' = asked /\ \A m \in S : \A k \in Kids(m) : pc[k] \notin Live
  BY DEF Await, Moves
<1>2. asked' \subseteq Nodes
  BY <1>1 DEF RunInv, RunTypeOK
<1>. QED
  BY <1>1, <1>2, Moved

With(f, v) == [f EXCEPT !.data = v]

LEMMA WithFacts ==
  ASSUME RunTypeOK, NEW n \in Nodes, NEW v \in Opt(Values)
  PROVE  /\ With(frame[n], v) \in Frame(Nodes)
         /\ With(frame[n], v).data = v /\ With(frame[n], v).history = frame[n].history
BY FrameFacts DEF With, Frame

LEMMA Ends ==
  ASSUME RunInv, NEW n \in Nodes, pc[n] \in Live,
         NEW s \in Ended, NEW v \in Opt(Values), Return(n, s, v), asked' \subseteq Nodes,
         \A k \in Kids(n) : pc[k] \in Live => Kind(n) = "parallel" /\ s = "cancelled",
         Kind(n) = "loop" /\ s = "ok" => Keeps(spec[n], With(frame[n], v))
  PROVE  RunInv'
<1> DEFINE g == With(frame[n], v)
<1>1. RunTypeOK /\ TopologySpec(spec)
  BY DEF RunInv
<1>2. g \in Frame(Nodes)
  BY <1>1, WithFacts
<1>3. Moves(n, s, g, {})
  <2>1. frame' = [frame EXCEPT ![n] = With(frame[n], v)]
    BY DEF Return, With
  <2>2. pc' = [pc EXCEPT ![n] = s] /\ UNCHANGED <<spec, registered>>
    BY DEF Return
  <2>3. DOMAIN pc = Nodes /\ DOMAIN frame = Nodes
    BY <1>1 DEF RunTypeOK
  <2> HIDE DEF g
  <2>4. frame' = [frame EXCEPT ![n] = g]
    BY <2>1 DEF g
  <2>5. frame' = [m \in Nodes |-> IF m = n THEN g ELSE frame[m]]
    BY <2>3, <2>4
  <2>6. pc' = [m \in Nodes |-> IF m = n THEN s ELSE pc[m]]
    BY <2>2, <2>3
  <2>. QED
    BY <2>2, <2>5, <2>6 DEF Moves
<1>4. PlaceInv(spec[n], s, g)
  <2> HIDE DEF g
  <2>1. s \notin Live /\ s # "ready" /\ s # "waiting"
    BY DEF Ended, Live
  <2>2. Kind(n) = "loop" /\ s = "ok" => Keeps(spec[n], g)
    BY DEF g
  <2>. QED
    BY <2>1, <2>2 DEF PlaceInv, Kind
<1> HIDE DEF g
<1>5. ASSUME NEW k \in Kids(n), pc[k] \in Live PROVE k \in Awaited(spec[n], s, g)
  <2>1. spec[n].kind = "parallel" /\ s = "cancelled"
    BY <1>5 DEF Kind
  <2>2. Kids(n) = Elems(spec[n].steps)
    BY <2>1, WorkersFacts DEF Kids
  <2>. QED
    BY <2>1, <2>2 DEF Awaited
<1>6. s \in Live \cup Ended /\ {} \in SUBSET Kids(n)
  OBVIOUS
<1>. QED
  BY <1>2, <1>3, <1>4, <1>5, <1>6, Moved

-----------------------------------------------------------------------------
(* The steps, one lemma per action.  No child of n runs when none that n   *)
(* awaits does.                                                            *)
LEMMA Quiet ==
  ASSUME RunInv, NEW n \in Nodes, \A k \in Awaited(spec[n], pc[n], frame[n]) : pc[k] \notin Live
  PROVE  \A k \in Kids(n) : pc[k] \notin Live
BY DEF RunInv, AwaitInv

(* Facts of every step of a node.                                          *)
LEMMA PlaceFacts ==
  ASSUME RunInv, NEW n \in Nodes
  PROVE  /\ TopologySpec(spec) /\ RunTypeOK /\ PlaceInv(spec[n], pc[n], frame[n])
         /\ spec[n] \in OperationSpec(Nodes) /\ asked \subseteq Nodes
         /\ frame[n] \in Frame(Nodes) /\ frame[n].data \in Opt(Values)
         /\ \A k \in Kids(n) : k \in Nodes /\ frame[k].data \in Opt(Values)
         /\ None \in Opt(Values)
<1>1. TopologySpec(spec) /\ RunTypeOK /\ PlaceInv(spec[n], pc[n], frame[n])
  BY DEF RunInv
<1>2. \A k \in Kids(n) : k \in Nodes /\ frame[k].data \in Opt(Values)
  BY <1>1, TreeFacts, FrameFacts
<1>. QED
  BY <1>1, <1>2, TreeFacts, FrameFacts DEF RunTypeOK, Opt

LEMMA ExecuteStep == ASSUME RunInv, NEW n \in Nodes, Execute(n) PROVE RunInv'
<1>1. pc[n] \in Live /\ asked' \subseteq Nodes /\ Kids(n) = {} /\ Kind(n) # "loop"
  <2>1. asked' \subseteq Nodes
    BY PlaceFacts DEF Execute
  <2>. QED
    BY <2>1, WorkersFacts DEF Execute, Live, Kids, IsLeaf, Kind, Leaf
<1>2. None \in Opt(Values) /\ {"ok", "failed", "cancelled"} = Ended
  BY PlaceFacts DEF Ended
<1>3. \E s \in Ended : \E v \in Opt(Values) : Return(n, s, v)
  BY <1>2 DEF Execute
<1>. QED
  BY <1>1, <1>3, Ends

-----------------------------------------------------------------------------
LEMMA PipelineFacts ==
  ASSUME RunInv, NEW n \in Nodes, Kind(n) = "pipeline"
  PROVE  /\ Len(spec[n].steps) \in Nat
         /\ \A i \in Nat : i < Len(spec[n].steps) => spec[n].steps[i + 1] \in Kids(n)
<1>1. spec[n].steps \in Seq(Nodes)
  BY PlaceFacts, OperationFacts DEF Kind
<1>2. Kids(n) = Elems(spec[n].steps)
  BY WorkersFacts DEF Kids, Kind
<1> DEFINE s == spec[n].steps
<1> HIDE DEF s
<1>3. s \in Seq(Nodes)
  BY <1>1 DEF s
<1>4. Len(s) \in Nat
  BY <1>3
<1>5. \A i \in Nat : i < Len(s) => i + 1 \in 1..Len(s)
  BY <1>4
<1>6. \A i \in 1..Len(s) : s[i] \in Elems(s)
  BY <1>3, ElemsFacts
<1>. QED
  BY <1>2, <1>4, <1>5, <1>6 DEF s

LEMMA PipelineAwaits ==
  ASSUME RunInv, NEW n \in Nodes, Kind(n) = "pipeline", pc[n] \in Live, \A k \in Kids(n) : pc[k] \notin Live,
         NEW f \in Frame(Nodes), f.at \in Nat, f.at < Len(spec[n].steps),
         Await(n, f, "waiting", {spec[n].steps[f.at + 1]})
  PROVE  RunInv'
<1>1. {spec[n].steps[f.at + 1]} \in SUBSET Kids(n)
  BY PipelineFacts
<1>2. {spec[n].steps[f.at + 1]} \subseteq Awaited(spec[n], "waiting", f)
  BY DEF Awaited, Kind
<1>3. PlaceInv(spec[n], "waiting", f)
  BY DEF PlaceInv, Kind
<1>4. "waiting" \in Live
  BY DEF Live
<1>. QED
  BY <1>1, <1>2, <1>3, <1>4, Begins

LEMMA PipelineStartStep == ASSUME RunInv, NEW n \in Nodes, PipelineStart(n) PROVE RunInv'
<1>1. Kind(n) = "pipeline" /\ pc[n] = "ready" /\ Await(n, frame[n], "waiting", {spec[n].steps[frame[n].at + 1]})
  BY DEF PipelineStart, PipelineStep
<1>2. \A k \in Kids(n) : pc[k] \notin Live
  BY <1>1, Quiet DEF Awaited
<1>3. frame[n] \in Frame(Nodes) /\ frame[n].at \in Nat /\ frame[n].at < Len(spec[n].steps)
  BY <1>1, PlaceFacts, FrameFacts DEF PlaceInv, Kind
<1>4. pc[n] \in Live
  BY <1>1 DEF Live
<1>. QED
  BY <1>1, <1>2, <1>3, <1>4, PipelineAwaits

Edited(f, at, tries, data) == [f EXCEPT !.at = at, !.tries = tries, !.data = data]

LEMMA EditedFrame ==
  ASSUME NEW f \in Frame(Nodes), NEW at \in Nat, NEW tries \in Nat, NEW data \in Opt(Values)
  PROVE  Edited(f, at, tries, data) \in Frame(Nodes) /\ Edited(f, at, tries, data).at = at
BY DEF Frame, Edited

LEMMA PipelineAdvances ==
  ASSUME RunInv, NEW n \in Nodes, Kind(n) = "pipeline", pc[n] = "waiting", \A k \in Kids(n) : pc[k] \notin Live,
         NEW data \in Opt(Values), PipelineAdvance(n, data)
  PROVE  RunInv'
<1> DEFINE f == [frame[n] EXCEPT !.at = @ + 1, !.tries = 0, !.data = data]
<1>1. frame[n] \in Frame(Nodes) /\ frame[n].at \in Nat /\ frame[n].at < Len(spec[n].steps) /\ pc[n] \in Live
  BY PlaceFacts, FrameFacts DEF PlaceInv, Kind, Live
<1>2. f \in Frame(Nodes) /\ f.at = frame[n].at + 1
  <2> DEFINE at == frame[n].at + 1
  <2>1. at \in Nat /\ 0 \in Nat
    BY <1>1
  <2>2. f = Edited(frame[n], at, 0, data)
    BY DEF Edited
  <2> HIDE DEF at
  <2>3. Edited(frame[n], at, 0, data) \in Frame(Nodes) /\ Edited(frame[n], at, 0, data).at = at
    <3>1. frame[n] \in Frame(Nodes) /\ at \in Nat /\ 0 \in Nat /\ data \in Opt(Values)
      BY <1>1, <2>1
    <3> HIDE DEF f
    <3>. QED
      BY <3>1, EditedFrame
  <2>. QED
    BY <2>2, <2>3 DEF at
<1>3. \/ Return(n, "ok", data) /\ asked' = asked
      \/ f.at # Len(spec[n].steps) /\ Await(n, f, "waiting", {spec[n].steps[f.at + 1]})
  BY DEF PipelineAdvance
<1> HIDE DEF f
<1>4. CASE Return(n, "ok", data) /\ asked' = asked
  <2>1. asked' \subseteq Nodes /\ "ok" \in Ended
    BY <1>4, PlaceFacts DEF Ended
  <2>. QED
    BY <1>1, <1>4, <2>1, Ends
<1>5. CASE f.at # Len(spec[n].steps) /\ Await(n, f, "waiting", {spec[n].steps[f.at + 1]})
  <2>1. f.at \in Nat /\ f.at < Len(spec[n].steps)
    BY <1>1, <1>2, <1>5, PipelineFacts
  <2>. QED
    BY <1>1, <1>2, <1>5, <2>1, PipelineAwaits
<1>. QED
  BY <1>3, <1>4, <1>5

LEMMA PipelineNextStep == ASSUME RunInv, NEW n \in Nodes, PipelineNext(n) PROVE RunInv'
<1> DEFINE c == PipelineStep(n)
<1>1. Kind(n) = "pipeline" /\ pc[n] = "waiting" /\ pc[n] \in Live
  BY DEF PipelineNext, Live
<1>2. frame[n] \in Frame(Nodes) /\ frame[n].at \in Nat /\ frame[n].at < Len(spec[n].steps)
  BY <1>1, PlaceFacts, FrameFacts DEF PlaceInv, Kind
<1>3. c \in Kids(n) /\ frame[c].data \in Opt(Values) /\ frame[n].data \in Opt(Values) /\ None \in Opt(Values)
  BY <1>1, <1>2, PipelineFacts, PlaceFacts DEF PipelineStep
<1>4. Awaited(spec[n], pc[n], frame[n]) = {c}
  BY <1>1 DEF Awaited, Kind, PipelineStep
<1> HIDE DEF c
<1>5. ASSUME pc[c] \in Ended PROVE \A k \in Kids(n) : pc[k] \notin Live
  <2>1. pc[c] \notin Live
    BY <1>5 DEF Ended, Live
  <2>. QED
    BY <1>4, <2>1, Quiet
<1>6. ASSUME NEW s \in {"failed", "cancelled"}, pc[c] \in Ended, Return(n, s, None), asked' = asked PROVE RunInv'
  <2>1. s \in Ended /\ asked' \subseteq Nodes
    BY <1>6, PlaceFacts DEF Ended
  <2>. QED
    BY <1>1, <1>3, <1>5, <1>6, <2>1, Ends
<1>7. ASSUME PipelineStepOk(n) PROVE RunInv'
  <2>1. pc[c] \in Ended /\ PipelineAdvance(n, frame[c].data)
    BY <1>7 DEF PipelineStepOk, Ended, c
  <2>. QED
    BY <1>1, <1>3, <1>5, <2>1, PipelineAdvances
<1>8. ASSUME PipelineStepFailed(n) PROVE RunInv'
  <2> DEFINE f == [frame[n] EXCEPT !.tries = @ + 1]
  <2>1. /\ pc[c] = "failed"
        /\ \/ Await(n, f, "waiting", {c})
           \/ PipelineAdvance(n, frame[n].data)
           \/ Return(n, "failed", None) /\ asked' = asked
    BY <1>8 DEF PipelineStepFailed, c
  <2>2. pc[c] \in Ended
    BY <2>1 DEF Ended
  <2>3. f \in Frame(Nodes) /\ f.at = frame[n].at
    BY <1>2 DEF Frame
  <2> HIDE DEF f
  <2>4. CASE Await(n, f, "waiting", {c})
    <3>1. c = spec[n].steps[f.at + 1]
      BY <2>3 DEF c, PipelineStep
    <3>. QED
      BY <1>1, <1>2, <1>5, <2>2, <2>3, <2>4, <3>1, PipelineAwaits
  <2>5. CASE PipelineAdvance(n, frame[n].data)
    BY <1>1, <1>3, <1>5, <2>2, <2>5, PipelineAdvances
  <2>6. CASE Return(n, "failed", None) /\ asked' = asked
    BY <1>6, <2>2, <2>6
  <2>. QED
    BY <2>1, <2>4, <2>5, <2>6
<1>9. ASSUME pc[c] = "cancelled", Return(n, "cancelled", None), asked' = asked PROVE RunInv'
  BY <1>6, <1>9 DEF Ended
<1>. QED
  BY <1>7, <1>8, <1>9 DEF PipelineNext, c

-----------------------------------------------------------------------------
LEMMA ParallelFacts ==
  ASSUME RunInv, NEW n \in Nodes, Kind(n) = "parallel"
  PROVE  /\ Kids(n) = Branches(n) /\ Branches(n) \subseteq Nodes
         /\ spec[n].steps \in Seq(Nodes)
<1>1. spec[n].steps \in Seq(Nodes)
  BY PlaceFacts, OperationFacts DEF Kind
<1>2. Kids(n) = Branches(n)
  BY WorkersFacts DEF Kids, Kind, Branches
<1>. QED
  BY <1>1, <1>2, PlaceFacts

LEMMA ParallelStartStep == ASSUME RunInv, NEW n \in Nodes, ParallelStart(n) PROVE RunInv'
<1>1. Kind(n) = "parallel" /\ pc[n] = "ready" /\ Await(n, frame[n], "waiting", Branches(n))
  BY DEF ParallelStart
<1>2. \A k \in Kids(n) : pc[k] \notin Live
  BY <1>1, Quiet DEF Awaited
<1>3. Branches(n) \in SUBSET Kids(n) /\ frame[n] \in Frame(Nodes)
  BY <1>1, ParallelFacts, PlaceFacts
<1>4. Branches(n) \subseteq Awaited(spec[n], "waiting", frame[n]) /\ PlaceInv(spec[n], "waiting", frame[n])
  BY <1>1 DEF Awaited, Kind, Branches, PlaceInv
<1>5. pc[n] \in Live /\ "waiting" \in Live
  BY <1>1 DEF Live
<1>. QED
  BY <1>1, <1>2, <1>3, <1>4, <1>5, Begins

Abandoning(f, late) == [f EXCEPT !.late = late]

LEMMA ParallelTimeoutStep == ASSUME RunInv, NEW n \in Nodes, ParallelTimeout(n) PROVE RunInv'
<1> DEFINE undone == {b \in Branches(n) : pc[b] \notin Ended}
           g == Abandoning(frame[n], undone)
<1>1. Kind(n) = "parallel" /\ pc[n] = "waiting" /\ asked' = asked \cup undone
  BY DEF ParallelTimeout
<1>2. Kids(n) = Branches(n) /\ Branches(n) \subseteq Nodes /\ frame[n] \in Frame(Nodes) /\ asked \subseteq Nodes
  BY <1>1, ParallelFacts, PlaceFacts
<1>3. g \in Frame(Nodes) /\ g.late = undone
  BY <1>2 DEF Frame, Abandoning
<1>4. Moves(n, "reaping", g, {})
  <2>1. frame' = [frame EXCEPT ![n] = g] /\ pc' = [pc EXCEPT ![n] = "reaping"] /\ UNCHANGED <<spec, registered>>
    BY DEF ParallelTimeout, Abandoning
  <2>2. DOMAIN pc = Nodes /\ DOMAIN frame = Nodes
    BY PlaceFacts DEF RunTypeOK
  <2> HIDE DEF g
  <2>3. frame' = [m \in Nodes |-> IF m = n THEN g ELSE frame[m]]
    BY <2>1, <2>2
  <2>4. pc' = [m \in Nodes |-> IF m = n THEN "reaping" ELSE pc[m]]
    BY <2>1, <2>2
  <2>. QED
    BY <2>1, <2>3, <2>4 DEF Moves
<1>5. PlaceInv(spec[n], "reaping", g)
  BY <1>1 DEF PlaceInv, Kind
<1>6. ASSUME NEW k \in Kids(n), pc[k] \in Live PROVE k \in Awaited(spec[n], "reaping", g)
  <2>1. k \in undone
    BY <1>2, <1>6 DEF Live, Ended
  <2>2. Awaited(spec[n], "reaping", g) = g.late
    BY <1>1 DEF Awaited, Kind
  <2>. QED
    BY <1>3, <2>1, <2>2
<1>7. asked' \subseteq Nodes
  BY <1>1, <1>2
<1>8. pc[n] \in Live /\ "reaping" \in Live \cup Ended /\ {} \in SUBSET Kids(n)
  BY <1>1 DEF Live
<1> HIDE DEF g, undone
<1>. QED
  BY <1>3, <1>4, <1>5, <1>6, <1>7, <1>8, Moved

(* The first success in the order of the branches is one of their values.  *)
LEMMA FirstWinsFacts ==
  ASSUME RunInv, NEW n \in Nodes, Kind(n) = "parallel"
  PROVE  FirstWins(n) \in Opt(Values)
<1> DEFINE W == Successful(n)
           s == spec[n].steps
           i == CHOOSE i \in W : \A j \in W : i <= j
<1>1. CASE W = {}
  BY <1>1, PlaceFacts DEF FirstWins
<1>2. CASE W # {}
  <2>1. s \in Seq(Nodes)
    BY ParallelFacts
  <2>2. W \subseteq DOMAIN s
    BY DEF Successful
  <2> HIDE DEF s, W
  <2>3. Len(s) \in Nat /\ DOMAIN s = 1..Len(s)
    BY <2>1
  <2>4. W \in SUBSET (1..Len(s))
    BY <2>2, <2>3
  <2> DEFINE N == Len(s)
  <2>5. N \in Nat /\ W \in SUBSET (1..N)
    BY <2>3, <2>4
  <2> HIDE DEF N
  <2>6. \E v \in W : \A w \in W : v <= w
    BY <1>2, <2>5, SmallestExists
  <2>7. i \in W
    BY <2>6
  <2>8. s[i] \in Nodes
    BY <2>1, <2>2, <2>7
  <2>9. frame[s[i]].data \in Opt(Values)
    BY <2>8, PlaceFacts, FrameFacts
  <2>. QED
    BY <1>2, <2>9 DEF FirstWins, W, s
<1>. QED
  BY <1>1, <1>2

LEMMA ParallelReturnStep == ASSUME RunInv, NEW n \in Nodes, ParallelReturn(n) PROVE RunInv'
<1>1. Kind(n) = "parallel" /\ Collected(n) /\ asked' = asked
  BY DEF ParallelReturn
<1>2. pc[n] \in Live /\ \A k \in Kids(n) : pc[k] \notin Live
  <2>1. CASE pc[n] = "waiting" /\ \A b \in Branches(n) : pc[b] \in Ended
    <3>1. \A k \in Kids(n) : pc[k] \notin Live
      BY <1>1, <2>1, ParallelFacts DEF Ended, Live
    <3>. QED
      BY <2>1, <3>1 DEF Live
  <2>2. CASE pc[n] = "reaping" /\ \A b \in frame[n].late : pc[b] \in Ended
    <3>1. Awaited(spec[n], pc[n], frame[n]) = frame[n].late
      BY <1>1, <2>2 DEF Awaited, Kind
    <3>2. \A k \in Awaited(spec[n], pc[n], frame[n]) : pc[k] \notin Live
      BY <2>2, <3>1 DEF Ended, Live
    <3>. QED
      BY <2>2, <3>2, Quiet DEF Live
  <2>. QED
    BY <1>1, <2>1, <2>2 DEF Collected
<1>3. None \in Opt(Values) /\ Values \subseteq Opt(Values) /\ asked' \subseteq Nodes
  BY <1>1, PlaceFacts DEF Opt
<1>4. \E s \in Ended : \E v \in Opt(Values) : Return(n, s, v)
  <2>1. \/ Return(n, "cancelled", None)
        \/ \E v \in Values : Return(n, "ok", v)
        \/ Return(n, "ok", FirstWins(n))
        \/ \E v \in Opt(Values) : Return(n, "ok", v)
        \/ Return(n, "failed", None)
    BY DEF ParallelReturn
  <2>2. "ok" \in Ended /\ "failed" \in Ended /\ "cancelled" \in Ended
    BY DEF Ended
  <2>3. FirstWins(n) \in Opt(Values)
    BY <1>1, FirstWinsFacts
  <2>. QED
    BY <1>3, <2>1, <2>2, <2>3
<1>. QED
  BY <1>1, <1>2, <1>3, <1>4, Ends

LEMMA ParallelCancelledStep == ASSUME RunInv, NEW n \in Nodes, ParallelCancelled(n) PROVE RunInv'
<1>1. Kind(n) = "parallel" /\ pc[n] \in Live /\ Return(n, "cancelled", None) /\ "cancelled" \in Ended
  BY DEF ParallelCancelled, Live, Ended
<1>2. None \in Opt(Values) /\ asked' \subseteq Nodes
  BY PlaceFacts DEF ParallelCancelled
<1>. QED
  BY <1>1, <1>2, Ends

-----------------------------------------------------------------------------
LEMMA RouterFacts ==
  ASSUME RunInv, NEW n \in Nodes, Kind(n) = "router"
  PROVE  /\ spec[n].classifier # None => spec[n].classifier \in Kids(n)
         /\ spec[n].fallback # None => spec[n].fallback \in Workers(spec[n])
         /\ Elems(spec[n].routes) \subseteq Workers(spec[n])
         /\ spec[n].conditions \subseteq Workers(spec[n])
         /\ Workers(spec[n]) \subseteq Kids(n) /\ Workers(spec[n]) \subseteq Nat
<1>1. /\ Workers(spec[n]) = Elems(spec[n].routes) \cup ({spec[n].fallback} \ {None})
      /\ Deciders(spec[n]) = {spec[n].classifier} \ {None}
  BY WorkersFacts DEF Kind
<1>2. Workers(spec[n]) \subseteq Kids(n) /\ Deciders(spec[n]) \subseteq Kids(n) /\ Kids(n) \subseteq Nodes
  BY PlaceFacts, TreeFacts
<1>3. spec[n].conditions \subseteq Elems(spec[n].routes)
  BY PlaceFacts DEF TopologySpec, Nodes, Kind
<1>4. Nodes \subseteq Nat
  BY PlaceFacts, TreeFacts
<1>. QED
  BY <1>1, <1>2, <1>3, <1>4

Sending(f, chosen) == [f EXCEPT !.at = chosen]

LEMMA DispatchStep ==
  ASSUME RunInv, NEW n \in Nodes, Kind(n) = "router", pc[n] \in Live, \A k \in Kids(n) : pc[k] \notin Live,
         NEW r, r # None => r \in Workers(spec[n]), Dispatch(n, r)
  PROVE  RunInv'
<1> DEFINE chosen == IF r # None THEN r ELSE spec[n].fallback
           f == Sending(frame[n], chosen)
<1>1. \/ Return(n, "failed", None) /\ asked' = asked
      \/ chosen # None /\ Await(n, f, "waiting", {chosen})
  BY DEF Dispatch, Sending
<1>2. chosen # None => chosen \in Workers(spec[n])
  BY RouterFacts
<1> HIDE DEF chosen
<1>3. CASE Return(n, "failed", None) /\ asked' = asked
  <2>1. None \in Opt(Values) /\ asked' \subseteq Nodes /\ "failed" \in Ended
    BY <1>3, PlaceFacts DEF Ended
  <2>. QED
    BY <1>3, <2>1, Ends
<1>4. CASE chosen # None /\ Await(n, f, "waiting", {chosen})
  <2>1. chosen \in Workers(spec[n]) /\ chosen \in Nat /\ {chosen} \in SUBSET Kids(n)
    BY <1>2, <1>4, RouterFacts
  <2>2. frame[n] \in Frame(Nodes)
    BY PlaceFacts
  <2>3. f \in Frame(Nodes) /\ f.at = chosen
    BY <2>1, <2>2 DEF Frame, Sending
  <2> HIDE DEF f
  <2>4. {chosen} \subseteq Awaited(spec[n], "waiting", f)
    BY <2>3 DEF Awaited, Kind
  <2>5. PlaceInv(spec[n], "waiting", f)
    BY <2>1, <2>3 DEF PlaceInv, Kind
  <2>6. "waiting" \in Live
    BY DEF Live
  <2>. QED
    BY <1>4, <2>1, <2>3, <2>4, <2>5, <2>6, Begins
<1>. QED
  BY <1>1, <1>3, <1>4

LEMMA RouterStartStep == ASSUME RunInv, NEW n \in Nodes, RouterStart(n) PROVE RunInv'
<1> DEFINE c == spec[n].classifier
<1>1. Kind(n) = "router" /\ pc[n] = "ready" /\ pc[n] \in Live
  BY DEF RouterStart, Live
<1>2. \A k \in Kids(n) : pc[k] \notin Live
  BY <1>1, Quiet DEF Awaited
<1>3. \/ c # None /\ Await(n, frame[n], "classifying", {c})
      \/ \E r \in Opt(spec[n].conditions) : Dispatch(n, r)
      \/ Return(n, "failed", None) /\ asked' = asked
  BY DEF RouterStart
<1>4. CASE c # None /\ Await(n, frame[n], "classifying", {c})
  <2>1. {c} \in SUBSET Kids(n) /\ frame[n] \in Frame(Nodes)
    BY <1>1, <1>4, RouterFacts, PlaceFacts
  <2>2. {c} \subseteq Awaited(spec[n], "classifying", frame[n]) /\ PlaceInv(spec[n], "classifying", frame[n])
    BY <1>1 DEF Awaited, Kind, PlaceInv
  <2>3. "classifying" \in Live
    BY DEF Live
  <2>. QED
    BY <1>1, <1>2, <1>4, <2>1, <2>2, <2>3, Begins
<1>5. CASE \E r \in Opt(spec[n].conditions) : Dispatch(n, r)
  <2>1. PICK r \in Opt(spec[n].conditions) : Dispatch(n, r)
    BY <1>5
  <2>2. r # None => r \in Workers(spec[n])
    BY <1>1, RouterFacts DEF Opt
  <2>. QED
    BY <1>1, <1>2, <2>1, <2>2, DispatchStep
<1>6. CASE Return(n, "failed", None) /\ asked' = asked
  <2>1. None \in Opt(Values) /\ asked' \subseteq Nodes /\ "failed" \in Ended
    BY <1>6, PlaceFacts DEF Ended
  <2>. QED
    BY <1>1, <1>2, <1>6, <2>1, Ends
<1>. QED
  BY <1>3, <1>4, <1>5, <1>6

(* A node returns what its only child did.                                 *)
LEMMA Follows ==
  ASSUME RunInv, NEW n \in Nodes, pc[n] \in Live, NEW c, Awaited(spec[n], pc[n], frame[n]) = {c}, pc[c] \in Ended,
         NEW v \in Opt(Values), Return(n, pc[c], v), asked' = asked, Kind(n) = "loop" => pc[c] # "ok"
  PROVE  RunInv'
<1>1. \A k \in Kids(n) : pc[k] \notin Live
  <2>1. pc[c] \notin Live
    BY DEF Ended, Live
  <2>. QED
    BY <2>1, Quiet
<1>2. asked' \subseteq Nodes
  BY PlaceFacts
<1> DEFINE s == pc[c]
<1>3. s \in Ended /\ Return(n, s, v) /\ (Kind(n) = "loop" => s # "ok")
  OBVIOUS
<1> HIDE DEF s
<1>. QED
  BY <1>1, <1>2, <1>3, Ends

LEMMA RouterClassifiedStep == ASSUME RunInv, NEW n \in Nodes, RouterClassified(n) PROVE RunInv'
<1> DEFINE c == spec[n].classifier
<1>1. Kind(n) = "router" /\ pc[n] = "classifying" /\ pc[n] \in Live
  BY DEF RouterClassified, Live
<1>2. Awaited(spec[n], pc[n], frame[n]) = {c}
  BY <1>1 DEF Awaited, Kind
<1>3. CASE pc[c] = "ok" /\ \E r \in Opt(Elems(spec[n].routes)) : Dispatch(n, r)
  <2>1. PICK r \in Opt(Elems(spec[n].routes)) : Dispatch(n, r)
    BY <1>3
  <2>2. r # None => r \in Workers(spec[n])
    BY <1>1, RouterFacts DEF Opt
  <2>3. \A k \in Kids(n) : pc[k] \notin Live
    <3>1. pc[c] \notin Live
      BY <1>3 DEF Live
    <3>. QED
      BY <1>2, <3>1, Quiet
  <2>. QED
    BY <1>1, <2>1, <2>2, <2>3, DispatchStep
<1>4. CASE pc[c] \in {"failed", "cancelled"} /\ Return(n, pc[c], None) /\ asked' = asked
  <2>1. pc[c] \in Ended /\ None \in Opt(Values) /\ Kind(n) # "loop"
    BY <1>1, <1>4, PlaceFacts DEF Ended
  <2> HIDE DEF c
  <2>. QED
    BY <1>1, <1>2, <1>4, <2>1, Follows
<1>. QED
  BY <1>3, <1>4 DEF RouterClassified

LEMMA RouterReturnStep == ASSUME RunInv, NEW n \in Nodes, RouterReturn(n) PROVE RunInv'
<1> DEFINE c == frame[n].at
           v == frame[c].data
<1>1. Kind(n) = "router" /\ pc[n] = "waiting" /\ pc[n] \in Live /\ pc[c] \in Ended /\ Return(n, pc[c], v)
      /\ asked' = asked
  BY DEF RouterReturn, Live
<1>2. Awaited(spec[n], pc[n], frame[n]) = {c}
  BY <1>1 DEF Awaited, Kind
<1>3. c \in Kids(n)
  <2>1. c \in Workers(spec[n])
    BY <1>1, PlaceFacts DEF PlaceInv, Kind
  <2>. QED
    BY <1>1, <2>1, RouterFacts
<1>4. v \in Opt(Values)
  BY <1>3, PlaceFacts
<1> HIDE DEF c, v
<1>. QED
  BY <1>1, <1>2, <1>4, Follows

-----------------------------------------------------------------------------
LEMMA LoopFacts ==
  ASSUME RunInv, NEW n \in Nodes, Kind(n) = "loop"
  PROVE  /\ spec[n].step \in Kids(n) /\ spec[n].evaluator \in Kids(n)
         /\ spec[n].confidence \in Opt(Nat)
         /\ pc[n] \in Live => \A i \in DOMAIN frame[n].history : Unsure(spec[n], frame[n].history[i])
<1>1. Workers(spec[n]) = {spec[n].step} /\ Deciders(spec[n]) = {spec[n].evaluator}
  BY WorkersFacts DEF Kind
<1>2. Workers(spec[n]) \subseteq Kids(n) /\ Deciders(spec[n]) \subseteq Kids(n)
  BY PlaceFacts, TreeFacts
<1>3. spec[n].confidence \in Opt(Nat)
  BY PlaceFacts, OperationFacts DEF Kind
<1>. QED
  BY <1>1, <1>2, <1>3, PlaceFacts DEF PlaceInv, Kind

LEMMA ResolvedIsValue ==
  ASSUME NEW n, NEW h \in Seq(IterationRecord)
  PROVE  ResolveKeptOutput(n, h) \in Opt(Values)
<1> DEFINE b == BestIteration(h)
<1>1. \A i \in DOMAIN h : h[i].out \in Opt(Values)
  <2> DEFINE T == IterationRecord
  <2>1. \A r \in T : r.out \in Opt(Values)
    BY DEF IterationRecord
  <2> HIDE DEF T
  <2>2. h \in Seq(T)
    BY DEF T
  <2>3. \A i \in DOMAIN h : h[i] \in T
    BY <2>2
  <2>. QED
    BY <2>1, <2>3
<1>2. h # <<>> => Len(h) \in DOMAIN h
  BY ElemsLast
<1>3. b # 0 => b \in DOMAIN h
  BY BestIterationFacts
<1> HIDE DEF b
<1>4. None \in Opt(Values)
  BY DEF Opt
<1>5. \/ ResolveKeptOutput(n, h) = None
      \/ h # <<>> /\ ResolveKeptOutput(n, h) = h[Len(h)].out
      \/ b # 0 /\ ResolveKeptOutput(n, h) = h[b].out
  BY DEF ResolveKeptOutput, b
<1>. QED
  BY <1>1, <1>2, <1>3, <1>4, <1>5

LEMMA LoopHeadStep == ASSUME RunInv, NEW n \in Nodes, LoopHead(n) PROVE RunInv'
<1> DEFINE h == frame[n].history
           v == ResolveKeptOutput(n, h)
           g == With(frame[n], v)
<1>1. Kind(n) = "loop" /\ pc[n] = "ready" /\ pc[n] \in Live
  BY DEF LoopHead, Live
<1>2. \A k \in Kids(n) : pc[k] \notin Live
  BY <1>1, Quiet DEF Awaited
<1>3. h \in Seq(IterationRecord) /\ frame[n] \in Frame(Nodes) /\ RunTypeOK
  BY PlaceFacts, FrameFacts
<1>4. CASE Return(n, "ok", v) /\ asked' = asked
  <2>1. v \in Opt(Values)
    BY <1>3, ResolvedIsValue
  <2>2. g.data = v /\ g.history = h
    <3> HIDE DEF v
    <3>. QED
      BY <1>3, <2>1, WithFacts
  <2>3. Keeps(spec[n], g)
    <3>1. g.history \in Seq(IterationRecord) /\ g.data = ResolveKeptOutput(n, g.history)
      BY <1>3, <2>2
    <3> HIDE DEF g
    <3>. QED
      BY <3>1, ResolvedKept
  <2>4. asked' \subseteq Nodes /\ "ok" \in Ended
    BY <1>4, PlaceFacts DEF Ended
  <2> HIDE DEF v
  <2>. QED
    BY <1>1, <1>2, <1>4, <2>1, <2>3, <2>4, Ends
<1>5. CASE Await(n, frame[n], "waiting", {spec[n].step})
  <2>1. {spec[n].step} \in SUBSET Kids(n)
    BY <1>1, LoopFacts
  <2>2. {spec[n].step} \subseteq Awaited(spec[n], "waiting", frame[n])
    BY <1>1 DEF Awaited, Kind
  <2>3. PlaceInv(spec[n], "waiting", frame[n])
    BY <1>1, LoopFacts DEF PlaceInv, Kind
  <2>4. "waiting" \in Live
    BY DEF Live
  <2>. QED
    BY <1>1, <1>2, <1>3, <1>5, <2>1, <2>2, <2>3, <2>4, Begins
<1>. QED
  BY <1>4, <1>5 DEF LoopHead

LEMMA LoopEvaluateStep == ASSUME RunInv, NEW n \in Nodes, LoopEvaluate(n) PROVE RunInv'
<1> DEFINE c == spec[n].step
           v == frame[c].data
           f == With(frame[n], v)
           e == spec[n].evaluator
<1>1. Kind(n) = "loop" /\ pc[n] = "waiting" /\ pc[n] \in Live
  BY DEF LoopEvaluate, Live
<1>2. Awaited(spec[n], pc[n], frame[n]) = {c}
  BY <1>1 DEF Awaited, Kind
<1>3. c \in Kids(n) /\ e \in Kids(n) /\ v \in Opt(Values) /\ RunTypeOK
  BY <1>1, LoopFacts, PlaceFacts
<1>4. CASE pc[c] = "ok" /\ Await(n, f, "evaluating", {e})
  <2>1. \A k \in Kids(n) : pc[k] \notin Live
    <3>1. pc[c] \notin Live
      BY <1>4 DEF Live
    <3>. QED
      BY <1>2, <3>1, Quiet
  <2>2. f \in Frame(Nodes) /\ f.history = frame[n].history
    <3> HIDE DEF v
    <3>. QED
      BY <1>3, WithFacts
  <2>3. {e} \in SUBSET Kids(n)
    BY <1>3
  <2> HIDE DEF f
  <2>4. {e} \subseteq Awaited(spec[n], "evaluating", f)
    BY <1>1 DEF Awaited, Kind
  <2>5. PlaceInv(spec[n], "evaluating", f)
    BY <1>1, <2>2, LoopFacts DEF PlaceInv, Kind
  <2>6. "evaluating" \in Live
    BY DEF Live
  <2> HIDE DEF e
  <2>. QED
    BY <1>1, <1>4, <2>1, <2>2, <2>3, <2>4, <2>5, <2>6, Begins
<1>5. CASE pc[c] \in {"failed", "cancelled"} /\ Return(n, pc[c], None) /\ asked' = asked
  <2>1. pc[c] \in Ended /\ None \in Opt(Values) /\ pc[c] # "ok"
    BY <1>5, PlaceFacts DEF Ended
  <2> HIDE DEF c
  <2>. QED
    BY <1>1, <1>2, <1>5, <2>1, Follows
<1>6. \/ pc[c] = "ok" /\ Await(n, f, "evaluating", {e})
      \/ pc[c] \in {"failed", "cancelled"} /\ Return(n, pc[c], None) /\ asked' = asked
  BY DEF LoopEvaluate, With
<1>. QED
  BY <1>4, <1>5, <1>6

-----------------------------------------------------------------------------
LEMMA Appended ==
  ASSUME NEW T, NEW s \in Seq(T), NEW x \in T
  PROVE  /\ Append(s, x) \in Seq(T) /\ Append(s, x) # <<>>
         /\ Append(s, x)[Len(Append(s, x))] = x
         /\ \A i \in DOMAIN Append(s, x) :
                i < Len(Append(s, x)) => i \in DOMAIN s /\ Append(s, x)[i] = s[i]
         /\ \A i \in DOMAIN Append(s, x) : i < Len(Append(s, x)) \/ i = Len(Append(s, x))
OBVIOUS

(* The loop returns v with the history h.                                  *)
Returning(f, h, v) == [f EXCEPT !.data = v, !.history = h]

LEMMA LoopReturns ==
  ASSUME RunInv, NEW n \in Nodes, Kind(n) = "loop", pc[n] \in Live, \A k \in Kids(n) : pc[k] \notin Live,
         NEW h \in Seq(IterationRecord), NEW v \in Opt(Values), LoopReturn(n, h, v),
         Keeps(spec[n], Returning(frame[n], h, v))
  PROVE  RunInv'
<1> DEFINE g == Returning(frame[n], h, v)
<1>1. frame[n] \in Frame(Nodes) /\ DOMAIN pc = Nodes /\ DOMAIN frame = Nodes
  BY PlaceFacts DEF RunTypeOK
<1>2. g \in Frame(Nodes)
  BY <1>1 DEF Frame, Returning
<1>3. Moves(n, "ok", g, {})
  <2>1. frame' = [frame EXCEPT ![n] = g] /\ pc' = [pc EXCEPT ![n] = "ok"] /\ UNCHANGED <<spec, registered>>
    BY <1>1 DEF LoopReturn, Returning
  <2> HIDE DEF g
  <2>2. frame' = [m \in Nodes |-> IF m = n THEN g ELSE frame[m]]
    BY <1>1, <2>1
  <2>3. pc' = [m \in Nodes |-> IF m = n THEN "ok" ELSE pc[m]]
    BY <1>1, <2>1
  <2>. QED
    BY <2>1, <2>2, <2>3 DEF Moves
<1>4. asked' \subseteq Nodes
  BY PlaceFacts DEF LoopReturn
<1> HIDE DEF g
<1>5. PlaceInv(spec[n], "ok", g)
  BY DEF PlaceInv, Kind, Live, g
<1>6. "ok" \in Live \cup Ended /\ {} \in SUBSET Kids(n)
  BY DEF Ended
<1>. QED
  BY <1>2, <1>3, <1>4, <1>5, <1>6, Moved

Going(f, h) == [f EXCEPT !.at = @ + 1, !.history = h]

LEMMA LoopJudgeStep ==
  ASSUME RunInv, NEW n \in Nodes, Kind(n) = "loop", pc[n] \in Live, \A k \in Kids(n) : pc[k] \notin Live,
         NEW e \in [passed : BOOLEAN, score : Opt(Scores)], LoopJudge(n, e)
  PROVE  RunInv'
<1> DEFINE r == [out |-> frame[n].data, score |-> e.score, passed |-> e.passed]
           h == Append(frame[n].history, r)
           sure == spec[n].confidence # None /\ e.score # None /\ e.score >= spec[n].confidence
           T == IterationRecord
<1>1. /\ frame[n] \in Frame(Nodes) /\ frame[n].at \in Nat /\ frame[n].data \in Opt(Values)
      /\ frame[n].history \in Seq(T) /\ RunTypeOK
  BY PlaceFacts, FrameFacts
<1>2. r \in T /\ r.out = frame[n].data /\ r.score = e.score /\ r.passed = e.passed
  BY <1>1 DEF IterationRecord
<1>3. \/ e.passed /\ LoopReturn(n, h, frame[n].data)
      \/ ~e.passed /\ sure /\ LoopReturn(n, h, frame[n].data)
      \/ LoopReturn(n, h, ResolveKeptOutput(n, h))
      \/ ~e.passed /\ ~sure /\ Await(n, Going(frame[n], h), "ready", {})
      \/ Return(n, "failed", None) /\ asked' = asked
  BY DEF LoopJudge, Going
<1>4. /\ h \in Seq(T) /\ h # <<>> /\ h[Len(h)] = r
      /\ \A i \in DOMAIN h : i < Len(h) => i \in DOMAIN frame[n].history /\ h[i] = frame[n].history[i]
      /\ \A i \in DOMAIN h : i < Len(h) \/ i = Len(h)
  <2> HIDE DEF r, T
  <2>. QED
    BY <1>1, <1>2, Appended
<1>5. /\ spec[n].confidence \in Opt(Nat)
      /\ \A i \in DOMAIN frame[n].history : Unsure(spec[n], frame[n].history[i])
  BY LoopFacts
<1>6. Unsure(spec[n], r) <=> ~e.passed /\ ~sure
  <2>1. spec[n].confidence # None => spec[n].confidence \in Nat
    BY <1>5 DEF Opt
  <2>2. e.score # None => e.score \in Nat
    BY ScoresAssumption DEF Opt
  <2>. QED
    BY <1>2, <2>1, <2>2 DEF Unsure
<1> HIDE DEF h, r, sure
<1>7. \A i \in DOMAIN h : i < Len(h) => Unsure(spec[n], h[i])
  BY <1>4, <1>5
<1>8. ASSUME NEW v \in Opt(Values)
      PROVE  Returning(frame[n], h, v).history = h /\ Returning(frame[n], h, v).data = v
  BY <1>1 DEF Returning, Frame
<1>9. ASSUME NEW v \in Opt(Values), Keeps(spec[n], Returning(frame[n], h, v)), LoopReturn(n, h, v) PROVE RunInv'
  BY <1>4, <1>9, LoopReturns
<1>10. CASE e.passed /\ LoopReturn(n, h, frame[n].data)
  <2>1. h[Len(h)].passed
    BY <1>2, <1>4, <1>10
  <2>2. Returning(frame[n], h, frame[n].data).history = h
    BY <1>1, <1>8
  <2>3. Keeps(spec[n], Returning(frame[n], h, frame[n].data))
    BY <2>1, <2>2 DEF Keeps
  <2>. QED
    BY <1>1, <1>9, <1>10, <2>3
<1>11. CASE ~e.passed /\ sure /\ LoopReturn(n, h, frame[n].data)
  <2> DEFINE g == Returning(frame[n], h, frame[n].data)
  <2>1. g.history = h /\ g.data = frame[n].data
    BY <1>1, <1>8
  <2>2. ~Unsure(spec[n], h[Len(h)]) /\ h[Len(h)].out = frame[n].data
    BY <1>2, <1>4, <1>6, <1>11
  <2> HIDE DEF g
  <2>3. Keeps(spec[n], g)
    <3>1. /\ g.history \in Seq(IterationRecord) /\ g.history # <<>>
          /\ \A i \in DOMAIN g.history : i < Len(g.history) => Unsure(spec[n], g.history[i])
          /\ ~Unsure(spec[n], g.history[Len(g.history)])
          /\ g.data = g.history[Len(g.history)].out
      BY <1>4, <1>7, <2>1, <2>2
    <3>. QED
      BY <1>5, <3>1, ConfidentKept
  <2>. QED
    BY <1>1, <1>9, <1>11, <2>3 DEF g
<1>12. CASE LoopReturn(n, h, ResolveKeptOutput(n, h))
  <2> DEFINE v == ResolveKeptOutput(n, h)
             g == Returning(frame[n], h, v)
  <2>1. v \in Opt(Values)
    BY <1>4, ResolvedIsValue
  <2>2. g.history = h /\ g.data = v
    <3> HIDE DEF v
    <3>. QED
      BY <2>1, <1>8
  <2>3. g.data = ResolveKeptOutput(n, g.history) /\ g.history \in Seq(IterationRecord)
    BY <1>4, <2>2
  <2> HIDE DEF g
  <2>4. Keeps(spec[n], g)
    BY <2>3, ResolvedKept
  <2>5. LoopReturn(n, h, v) /\ Keeps(spec[n], Returning(frame[n], h, v))
    BY <1>12, <2>4 DEF g
  <2> HIDE DEF v
  <2>. QED
    BY <1>9, <2>1, <2>5
<1>13. CASE ~e.passed /\ ~sure /\ Await(n, Going(frame[n], h), "ready", {})
  <2> DEFINE f == Going(frame[n], h)
  <2>1. f \in Frame(Nodes) /\ f.history = h
    <3>1. frame[n].at + 1 \in Nat /\ h \in Seq(IterationRecord)
      BY <1>1, <1>4
    <3>. QED
      BY <1>1, <3>1 DEF Going, Frame
  <2> HIDE DEF f
  <2>2. \A i \in DOMAIN f.history : Unsure(spec[n], f.history[i])
    BY <1>4, <1>6, <1>7, <1>13, <2>1
  <2>3. PlaceInv(spec[n], "ready", f)
    BY <2>2 DEF PlaceInv, Kind
  <2>4. {} \in SUBSET Kids(n) /\ {} \subseteq Awaited(spec[n], "ready", f) /\ "ready" \in Live
    BY DEF Live
  <2>. QED
    BY <1>13, <2>1, <2>3, <2>4, Begins DEF f
<1>14. CASE Return(n, "failed", None) /\ asked' = asked
  <2>1. None \in Opt(Values) /\ asked' \subseteq Nodes /\ "failed" \in Ended
    BY <1>14, PlaceFacts DEF Ended
  <2>. QED
    BY <1>14, <2>1, Ends
<1>. QED
  BY <1>3, <1>10, <1>11, <1>12, <1>13, <1>14

LEMMA LoopEvaluatedStep == ASSUME RunInv, NEW n \in Nodes, LoopEvaluated(n) PROVE RunInv'
<1> DEFINE c == spec[n].evaluator
<1>1. Kind(n) = "loop" /\ pc[n] = "evaluating" /\ pc[n] \in Live
  BY DEF LoopEvaluated, Live
<1>2. Awaited(spec[n], pc[n], frame[n]) = {c}
  BY <1>1 DEF Awaited, Kind
<1>3. CASE pc[c] = "ok" /\ \E e \in [passed : BOOLEAN, score : Opt(Scores)] : LoopJudge(n, e)
  <2>1. \A k \in Kids(n) : pc[k] \notin Live
    <3>1. pc[c] \notin Live
      BY <1>3 DEF Live
    <3>. QED
      BY <1>2, <3>1, Quiet
  <2>. QED
    BY <1>1, <1>3, <2>1, LoopJudgeStep
<1>4. CASE pc[c] \in {"failed", "cancelled"} /\ Return(n, pc[c], None) /\ asked' = asked
  <2>1. pc[c] \in Ended /\ None \in Opt(Values) /\ pc[c] # "ok"
    BY <1>4, PlaceFacts DEF Ended
  <2> HIDE DEF c
  <2>. QED
    BY <1>1, <1>2, <1>4, <2>1, Follows
<1>. QED
  BY <1>3, <1>4 DEF LoopEvaluated

-----------------------------------------------------------------------------
LEMMA RunInvInit == RunInit => RunInv
<1> SUFFICES ASSUME RunInit PROVE RunInv
  OBVIOUS
<1>1. TopologySpec(spec)
  BY ShapesAssumption DEF RunInit
<1>2. Root \in Nodes
  BY <1>1, TreeFacts
<1>3. /\ pc = [n \in Nodes |-> "idle"] /\ frame = [n \in Nodes |-> Fresh] /\ asked = {}
      /\ Fresh \in Frame(Nodes)
  BY DEF RunInit, Fresh, Frame, Opt
<1>4. RunTypeOK
  <2>1. spec \in Seq(OperationSpec(Nodes))
    BY <1>1 DEF TopologySpec, Nodes
  <2>. QED
    BY <1>3, <2>1 DEF RunTypeOK
<1>5. \A n \in Nodes : pc[n] = "idle" /\ "idle" \notin Live
  BY <1>3 DEF Live
<1>6. StartInv
  BY <1>2, <1>3 DEF StartInv
<1>7. AwaitInv
  <2>1. \A n \in Nodes : Kids(n) \subseteq Nodes
    BY <1>1, TreeFacts
  <2>. QED
    BY <1>5, <2>1 DEF AwaitInv
<1>8. \A n \in Nodes : PlaceInv(spec[n], pc[n], frame[n])
  BY <1>5 DEF PlaceInv, Live
<1>. QED
  BY <1>1, <1>4, <1>6, <1>7, <1>8 DEF RunInv

LEMMA Kept ==
  ASSUME RunInv, UNCHANGED <<spec, registered, pc, frame>>, asked' \subseteq Nodes
  PROVE  RunInv'
<1>1. Nodes' = Nodes /\ RunTypeOK /\ TopologySpec(spec) /\ StartInv /\ AwaitInv
      /\ \A n \in Nodes : PlaceInv(spec[n], pc[n], frame[n])
  BY DEF RunInv, Nodes
<1>2. RunTypeOK' /\ TopologySpec(spec)'
  BY <1>1 DEF RunTypeOK
<1>3. StartInv'
  BY <1>1 DEF StartInv, FromSpec, IsLeaf, Kind, StepResolves, PipelineFromSpec, ParallelFromSpec, RouterFromSpec,
              LoopFromSpec, Registered, PipelineBuilds, ParallelBuilds, RouterBuilds, LoopBuilds
<1>4. AwaitInv'
  BY <1>1 DEF AwaitInv, Kids
<1>. QED
  BY <1>1, <1>2, <1>3, <1>4 DEF RunInv

LEMMA CancelStep == ASSUME RunInv, Cancel PROVE RunInv'
<1>1. UNCHANGED <<spec, registered, pc, frame>> /\ asked' \subseteq Nodes
  <2>1. Root \in Nodes /\ asked \subseteq Nodes
    BY TreeFacts DEF RunInv, RunTypeOK
  <2>. QED
    BY <2>1 DEF Cancel
<1>. QED
  BY <1>1, Kept

LEMMA StartStep == ASSUME RunInv, TopologyFromSpec PROVE RunInv'
<1>1. /\ TopologySpec(spec) /\ RunTypeOK /\ StartInv /\ pc[Root] = "idle" /\ Root \in Nodes
      /\ UNCHANGED <<spec, registered, frame, asked>> /\ Nodes' = Nodes
      /\ \A n \in Nodes : PlaceInv(spec[n], pc[n], frame[n])
  BY TreeFacts DEF RunInv, TopologyFromSpec, Nodes
<1>2. frame[Root] = Fresh /\ \A n \in Nodes \ {Root} : pc[n] = "idle"
  BY <1>1 DEF StartInv
<1>3. /\ \A n \in Nodes \ {Root} : pc'[n] = pc[n] /\ pc'[n] = "idle"
      /\ pc' \in [Nodes -> {"idle", "invalid"} \cup Ended \cup Live]
      /\ \/ Hydrates(Root) /\ pc'[Root] = "ready"
         \/ pc'[Root] = "invalid"
  BY <1>1, <1>2 DEF TopologyFromSpec, RunTypeOK, Live
<1>4. RunTypeOK' /\ TopologySpec(spec)'
  BY <1>1, <1>3 DEF RunTypeOK
<1>5. \A m \in Nodes : FromSpec(m)' <=> FromSpec(m)
  BY <1>1 DEF FromSpec, IsLeaf, Kind, StepResolves, PipelineFromSpec, ParallelFromSpec, RouterFromSpec,
              LoopFromSpec, Registered, PipelineBuilds, ParallelBuilds, RouterBuilds, LoopBuilds
<1>6. pc'[Root] = "ready" => \A m \in Nodes : FromSpec(m)
  BY <1>1, <1>3, HydratesAll
<1>7. StartInv'
  BY <1>1, <1>2, <1>3, <1>5, <1>6 DEF StartInv
<1>8. AwaitInv'
  <2> SUFFICES ASSUME NEW p \in Nodes, NEW k \in Kids(p) PROVE pc'[k] \notin Live
    BY <1>1 DEF AwaitInv, Kids
  <2>1. k \in Nodes \ {Root}
    BY <1>1, TreeFacts
  <2>. QED
    BY <1>3, <2>1 DEF Live
<1>9. ASSUME NEW m \in Nodes PROVE PlaceInv(spec[m], pc'[m], frame[m])
  <2>1. CASE m # Root
    BY <1>1, <1>3, <2>1
  <2>2. CASE m = Root /\ pc'[Root] = "ready"
    BY <1>1, <1>2, <1>6, <2>2, FreshPlace
  <2>3. CASE m = Root /\ pc'[Root] = "invalid"
    BY <2>3 DEF PlaceInv, Live
  <2>. QED
    BY <1>3, <2>1, <2>2, <2>3
<1>. QED
  BY <1>1, <1>4, <1>7, <1>8, <1>9 DEF RunInv

LEMMA RunInvNext == RunInv /\ [RunNext]_runVars => RunInv'
<1> SUFFICES ASSUME RunInv, [RunNext]_runVars PROVE RunInv'
  OBVIOUS
<1>1. ASSUME NEW n \in Nodes, StepOf(n) \/ ParallelTimeout(n) PROVE RunInv'
  BY <1>1, ExecuteStep, PipelineStartStep, PipelineNextStep, ParallelStartStep, ParallelTimeoutStep,
     ParallelReturnStep, ParallelCancelledStep, RouterStartStep, RouterClassifiedStep, RouterReturnStep,
     LoopHeadStep, LoopEvaluateStep, LoopEvaluatedStep DEF StepOf
<1>2. CASE TopologyFromSpec
  BY <1>2, StartStep
<1>3. CASE Cancel
  BY <1>3, CancelStep
<1>4. CASE UNCHANGED runVars
  <2>1. UNCHANGED <<spec, registered, pc, frame>> /\ asked' \subseteq Nodes
    BY <1>4 DEF runVars, RunInv, RunTypeOK
  <2>. QED
    BY <2>1, Kept
<1>. QED
  BY <1>1, <1>2, <1>3, <1>4 DEF RunNext

LEMMA RunInvAlways == RunSpec => []RunInv
<1>. QED
  BY RunInvInit, RunInvNext, PTL DEF RunSpec

(* Whenever a step of a topology runs, the whole tree was resolved         *)
(* (topology_from_spec), and the run employs no more agents and awaits     *)
(* through no more composites than _count_agent_steps and _topology_depth  *)
(* told the optimizer.                                                     *)
THEOREM RunsAreChecked == RunSpec => []RunsWhatWasChecked
BY RunInvAlways, RunInvChecked, PTL

(* A step runs only while its composite awaits it: run() of a parallel     *)
(* reaps the branches its timeout cancels before it returns; only one that *)
(* is itself cancelled leaves its branches behind.                         *)
THEOREM ConcurrencyIsStructured == RunSpec => []NoStrayBranches
BY RunInvAlways, RunInvStray, PTL

(* A refinement loop with keep_best that did not pass returns an output    *)
(* with the best score of its history, whichever exit it takes.            *)
THEOREM LoopsKeepTheBest == RunSpec => []KeepsBest
BY RunInvAlways, RunInvKeeps, PTL
=============================================================================
