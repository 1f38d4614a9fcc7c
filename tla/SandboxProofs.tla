---------------------------- MODULE SandboxProofs ----------------------------
(***************************************************************************)
(* Proofs about the package orqest/sandbox.                                *)
(*                                                                         *)
(* ToolRuntime, for every set of names, implementations and calls, every   *)
(* threshold and policy and any number of versions: its types, the         *)
(* agreement of the table with the hash set and the registry, the audit    *)
(* trail of versions, and what automatic promotion may add.                *)
(*                                                                         *)
(* Sandboxes, for any number of sessions, containers, ports, calls and     *)
(* agents: the values keep their types, a container is left over only by a *)
(* failure, code runs in the container of its own session, one command at  *)
(* a time works on a venv, and undisturbed code finds what it declared.    *)
(***************************************************************************)
EXTENDS ToolRuntime, Sandboxes, FiniteSetTheorems, WellFoundedInduction, TLAPS

-----------------------------------------------------------------------------
(* ToolRuntime.                                                            *)

(* A set of version numbers that is not empty has a largest one. *)
LEMMA Largest ==
    ASSUME NEW V \in SUBSET (1..MaxVersion), V # {}
    PROVE  \E v \in V : \A w \in V : w <= v
<1> DEFINE Above(v) == (v + 1)..MaxVersion
           T == {Above(v) : v \in V}
<1> USE BoundAssumption
<1>1. T \subseteq FiniteSubsetsOf(1..MaxVersion)
  <2> SUFFICES ASSUME NEW v \in V
               PROVE  Above(v) \subseteq 1..MaxVersion /\ IsFiniteSet(Above(v))
    BY DEF FiniteSubsetsOf
  <2>1. v + 1 \in Int /\ MaxVersion \in Int
    OBVIOUS
  <2>. QED
    BY <2>1, FS_Interval
<1>2. PICK S \in T : \A U \in T : <<U, S>> \notin StrictSubsetOrdering(1..MaxVersion)
  <2>1. T # {}
    OBVIOUS
  <2> HIDE DEF T
  <2>. QED
    BY <1>1, <2>1, FS_StrictSubsetOrderingWellFounded, WFMin
<1>3. PICK v \in V : S = Above(v)
  OBVIOUS
<1>4. ASSUME NEW w \in V, ~(w <= v) PROVE FALSE
  <2>1. Above(w) \subseteq Above(v) /\ w \in Above(v) /\ w \notin Above(w)
    BY <1>4
  <2>2. <<Above(w), S>> \in StrictSubsetOrdering(1..MaxVersion)
    BY <1>3, <2>1 DEF StrictSubsetOrdering
  <2>. QED
    BY <1>2, <2>2
<1>. QED
  BY <1>4

LEMMA LatestExists ==
    ASSUME NEW R \in SUBSET Rows, NEW n, RowsOf(R, n) # {}
    PROVE  \E r \in RowsOf(R, n) : IsLatest(R, r)
<1> DEFINE V == {r.version : r \in RowsOf(R, n)}
<1>1. V \in SUBSET (1..MaxVersion) /\ V # {}
  BY DEF RowsOf, Rows
<1>2. PICK v \in V : \A w \in V : w <= v
  <2> HIDE DEF V
  <2>. QED
    BY <1>1, Largest
<1>3. PICK r \in RowsOf(R, n) : r.version = v
  OBVIOUS
<1>4. IsLatest(R, r)
  BY <1>2, <1>3 DEF IsLatest, RowsOf
<1>. QED
  BY <1>3, <1>4

(* What Latest returns: nothing for a name without rows, otherwise what a  *)
(* row of that name says that no other row of the name is newer than.      *)
LEMMA LatestFacts ==
    ASSUME NEW R \in SUBSET Rows, NEW n
    PROVE  /\ Latest(R, n) \in Tools \cup {NoTool}
           /\ Latest(R, n) = NoTool <=> RowsOf(R, n) = {}
           /\ Latest(R, n) # NoTool =>
                 \E r \in RowsOf(R, n) :
                    /\ Latest(R, n) = ToolOf(r)
                    /\ \A s \in RowsOf(R, n) : s.version <= r.version
           /\ \A t \in Tools : t # NoTool
<1>1. \A t \in Tools : t # NoTool
  BY BoundAssumption DEF Tools, NoTool
<1>2. CASE RowsOf(R, n) = {}
  BY <1>1, <1>2 DEF Latest
<1>3. CASE RowsOf(R, n) # {}
  <2> DEFINE r == CHOOSE r \in RowsOf(R, n) : IsLatest(R, r)
  <2>1. r \in RowsOf(R, n) /\ IsLatest(R, r)
    BY <1>3, LatestExists
  <2>2. Latest(R, n) = ToolOf(r)
    BY <1>3 DEF Latest
  <2> HIDE DEF r
  <2>3. ToolOf(r) \in Tools
    BY <2>1 DEF RowsOf, Rows, ToolOf, Tools
  <2>4. \A s \in RowsOf(R, n) : s.version <= r.version
    BY <2>1 DEF IsLatest, RowsOf
  <2>. QED
    BY <1>1, <1>3, <2>1, <2>2, <2>3, <2>4
<1>. QED
  BY <1>2, <1>3

(* The table part of HistoryAuditable, for any table. *)
Auditable(R) ==
    \A r, s \in R :
        r.name = s.name =>
            /\ r.version = s.version => r = s
            /\ s.version = r.version + 1 => r.impl # s.impl

(* A registration of the latest tool is not behind any row of its name. *)
LEMMA LatestServes ==
    ASSUME NEW R \in SUBSET Rows, Auditable(R), NEW r \in R
    PROVE  /\ Latest(R, r.name) # NoTool
           /\ Latest(R, r.name).version >= r.version
           /\ Latest(R, r.name).version = r.version =>
                 Latest(R, r.name).impl = r.impl
<1>1. r \in RowsOf(R, r.name)
  BY DEF RowsOf
<1>2. PICK s \in RowsOf(R, r.name) :
         /\ Latest(R, r.name) = ToolOf(s)
         /\ \A t \in RowsOf(R, r.name) : t.version <= s.version
  BY <1>1, LatestFacts
<1>3. s.version = r.version => s = r
  BY <1>2 DEF Auditable, RowsOf
<1>4. Latest(R, r.name) # NoTool
  BY <1>1, LatestFacts
<1>5. r.version \in Nat /\ s.version \in Nat /\ r.version <= s.version
  BY <1>1, <1>2 DEF RowsOf, Rows
<1>. QED
  BY <1>2, <1>3, <1>4, <1>5 DEF ToolOf

(* What persist leaves: an auditable table again, with the hash of the     *)
(* code, in which the latest tool of the name runs that code, and the rows *)
(* that were there.                                                        *)
LEMMA PersistFacts ==
    ASSUME NEW R \in SUBSET Rows, Auditable(R),
           NEW n \in Names, NEW i \in Impls, Persist(R, n, i) \subseteq Rows
    PROVE  /\ Auditable(Persist(R, n, i))
           /\ Hashes(Persist(R, n, i)) = Hashes(R) \cup {<<n, i>>}
           /\ Hashes(Persist(R, n, i) \ R) \subseteq {<<n, i>>}
           /\ \A m \in Names \ {n} : RowsOf(Persist(R, n, i), m) = RowsOf(R, m)
<1> DEFINE latest == Latest(R, n)
           new == [name |-> n, version |-> latest.version + 1,
                   impl |-> i, invocations |-> 0]
<1>1. CASE latest # NoTool /\ latest.impl = i
  <2>1. Persist(R, n, i) = R
    BY <1>1 DEF Persist
  <2>2. <<n, i>> \in Hashes(R)
    BY <1>1, LatestFacts DEF RowsOf, Hashes, ToolOf
  <2>. QED
    BY <2>1, <2>2 DEF Hashes
<1>2. CASE ~(latest # NoTool /\ latest.impl = i)
  <2>1. Persist(R, n, i) = R \cup {new}
    BY <1>2 DEF Persist
  <2>2. /\ latest.version \in Nat
        /\ \A s \in RowsOf(R, n) : s.version <= latest.version
    BY LatestFacts DEF Tools, NoTool, ToolOf
  <2>3. \A s \in RowsOf(R, n) : s.version = latest.version => s.impl # i
    <3> SUFFICES ASSUME NEW s \in RowsOf(R, n), s.version = latest.version
                 PROVE  s.impl # i
      OBVIOUS
    <3>1. PICK r \in RowsOf(R, n) : latest = ToolOf(r)
      BY LatestFacts
    <3>2. s = r
      BY <3>1 DEF Auditable, RowsOf, ToolOf
    <3>3. latest.impl = s.impl /\ latest # NoTool
      BY <3>1, <3>2, LatestFacts DEF ToolOf
    <3>. QED
      BY <1>2, <3>3
  <2> HIDE DEF latest
  <2>4. Auditable(R \cup {new})
    <3>1. \A s \in R : s.name = n => s \in RowsOf(R, n) /\ s.version \in Nat
      BY DEF RowsOf, Rows
    <3>. QED
      BY <2>2, <2>3, <3>1 DEF Auditable
  <2>5. new.name = n /\ new.impl = i
    OBVIOUS
  <2> HIDE DEF new
  <2>6. Hashes(R \cup {new}) = Hashes(R) \cup {<<n, i>>}
    BY <2>5 DEF Hashes
  <2>7. Hashes((R \cup {new}) \ R) \subseteq {<<n, i>>}
    BY <2>5 DEF Hashes
  <2>8. \A m \in Names \ {n} : RowsOf(R \cup {new}, m) = RowsOf(R, m)
    BY <2>5 DEF RowsOf
  <2>. QED
    BY <2>1, <2>4, <2>6, <2>7, <2>8
<1>. QED
  BY <1>1, <1>2

-----------------------------------------------------------------------------
(* Only a running server executes, and a counter never claims a success    *)
(* that was not one: what auto-promotion rests on after a restart.         *)
CallsUp == ~up => \A c \in Calls : call[c] = Idle

CountsEarned == \A p \in Pairs : counts[p] <= earned[p]

IInv == /\ TypeOK
        /\ CallsUp
        /\ CountsEarned
        /\ HashesExact
        /\ RegistryNotBehind
        /\ HistoryAuditable

LEMMA InitIInv == Init => IInv
<1> SUFFICES ASSUME Init PROVE IInv
  OBVIOUS
<1>1. up \in BOOLEAN
  BY Zenon DEF Init
<1>2. TypeOK
  BY <1>1, ThresholdAssumption DEF Init, TypeOK
<1>3. CountsEarned
  BY DEF Init, CountsEarned
<1>. QED
  BY <1>2, <1>3 DEF Init, IInv, CallsUp, HashesExact, RegistryNotBehind,
     HistoryAuditable

(* A promotion keeps table, registry and hash set together. *)
LEMMA PromoteFacts ==
    ASSUME IInv, up, up' = up, NEW n \in Names, NEW i \in Impls, Promote(n, i)
    PROVE  /\ rows' \subseteq Rows
           /\ registry' \in [Names -> Tools \cup {NoTool}]
           /\ persisted' \subseteq Pairs
           /\ HashesExact'
           /\ RegistryNotBehind'
           /\ HistoryAuditable'
           /\ Hashes(rows' \ rows) \subseteq {<<n, i>>}
<1> USE DEF IInv
<1>1. /\ Auditable(rows) /\ rows \in SUBSET Rows
      /\ rows' = Persist(rows, n, i) /\ Persist(rows, n, i) \subseteq Rows
  BY DEF TypeOK, HistoryAuditable, Auditable, Promote, RoomFor
<1>2. /\ Auditable(rows')
      /\ Hashes(rows') = Hashes(rows) \cup {<<n, i>>}
      /\ Hashes(rows' \ rows) \subseteq {<<n, i>>}
      /\ \A m \in Names \ {n} : RowsOf(rows', m) = RowsOf(rows, m)
  <2> DEFINE R == Persist(rows, n, i)
  <2>1. /\ Auditable(R) /\ Hashes(R) = Hashes(rows) \cup {<<n, i>>}
        /\ Hashes(R \ rows) \subseteq {<<n, i>>}
        /\ \A m \in Names \ {n} : RowsOf(R, m) = RowsOf(rows, m)
    BY <1>1, PersistFacts, ZenonT(30)
  <2>2. rows' = R
    BY <1>1
  <2> HIDE DEF R
  <2>. QED
    BY <2>1, <2>2
<1>3. registry' = [registry EXCEPT ![n] = Latest(rows', n)]
  BY DEF Promote
<1>4. rows' \in SUBSET Rows
  BY <1>1
<1>5. registry' \in [Names -> Tools \cup {NoTool}]
  <2>1. Latest(rows', n) \in Tools \cup {NoTool}
    BY <1>4, LatestFacts
  <2>. QED
    BY <1>3, <2>1 DEF TypeOK
<1>6. persisted' \subseteq Pairs
  BY DEF Promote, TypeOK, Pairs
<1>7. HashesExact'
  BY <1>2 DEF HashesExact, Promote
<1>8. RegistryNotBehind'
  <2> SUFFICES ASSUME NEW r \in rows'
               PROVE  /\ registry'[r.name] # NoTool
                      /\ registry'[r.name].version >= r.version
                      /\ registry'[r.name].version = r.version =>
                            registry'[r.name].impl = r.impl
    BY DEF RegistryNotBehind
  <2>1. r.name \in Names
    BY <1>4 DEF Rows
  <2>2. CASE r.name = n
    <3>1. registry'[n] = Latest(rows', n)
      BY <1>3 DEF TypeOK
    <3>. QED
      BY <1>2, <1>4, <2>2, <3>1, LatestServes
  <2>3. CASE r.name # n
    <3>1. registry'[r.name] = registry[r.name] /\ r \in rows
      BY <1>2, <1>3, <2>1, <2>3 DEF TypeOK, RowsOf
    <3>. QED
      BY <3>1 DEF RegistryNotBehind
  <2>. QED
    BY <2>2, <2>3
<1>. QED
  BY <1>1, <1>2, <1>5, <1>6, <1>7, <1>8 DEF HistoryAuditable, Auditable

(* A success keeps the invariant, moves the counter of its pair only when  *)
(* it moves the history, and stores nothing but a pair that was not stored *)
(* and has succeeded often enough.                                         *)
LEMMA ExecuteSucceedsFacts ==
    ASSUME IInv, NEW c \in Calls, ExecuteSucceeds(c)
    PROVE  /\ IInv'
           /\ \A q \in Hashes(rows' \ rows) : q \notin Hashes(rows)
           /\ rows' # rows => earned'[<<call[c].name, call[c].impl>>] >= Threshold
<1> DEFINE p == <<call[c].name, call[c].impl>>
<1> USE ThresholdAssumption DEF IInv
<1>1. /\ call[c].op = "execute" /\ call[c] \in Executing
      /\ p \in Pairs /\ p[1] = call[c].name /\ p[2] = call[c].impl
      /\ p[1] \in Names /\ p[2] \in Impls
  BY DEF ExecuteSucceeds, TypeOK, Idle, Running, Executing, Pairs
<1>2. up /\ up' = up
  BY <1>1 DEF ExecuteSucceeds, CallsUp, Idle
<1>3. /\ call' = [call EXCEPT ![c] = Idle]
      /\ earned' = [earned EXCEPT ![p] = IF p \in persisted THEN @ ELSE Saturate(@ + 1)]
      /\ IF Policy = "threshold" /\ p \notin persisted
         THEN Count(p)
         ELSE UNCHANGED <<rows, registry, persisted, counts>>
  BY DEF ExecuteSucceeds
<1> HIDE DEF p
<1>4. earned' \in [Pairs -> 0..Threshold] /\ call' \in [Calls -> {Idle} \cup Executing \cup Running]
  BY <1>1, <1>3 DEF TypeOK, Saturate
<1>5. CallsUp'
  BY <1>2 DEF CallsUp
<1>6. CASE ~(Policy = "threshold" /\ p \notin persisted)
  <2>1. UNCHANGED <<rows, registry, persisted, counts>>
    BY <1>3, <1>6
  <2>2. TypeOK'
    BY <1>2, <1>4, <2>1 DEF TypeOK
  <2>3. CountsEarned'
    BY <1>1, <1>3, <2>1 DEF TypeOK, CountsEarned, Saturate
  <2>4. HashesExact' /\ RegistryNotBehind' /\ HistoryAuditable'
    BY <1>2, <2>1 DEF HashesExact, Hashes, RegistryNotBehind, HistoryAuditable
  <2>. QED
    BY <1>5, <2>1, <2>2, <2>3, <2>4 DEF Hashes
<1>7. CASE Policy = "threshold" /\ p \notin persisted
  <2>1. Count(p) /\ p \notin Hashes(rows)
    BY <1>2, <1>3, <1>7 DEF HashesExact
  <2>2. counts' = [counts EXCEPT ![p] = Saturate(counts[p] + 1)]
    BY <2>1 DEF Count
  <2>3. counts' \in [Pairs -> 0..Threshold] /\ CountsEarned'
    BY <1>1, <1>3, <1>7, <2>2 DEF TypeOK, CountsEarned, Saturate
  <2>4. CASE Saturate(counts[p] + 1) >= Threshold /\ Promote(p[1], p[2])
    <3>1. p = <<p[1], p[2]>>
      BY <1>1 DEF Pairs
    <3>2. /\ rows' \subseteq Rows
          /\ registry' \in [Names -> Tools \cup {NoTool}]
          /\ persisted' \subseteq Pairs
          /\ HashesExact' /\ RegistryNotBehind' /\ HistoryAuditable'
          /\ Hashes(rows' \ rows) \subseteq {p}
      BY <1>1, <1>2, <2>4, <3>1, PromoteFacts
    <3>3. TypeOK'
      BY <1>2, <1>4, <2>3, <3>2 DEF TypeOK
    <3>4. earned'[p] >= Threshold
      <4>1. counts'[p] >= Threshold
        BY <1>1, <2>2, <2>4 DEF TypeOK
      <4>2. counts'[p] <= earned'[p] /\ counts'[p] \in Nat /\ earned'[p] \in Nat
        BY <1>1, <1>4, <2>3 DEF CountsEarned
      <4>. QED
        BY <4>1, <4>2
    <3>. QED
      BY <1>5, <2>1, <2>3, <3>2, <3>3, <3>4 DEF p
  <2>5. CASE UNCHANGED <<rows, registry, persisted>>
    <3>1. TypeOK'
      BY <1>2, <1>4, <2>3, <2>5 DEF TypeOK
    <3>2. HashesExact' /\ RegistryNotBehind' /\ HistoryAuditable'
      BY <1>2, <2>5 DEF HashesExact, Hashes, RegistryNotBehind, HistoryAuditable
    <3>. QED
      BY <1>5, <2>3, <2>5, <3>1, <3>2 DEF Hashes
  <2>. QED
    BY <2>1, <2>4, <2>5 DEF Count
<1>. QED
  BY <1>6, <1>7

LEMMA NextIInv == IInv /\ [Next]_vars => IInv'
<1> SUFFICES ASSUME IInv, [Next]_vars PROVE IInv'
  OBVIOUS
<1> USE ThresholdAssumption, BoundAssumption DEF IInv
<1>1. ASSUME Boot PROVE IInv'
  <2>1. \A n \in Names : Latest(rows, n) \in Tools \cup {NoTool}
    BY LatestFacts DEF TypeOK
  <2>2. up' \in BOOLEAN
    BY <1>1 DEF Boot
  <2>3. TypeOK'
    BY <1>1, <2>1, <2>2 DEF TypeOK, Boot, Hashes, Rows, Pairs
  <2>4. CallsUp'
    BY <1>1 DEF CallsUp, Boot
  <2>5. CountsEarned'
    BY <1>1 DEF TypeOK, CountsEarned, Boot
  <2>6. HashesExact'
    BY <1>1 DEF HashesExact, Hashes, Boot
  <2>7. RegistryNotBehind'
    <3>1. Auditable(rows)
      BY DEF HistoryAuditable, Auditable
    <3>2. \A r \in rows : r.name \in Names
      BY DEF TypeOK, Rows
    <3>. QED
      BY <1>1, <3>1, <3>2, LatestServes DEF TypeOK, RegistryNotBehind, Boot
  <2>8. HistoryAuditable'
    BY <1>1 DEF HistoryAuditable, Boot
  <2>. QED
    BY <2>3, <2>4, <2>5, <2>6, <2>7, <2>8
<1>2. ASSUME Stop PROVE IInv'
  <2>1. up' \in BOOLEAN
    BY <1>2 DEF Stop
  <2>2. TypeOK'
    BY <1>2, <2>1 DEF TypeOK, Stop
  <2>3. CallsUp'
    BY <1>2 DEF CallsUp, Stop
  <2>4. CountsEarned'
    BY <1>2 DEF TypeOK, CountsEarned, Stop
  <2>5. ~up' /\ rows' = rows
    BY <1>2 DEF Stop
  <2>. QED
    BY <2>2, <2>3, <2>4, <2>5 DEF HashesExact, RegistryNotBehind, HistoryAuditable
<1>3. ASSUME NEW c \in Calls, NEW n \in Names, NEW i \in Impls, StartExecute(c, n, i)
      PROVE IInv'
  <2>1. TypeOK' BY <1>3 DEF TypeOK, StartExecute, Executing
  <2>2. CallsUp' BY <1>3 DEF TypeOK, CallsUp, StartExecute
  <2>3. CountsEarned' BY <1>3 DEF CountsEarned, StartExecute
  <2>4. HashesExact' BY <1>3 DEF HashesExact, Hashes, StartExecute
  <2>5. RegistryNotBehind' BY <1>3 DEF RegistryNotBehind, StartExecute
  <2>6. HistoryAuditable' BY <1>3 DEF HistoryAuditable, StartExecute
  <2>. QED BY <2>1, <2>2, <2>3, <2>4, <2>5, <2>6
<1>4. ASSUME NEW c \in Calls, ExecuteFails(c) PROVE IInv'
  <2>1. TypeOK' BY <1>4 DEF TypeOK, ExecuteFails
  <2>2. CallsUp' BY <1>4 DEF TypeOK, CallsUp, ExecuteFails
  <2>3. CountsEarned' BY <1>4 DEF CountsEarned, ExecuteFails
  <2>4. HashesExact' BY <1>4 DEF HashesExact, Hashes, ExecuteFails
  <2>5. RegistryNotBehind' BY <1>4 DEF RegistryNotBehind, ExecuteFails
  <2>6. HistoryAuditable' BY <1>4 DEF HistoryAuditable, ExecuteFails
  <2>. QED BY <2>1, <2>2, <2>3, <2>4, <2>5, <2>6
<1>5. ASSUME NEW c \in Calls, NEW n \in Names, StartRun(c, n) PROVE IInv'
  <2>1. TypeOK' BY <1>5 DEF TypeOK, StartRun, Running, Tools
  <2>2. CallsUp' BY <1>5 DEF TypeOK, CallsUp, StartRun
  <2>3. CountsEarned' BY <1>5 DEF CountsEarned, StartRun
  <2>4. HashesExact' BY <1>5 DEF HashesExact, Hashes, StartRun
  <2>5. RegistryNotBehind' BY <1>5 DEF RegistryNotBehind, StartRun
  <2>6. HistoryAuditable' BY <1>5 DEF HistoryAuditable, StartRun
  <2>. QED BY <2>1, <2>2, <2>3, <2>4, <2>5, <2>6
<1>6. ASSUME NEW c \in Calls, ExecuteSucceeds(c) PROVE IInv'
  BY <1>6, ExecuteSucceedsFacts
<1>7. ASSUME NEW c \in Calls, FinishRun(c) PROVE IInv'
  <2> DEFINE hit == {r \in rows : r.name = call[c].name /\ r.version = call[c].version}
             more(r) == [r EXCEPT !.invocations = @ + 1]
  <2>1. rows' = (rows \ hit) \cup {more(r) : r \in hit}
    BY <1>7 DEF FinishRun
  <2>2. \A r \in hit : /\ more(r) \in Rows
                       /\ more(r).name = r.name
                       /\ more(r).version = r.version
                       /\ more(r).impl = r.impl
    <3>1. \A r \in hit : r \in Rows /\ r.invocations < MaxInvocations
      BY <1>7 DEF TypeOK, FinishRun
    <3>. QED
      BY <3>1 DEF Rows
  <2> HIDE DEF more
  <2>3. \A s \in rows' : \E r \in rows :
           /\ s.name = r.name /\ s.version = r.version /\ s.impl = r.impl
           /\ s = IF r \in hit THEN more(r) ELSE r
    BY <2>1, <2>2
  <2>4. Hashes(rows') = Hashes(rows)
    <3>1. \A r \in rows : \E s \in rows' : s.name = r.name /\ s.impl = r.impl
      BY <2>1, <2>2
    <3>. QED
      BY <2>3, <3>1 DEF Hashes
  <2>5. TypeOK'
    BY <1>7, <2>1, <2>2 DEF TypeOK, FinishRun
  <2>6. CallsUp' BY <1>7 DEF TypeOK, CallsUp, FinishRun
  <2>7. CountsEarned' BY <1>7 DEF CountsEarned, FinishRun
  <2>8. HashesExact' BY <1>7, <2>4 DEF HashesExact, FinishRun
  <2>9. RegistryNotBehind'
    BY <1>7, <2>3 DEF RegistryNotBehind, FinishRun
  <2>10. HistoryAuditable'
    BY <2>3 DEF HistoryAuditable
  <2>. QED
    BY <2>5, <2>6, <2>7, <2>8, <2>9, <2>10
<1>8. ASSUME NEW n \in Names, NEW i \in Impls, PromoteTool(n, i) PROVE IInv'
  <2>1. up /\ up' = up /\ Promote(n, i) /\ UNCHANGED <<counts, call, earned>>
    BY <1>8 DEF PromoteTool
  <2>2. TypeOK'
    BY <2>1, PromoteFacts DEF TypeOK
  <2>3. CallsUp' /\ CountsEarned'
    BY <2>1 DEF CallsUp, CountsEarned
  <2>. QED
    BY <2>1, <2>2, <2>3, PromoteFacts
<1>9. ASSUME NEW n \in Names, NEW versions, ForgetTool(n, versions) PROVE IInv'
  <2>1. rows' \subseteq rows
    BY <1>9 DEF ForgetTool
  <2>2. TypeOK'
    <3>1. Hashes(rows') \subseteq Pairs
      BY <2>1 DEF TypeOK, Hashes, Rows, Pairs
    <3>. QED
      BY <1>9, <2>1, <3>1 DEF TypeOK, ForgetTool
  <2>3. CallsUp' /\ CountsEarned'
    BY <1>9 DEF CallsUp, CountsEarned, ForgetTool
  <2>4. HashesExact'
    BY <1>9 DEF HashesExact, Hashes, ForgetTool
  <2>5. RegistryNotBehind'
    BY <1>9, <2>1 DEF RegistryNotBehind, ForgetTool
  <2>6. HistoryAuditable'
    BY <2>1 DEF HistoryAuditable
  <2>. QED
    BY <2>2, <2>3, <2>4, <2>5, <2>6
<1>10. CASE UNCHANGED vars
  BY <1>10 DEF vars, TypeOK, CallsUp, CountsEarned, HashesExact, Hashes,
     RegistryNotBehind, HistoryAuditable
<1>. QED
  BY <1>1, <1>2, <1>3, <1>4, <1>5, <1>6, <1>7, <1>8, <1>9, <1>10 DEF Next

LEMMA AlwaysIInv == Spec => []IInv
  BY InitIInv, NextIInv, PTL DEF Spec

-----------------------------------------------------------------------------
(* An execution ends, in ExecuteSucceeds or without touching the table: no *)
(* other step of the server changes the table and completes a call that    *)
(* was executing.                                                          *)
LEMMA OnlySuccessesStore ==
    ASSUME IInv, [Next]_vars, NEW c \in Calls,
           call[c].op = "execute", call'[c] = Idle
    PROVE  ExecuteSucceeds(c) \/ rows' = rows
<1> SUFFICES ASSUME rows' # rows PROVE ExecuteSucceeds(c)
  OBVIOUS
<1>1. call[c] # Idle /\ call'[c] # call[c]
  BY DEF Idle
<1>2. ASSUME NEW d \in Calls, FinishRun(d) PROVE FALSE
  BY <1>1, <1>2 DEF IInv, TypeOK, FinishRun
<1>3. ASSUME NEW d \in Calls, ExecuteSucceeds(d) PROVE d = c
  BY <1>1, <1>3 DEF IInv, TypeOK, ExecuteSucceeds
<1>4. ASSUME NEW n \in Names, NEW i \in Impls, PromoteTool(n, i) PROVE FALSE
  BY <1>1, <1>4 DEF PromoteTool
<1>5. ASSUME NEW n, NEW versions, ForgetTool(n, versions) PROVE FALSE
  BY <1>1, <1>5 DEF ForgetTool
<1>. QED
  BY <1>2, <1>3, <1>4, <1>5 DEF Next, Boot, Stop, StartExecute, ExecuteFails,
     StartRun, vars

(* The rows, the registry and the counters never leave their types, however *)
(* many names, versions and calls there are.                               *)
THEOREM TypeCorrect == Spec => []TypeOK
<1>1. IInv => TypeOK
  BY DEF IInv
<1>. QED
  BY <1>1, AlwaysIInv, PTL

(* The hash set that keeps the server from promoting twice is the table's, *)
(* through every order of promotions, deletions and restarts.              *)
THEOREM HashSetIsExact == Spec => []HashesExact
<1>1. IInv => HashesExact
  BY DEF IInv
<1>. QED
  BY <1>1, AlwaysIInv, PTL

(* A served tool is never older than the stored one. *)
THEOREM RegistryIsCurrent == Spec => []RegistryNotBehind
<1>1. IInv => RegistryNotBehind
  BY DEF IInv
<1>. QED
  BY <1>1, AlwaysIInv, PTL

(* Versions identify rows, although deletions free their numbers, and no   *)
(* version repeats the code of the one before it.                          *)
THEOREM HistoryIsAuditable == Spec => []HistoryAuditable
<1>1. IInv => HistoryAuditable
  BY DEF IInv
<1>. QED
  BY <1>1, AlwaysIInv, PTL

(* All of it: the server's memory agrees with its table, at every moment   *)
(* between a start and a stop.                                             *)
THEOREM MemoryAgreesWithTable == Spec => []Consistent
<1>1. IInv => Consistent
  BY DEF IInv, Consistent
<1>. QED
  BY <1>1, AlwaysIInv, PTL

(* Automatic promotion stores no code the name already has. *)
THEOREM PromotionsAreNew == Spec => AutoPromotionIsNew
<1> DEFINE A == \A c \in Calls :
                   call[c].op = "execute" /\ call'[c] = Idle =>
                      \A p \in Hashes(rows' \ rows) : p \notin Hashes(rows)
<1>1. IInv /\ [Next]_vars => [A]_vars
  <2> SUFFICES ASSUME IInv, [Next]_vars, NEW c \in Calls,
                      call[c].op = "execute", call'[c] = Idle
               PROVE  \A p \in Hashes(rows' \ rows) : p \notin Hashes(rows)
    OBVIOUS
  <2>1. rows' = rows => Hashes(rows' \ rows) = {}
    BY DEF Hashes
  <2>. QED
    BY <2>1, OnlySuccessesStore, ExecuteSucceedsFacts
<1>. QED
  BY <1>1, AlwaysIInv, PTL DEF Spec, AutoPromotionIsNew

(* What automatic promotion stores has succeeded Threshold times while it  *)
(* was not stored, however often the counters were lost in between.        *)
THEOREM PromotionsAreEarned == Spec => AutoPromotionIsEarned
<1> DEFINE A == \A c \in Calls :
                   call[c].op = "execute" /\ call'[c] = Idle /\ rows' # rows =>
                      earned'[<<call[c].name, call[c].impl>>] >= Threshold
<1>1. IInv /\ [Next]_vars => [A]_vars
  BY OnlySuccessesStore, ExecuteSucceedsFacts
<1>. QED
  BY <1>1, AlwaysIInv, PTL DEF Spec, AutoPromotionIsEarned

(* Both halves of it.                                                      *)
THEOREM PromotionsAreSound == Spec => AutoPromotionIsSound
BY PromotionsAreNew, PromotionsAreEarned DEF AutoPromotionIsSound

-----------------------------------------------------------------------------
(* Sandboxes.                                                              *)

(* A session that is being entered, open or being left has a container. *)
SessionInv == \A s \in Sandboxes : phase[s] # "out" => container[s] \in Containers

(* A host port belongs to one running container at a time. *)
PortInv ==
    \A c, d \in Containers :
        Alive(c) /\ Alive(d) /\ docker[c].port = docker[d].port => c = d

(* Where a call is: a request names a session and an agent and is in no    *)
(* container; what a container works on came with one and is in a container*)
(* that is up and belongs to the session; the host only runs code.         *)
CallInv ==
    \A k \in Executions :
        /\ pc[k] = "idle" => request[k] = None
        /\ pc[k] = "sent" => /\ request[k] # None /\ request[k].at = None
                             /\ request[k].sandbox \in Sandboxes /\ request[k].agent \in Agents
        /\ pc[k] \in UnderWay => request[k] # None
        /\ pc[k] \in UnderWay /\ Box(k) # None =>
              /\ request[k].agent \in Agents
              /\ docker[Box(k)].state = "alive"
              /\ docker[Box(k)].session = request[k].sandbox
        /\ pc[k] \in UnderWay /\ Box(k) = None => pc[k] = "running"
        /\ pc[k] = "installing" => request[k].dep \in AllowedSpecs

(* Who runs a command on a venv holds its lock. *)
LockInv ==
    \A k \in Executions :
        pc[k] \in {"creating", "installing"} => lock[Box(k)][request[k].agent] = k

(* A call of the same agent that reached the same container, at any time.  *)
Disturbs(l, k) == request[l] # None /\ request[l].agent = request[k].agent /\ request[l].at = Box(k)

(* What a call declared stays installed while no other such call is there. *)
DepsInv ==
    \A k \in Executions :
        /\ pc[k] = "running" /\ Box(k) # None
        /\ request[k].dep # None
        /\ \A l \in Executions \ {k} : ~Disturbs(l, k)
        => installed[Box(k)][request[k].agent] = request[k].dep

SandboxInv == SandboxTypeOK /\ SessionInv /\ PortInv /\ CallInv /\ LockInv /\ DepsInv /\ LeakOnlyOnFailure

-----------------------------------------------------------------------------
LEMMA InitSandboxInv == SandboxInit => SandboxInv
<1> SUFFICES ASSUME SandboxInit PROVE SandboxInv
  OBVIOUS
<1>1. SandboxTypeOK
  BY DEF SandboxInit, SandboxTypeOK, Containers, UnderWay, Settled
<1>2. SessionInv /\ PortInv /\ CallInv /\ LockInv /\ DepsInv /\ LeakOnlyOnFailure
  BY DEF SandboxInit, SessionInv, PortInv, Alive, CallInv, LockInv, DepsInv, LeakOnlyOnFailure, UnderWay
<1>. QED
  BY <1>1, <1>2 DEF SandboxInv

(* Steps of a session change nothing about the calls; containers that exist*)
(* stay what they are.                                                     *)
LEMMA SessionSteps ==
  ASSUME SandboxInv, NEW s \in Sandboxes,
         Enter(s) \/ PortPublished(s) \/ McpReady(s) \/ McpOpened(s) \/ EntryFails(s) \/ Disconnect(s)
  PROVE  SandboxInv'
<1> USE DEF SandboxInv, host, inside
<1>1. UNCHANGED <<inside, pc, request>>
  BY DEF Enter, PortPublished, McpReady, McpOpened, EntryFails, Disconnect
<1>2. SandboxTypeOK'
  <2>1. CASE Enter(s)
    <3>1. FreePorts \subseteq Ports
      BY DEF FreePorts
    <3>2. PICK c \in Containers :
             \/ \E p \in Ports :
                   /\ docker' = [docker EXCEPT ![c] = [state |-> "alive", session |-> s, port |-> p]]
                   /\ container' = [container EXCEPT ![s] = c]
                   /\ port' = [port EXCEPT ![s] = None]
                   /\ phase' = [phase EXCEPT ![s] = "port"]
                   /\ mishap' = mishap
             \/ /\ docker' = [docker EXCEPT ![c] = [state |-> "created", session |-> s, port |-> None]]
                /\ mishap' = mishap \cup {c}
                /\ UNCHANGED <<container, port, phase>>
      BY <2>1, <3>1 DEF Enter
    <3>3. ASSUME NEW p \in Ports,
                 docker' = [docker EXCEPT ![c] = [state |-> "alive", session |-> s, port |-> p]],
                 container' = [container EXCEPT ![s] = c], port' = [port EXCEPT ![s] = None],
                 phase' = [phase EXCEPT ![s] = "port"], mishap' = mishap
          PROVE  SandboxTypeOK'
      BY <3>3, <1>1 DEF SandboxTypeOK
    <3>4. CASE /\ docker' = [docker EXCEPT ![c] = [state |-> "created", session |-> s, port |-> None]]
               /\ mishap' = mishap \cup {c}
               /\ UNCHANGED <<container, port, phase>>
      BY <3>4, <1>1 DEF SandboxTypeOK
    <3>. QED
      BY <3>2, <3>3, <3>4
  <2>2. CASE PortPublished(s)
    BY <2>2, <1>1 DEF PortPublished, Await, SandboxTypeOK, SessionInv
  <2>3. CASE McpReady(s) \/ McpOpened(s)
    BY <2>3, <1>1 DEF McpReady, McpOpened, Await, SandboxTypeOK
  <2>4. CASE EntryFails(s) \/ Disconnect(s)
    BY <2>4, <1>1 DEF EntryFails, Disconnect, Leave, SandboxTypeOK, SessionInv
  <2>. QED
    BY <2>1, <2>2, <2>3, <2>4
<1>3. SessionInv'
  BY DEF Enter, PortPublished, McpReady, McpOpened, EntryFails, Disconnect, Leave, Await,
         SandboxTypeOK, SessionInv
<1>4. \A c \in Containers :
         docker[c].state # "none" => docker'[c] = docker[c]
  BY DEF Enter, PortPublished, McpReady, McpOpened, EntryFails, Disconnect, SandboxTypeOK
<1>5. CallInv' /\ LockInv' /\ DepsInv'
  BY <1>1, <1>4 DEF CallInv, LockInv, DepsInv, Disturbs, Box, SandboxTypeOK, Call
<1>6. LeakOnlyOnFailure'
  <2>1. CASE Enter(s)
    BY <2>1 DEF Enter, SandboxTypeOK, LeakOnlyOnFailure
  <2>2. CASE PortPublished(s) \/ McpReady(s) \/ McpOpened(s)
    BY <2>2 DEF PortPublished, McpReady, McpOpened, Await, SandboxTypeOK, LeakOnlyOnFailure
  <2>3. CASE EntryFails(s) \/ Disconnect(s)
    BY <2>3 DEF EntryFails, Disconnect, Leave, SandboxTypeOK, LeakOnlyOnFailure
  <2>. QED
    BY <2>1, <2>2, <2>3
<1>7. PortInv'
  <2>1. CASE Enter(s)
    <3>1. PICK c \in Containers :
             \/ \E p \in FreePorts :
                   docker' = [docker EXCEPT ![c] = [state |-> "alive", session |-> s, port |-> p]]
             \/ docker' = [docker EXCEPT ![c] = [state |-> "created", session |-> s, port |-> None]]
      BY <2>1 DEF Enter
    <3>2. \A d \in Containers : Alive(d) => docker[d].port \notin FreePorts
      BY DEF FreePorts
    <3>3. ASSUME NEW p \in FreePorts,
                 docker' = [docker EXCEPT ![c] = [state |-> "alive", session |-> s, port |-> p]]
          PROVE  PortInv'
      <4>1. \A d \in Containers : docker'[d] = IF d = c THEN [state |-> "alive", session |-> s, port |-> p]
                                               ELSE docker[d]
        BY <3>3 DEF SandboxTypeOK
      <4>. QED
        BY <3>2, <3>3, <4>1 DEF PortInv, Alive
    <3>4. CASE docker' = [docker EXCEPT ![c] = [state |-> "created", session |-> s, port |-> None]]
      BY <3>4 DEF PortInv, Alive, SandboxTypeOK
    <3>. QED
      BY <3>1, <3>3, <3>4
  <2>2. CASE UNCHANGED docker
    BY <2>2 DEF PortInv, Alive
  <2>. QED
    BY <2>1, <2>2 DEF PortPublished, McpReady, McpOpened, EntryFails, Disconnect
<1>. QED
  BY <1>2, <1>3, <1>5, <1>6, <1>7

(* A container that goes takes its venvs, locks and calls along. *)
LEMMA GoneFacts ==
  ASSUME SandboxInv, NEW c \in Containers, NEW state \in {"dead", "removed"}, Gone(c, state)
  PROVE  /\ docker' \in [Containers -> [state : {"none", "created", "alive", "dead", "removed"},
                                        session : Sandboxes \cup {None}, port : Ports \cup {None}]]
         /\ venv' \in [Containers -> [Agents -> {"absent", "partial", "ready"}]]
         /\ installed' \in [Containers -> [Agents -> AllowedSpecs \cup {None}]]
         /\ lock' \in [Containers -> [Agents -> Executions \cup {None}]]
         /\ pc' \in [Executions -> {"idle", "sent"} \cup UnderWay \cup Settled]
         /\ request' \in [Executions -> Call \cup {None}]
         /\ docker'[c].state = state
         /\ \A d \in Containers \ {c} :
               /\ docker'[d] = docker[d] /\ lock'[d] = lock[d]
               /\ installed'[d] = installed[d]
         /\ PortInv' /\ CallInv' /\ LockInv' /\ DepsInv'
<1> USE DEF SandboxInv
<1>1. /\ docker' \in [Containers -> [state : {"none", "created", "alive", "dead", "removed"},
                                     session : Sandboxes \cup {None}, port : Ports \cup {None}]]
      /\ docker'[c].state = state
      /\ \A d \in Containers \ {c} : docker'[d] = docker[d]
  BY ZenonT(40) DEF Gone, SandboxTypeOK
<1>2. /\ venv' \in [Containers -> [Agents -> {"absent", "partial", "ready"}]]
      /\ installed' \in [Containers -> [Agents -> AllowedSpecs \cup {None}]]
      /\ lock' \in [Containers -> [Agents -> Executions \cup {None}]]
      /\ \A d \in Containers \ {c} : lock'[d] = lock[d] /\ installed'[d] = installed[d]
  BY DEF Gone, SandboxTypeOK
<1>3. \A k \in Executions :
         \/ /\ request[k] # None /\ request[k].at = c
            /\ request'[k] = None
            /\ pc'[k] = IF pc[k] \in UnderWay THEN "failure" ELSE pc[k]
         \/ /\ request[k] = None \/ request[k].at # c
            /\ request'[k] = request[k] /\ pc'[k] = pc[k]
  BY DEF Gone
<1>4. /\ pc' \in [Executions -> {"idle", "sent"} \cup UnderWay \cup Settled]
      /\ request' \in [Executions -> Call \cup {None}]
  <2>1. pc' = [k \in Executions |-> pc'[k]] /\ request' = [k \in Executions |-> request'[k]]
    BY DEF Gone
  <2>. QED
    BY <1>3, <2>1 DEF SandboxTypeOK, Settled
<1>5. c # None
  BY NoneAssumption
<1>6. CallInv'
  BY <1>1, <1>3, <1>4, <1>5 DEF CallInv, SandboxTypeOK, Box, UnderWay, Call
<1>7. ASSUME NEW k \in Executions, pc'[k] \in UnderWay
      PROVE  /\ pc'[k] = pc[k] /\ request'[k] = request[k] /\ request[k] # None
             /\ request[k].at # c /\ request[k].at \in Containers \cup {None}
             /\ request[k].at = None => pc[k] = "running"
  BY <1>3, <1>7 DEF CallInv, SandboxTypeOK, Box, UnderWay, Call
<1>8. LockInv'
  <2> SUFFICES ASSUME NEW k \in Executions, pc'[k] \in {"creating", "installing"}
               PROVE  lock'[request'[k].at][request'[k].agent] = k
    BY DEF LockInv, Box
  <2>. QED
    BY <1>2, <1>7 DEF LockInv, Box, UnderWay
<1>9. DepsInv'
  <2> SUFFICES ASSUME NEW k \in Executions, pc'[k] = "running", request'[k].at # None,
                      request'[k].dep # None, \A l \in Executions \ {k} : ~Disturbs(l, k)'
               PROVE  installed'[request'[k].at][request'[k].agent] = request'[k].dep
    BY DEF DepsInv, Box
  <2>1. /\ pc[k] = "running" /\ request'[k] = request[k]
        /\ request[k].at \in Containers \ {c}
    BY <1>7 DEF UnderWay
  <2>2. \A l \in Executions \ {k} : ~Disturbs(l, k)
    BY <1>3, <2>1 DEF Disturbs, Box
  <2>. QED
    BY <1>2, <2>1, <2>2 DEF DepsInv, Box
<1>10. PortInv'
  BY <1>1 DEF PortInv, Alive
<1>. QED
  BY <1>1, <1>2, <1>4, <1>6, <1>8, <1>9, <1>10

LEMMA RemoveStep ==
  ASSUME SandboxInv, NEW s \in Sandboxes, Remove(s)
  PROVE  SandboxInv'
<1> USE DEF SandboxInv
<1> DEFINE c == container[s]
<1>1. c \in Containers
  BY DEF Remove, SessionInv
<1>2. /\ phase' = [phase EXCEPT ![s] = "out"]
      /\ container' = [container EXCEPT ![s] = None] /\ port' = port
  BY DEF Remove, Leave
<1>3. SessionInv'
  BY <1>2 DEF SessionInv, SandboxTypeOK
<1>4. CASE Gone(c, "removed") /\ UNCHANGED mishap
  <2>1. SandboxTypeOK' /\ PortInv' /\ CallInv' /\ LockInv' /\ DepsInv'
    BY <1>1, <1>2, <1>4, GoneFacts, ZenonT(40) DEF SandboxTypeOK
  <2>2. /\ docker'[c].state = "removed" /\ \A d \in Containers \ {c} : docker'[d] = docker[d]
    BY <1>1, <1>4, GoneFacts
  <2>3. \A t \in Sandboxes \ {s} : container'[t] = container[t] /\ phase'[t] = phase[t]
    BY <1>2 DEF SandboxTypeOK
  <2>4. LeakOnlyOnFailure'
    <3> SUFFICES ASSUME NEW d \in Containers, docker'[d].state \notin {"none", "removed"}, d \notin mishap
                 PROVE  \E t \in Sandboxes : container'[t] = d /\ phase'[t] # "out"
      BY <1>4 DEF LeakOnlyOnFailure
    <3>1. d # c /\ docker'[d] = docker[d]
      BY <2>2
    <3>2. PICK t \in Sandboxes : container[t] = d /\ phase[t] # "out"
      BY <3>1 DEF LeakOnlyOnFailure
    <3>. QED
      BY <2>3, <3>1, <3>2
  <2>. QED
    BY <1>3, <2>1, <2>4
<1>5. CASE mishap' = mishap \cup {c} /\ UNCHANGED <<docker, inside, pc, request>>
  <2>1. SandboxTypeOK'
    BY <1>1, <1>2, <1>5 DEF SandboxTypeOK, inside
  <2>2. PortInv' /\ CallInv' /\ LockInv' /\ DepsInv'
    BY <1>5 DEF PortInv, Alive, CallInv, LockInv, DepsInv, Disturbs, Box, inside
  <2>3. LeakOnlyOnFailure'
    BY <1>1, <1>2, <1>5 DEF LeakOnlyOnFailure, SandboxTypeOK
  <2>. QED
    BY <1>3, <2>1, <2>2, <2>3
<1>. QED
  BY <1>4, <1>5 DEF Remove

LEMMA ContainerDiesStep ==
  ASSUME SandboxInv, NEW c \in Containers, ContainerDies(c)
  PROVE  SandboxInv'
<1> USE DEF SandboxInv
<1>1. UNCHANGED <<phase, container, port, mishap>> /\ Gone(c, "dead") /\ docker[c].state = "alive"
  BY DEF ContainerDies, host, Alive
<1>2. SandboxTypeOK' /\ PortInv' /\ CallInv' /\ LockInv' /\ DepsInv'
  BY <1>1, GoneFacts DEF SandboxTypeOK
<1>3. \A d \in Containers \ {c} : docker'[d] = docker[d]
  BY <1>1, GoneFacts
<1>4. SessionInv' /\ LeakOnlyOnFailure'
  BY <1>1, <1>3 DEF SessionInv, LeakOnlyOnFailure
<1>. QED
  BY <1>2, <1>4

-----------------------------------------------------------------------------
(* A call changes its own state; what it does to a venv it does under the  *)
(* lock.                                                                   *)
LEMMA ExecuteStep ==
  ASSUME SandboxInv, NEW k \in Executions, Execute(k)
  PROVE  SandboxInv'
<1> USE DEF SandboxInv
<1>1. UNCHANGED <<phase, container, port, docker, mishap, venv, installed, lock>> /\ pc[k] = "idle"
  BY DEF Execute, host, inside
<1>2. ASSUME NEW result \in Settled, pc' = [pc EXCEPT ![k] = result], request' = request
      PROVE  SandboxInv'
  <2>1. SandboxTypeOK' /\ SessionInv' /\ PortInv' /\ LeakOnlyOnFailure'
    BY <1>1, <1>2 DEF SandboxTypeOK, SessionInv, PortInv, Alive, LeakOnlyOnFailure
  <2>2. CallInv' /\ LockInv'
    BY <1>1, <1>2 DEF CallInv, LockInv, SandboxTypeOK, Box, UnderWay, Settled
  <2>3. DepsInv'
    BY <1>1, <1>2 DEF DepsInv, Disturbs, SandboxTypeOK, Box, Settled
  <2>. QED
    BY <2>1, <2>2, <2>3
<1>3. ASSUME NEW new \in Call, new.at = None, request' = [request EXCEPT ![k] = new],
             NEW next \in {"sent", "running"}, pc' = [pc EXCEPT ![k] = next],
             next = "sent" => new.sandbox \in Sandboxes /\ new.agent \in Agents
      PROVE  SandboxInv'
  <2>1. new # None /\ request[k] = None
    BY <1>1, NoneAssumption DEF CallInv
  <2>2. SandboxTypeOK' /\ SessionInv' /\ PortInv' /\ LeakOnlyOnFailure'
    BY <1>1, <1>3 DEF SandboxTypeOK, SessionInv, PortInv, Alive, LeakOnlyOnFailure, UnderWay
  <2>3. CallInv' /\ LockInv'
    BY <1>1, <1>3, <2>1 DEF CallInv, LockInv, SandboxTypeOK, Box, UnderWay
  <2>4. DepsInv'
    <3> SUFFICES ASSUME NEW m \in Executions, pc'[m] = "running", request'[m].at # None,
                        request'[m].dep # None, \A l \in Executions \ {m} : ~Disturbs(l, m)'
                 PROVE  installed'[request'[m].at][request'[m].agent] = request'[m].dep
      BY DEF DepsInv, Box
    <3>1. m # k /\ pc[m] = "running" /\ request'[m] = request[m]
      BY <1>3 DEF SandboxTypeOK
    <3>2. \A l \in Executions \ {m} : ~Disturbs(l, m)
      BY <1>3, <2>1, <3>1 DEF Disturbs, Box, SandboxTypeOK
    <3>. QED
      BY <1>1, <3>1, <3>2 DEF DepsInv, Box
  <2>. QED
    BY <2>2, <2>3, <2>4
<1>4. CASE ExecuteDocker(k)
  <2>1. PICK s \in Sandboxes, a \in Agents, code \in Codes, d \in Specs \cup {None} :
           \/ Answer(k, "failure")
           \/ Accept(k, [sandbox |-> s, agent |-> a, code |-> code, dep |-> d, at |-> None], "sent")
    BY <1>4 DEF ExecuteDocker
  <2>2. [sandbox |-> s, agent |-> a, code |-> code, dep |-> d, at |-> None] \in Call
    BY DEF Call
  <2>. QED
    BY <1>2, <1>3, <2>1, <2>2 DEF Answer, Accept, Settle, Settled
<1>5. CASE ExecuteInProcess(k)
  BY <1>2, <1>5 DEF ExecuteInProcess, Answer, Settle, Outcome, Settled
<1>6. CASE ExecuteSubprocess(k)
  <2>1. PICK code \in Codes :
           \/ Answer(k, "raised") \/ Answer(k, "failure")
           \/ Accept(k, [sandbox |-> None, agent |-> None, code |-> code, dep |-> None, at |-> None],
                     "running")
    BY <1>6 DEF ExecuteSubprocess
  <2>2. [sandbox |-> None, agent |-> None, code |-> code, dep |-> None, at |-> None] \in Call
    BY DEF Call
  <2>. QED
    BY <1>2, <1>3, <2>1, <2>2 DEF Answer, Accept, Settle, Settled
<1>. QED
  BY <1>4, <1>5, <1>6 DEF Execute

LEMMA ReceiveStep ==
  ASSUME SandboxInv, NEW k \in Executions, Receive(k)
  PROVE  SandboxInv'
<1> USE DEF SandboxInv
<1>1. /\ UNCHANGED <<phase, container, port, docker, mishap, venv, installed, lock>>
      /\ pc[k] = "sent" /\ request[k] \in Call /\ request[k].at = None
      /\ request[k].sandbox \in Sandboxes /\ request[k].agent \in Agents
  BY DEF Receive, host, inside, CallInv, SandboxTypeOK
<1>2. SessionInv' /\ PortInv' /\ LeakOnlyOnFailure'
  BY <1>1 DEF SessionInv, PortInv, Alive, LeakOnlyOnFailure
<1>3. ASSUME pc' = [pc EXCEPT ![k] = "failure"], request' = [request EXCEPT ![k] = None]
      PROVE  SandboxInv'
  <2>1. SandboxTypeOK'
    BY <1>1, <1>3 DEF SandboxTypeOK, Settled
  <2>2. CallInv' /\ LockInv'
    BY <1>1, <1>3 DEF CallInv, LockInv, SandboxTypeOK, Box, UnderWay
  <2>3. DepsInv'
    BY <1>1, <1>3 DEF DepsInv, CallInv, Disturbs, SandboxTypeOK, Box, UnderWay
  <2>. QED
    BY <1>2, <2>1, <2>2, <2>3
<1>4. ASSUME NEW c \in Containers, docker[c].state = "alive", docker[c].session = request[k].sandbox,
             pc' = [pc EXCEPT ![k] = "waiting"], request' = [request EXCEPT ![k].at = c]
      PROVE  SandboxInv'
  <2>1. /\ request'[k] = [request[k] EXCEPT !.at = c] /\ request'[k] \in Call
        /\ c # None /\ request'[k] # None
        /\ \A l \in Executions \ {k} : request'[l] = request[l] /\ pc'[l] = pc[l]
        /\ pc'[k] = "waiting" /\ request' = [l \in Executions |-> request'[l]]
    <3>1. [request[k] EXCEPT !.at = c] \in Call
      BY <1>1 DEF Call
    <3>. QED
      BY <1>1, <1>4, <3>1, NoneAssumption DEF SandboxTypeOK
  <2>2. /\ request'[k].agent = request[k].agent /\ request'[k].sandbox = request[k].sandbox /\ request'[k].at = c
    BY <1>1, <2>1 DEF Call
  <2>3. SandboxTypeOK'
    BY <1>1, <1>4, <2>1 DEF SandboxTypeOK, UnderWay
  <2>4. CallInv' /\ LockInv'
    BY <1>1, <1>4, <2>1, <2>2 DEF CallInv, LockInv, Box, UnderWay
  <2>5. DepsInv'
    <3> SUFFICES ASSUME NEW m \in Executions, pc'[m] = "running", request'[m].at # None,
                        request'[m].dep # None, \A l \in Executions \ {m} : ~Disturbs(l, m)'
                 PROVE  installed'[request'[m].at][request'[m].agent] = request'[m].dep
      BY DEF DepsInv, Box
    <3>1. m # k /\ pc[m] = "running" /\ request'[m] = request[m]
      BY <2>1
    <3>2. \A l \in Executions \ {m} : ~Disturbs(l, m)
      BY <1>1, <2>1, <3>1 DEF Disturbs, Box
    <3>. QED
      BY <1>1, <3>1, <3>2 DEF DepsInv, Box
  <2>. QED
    BY <1>2, <2>3, <2>4, <2>5
<1>5. \A c \in Containers, late \in BOOLEAN :
         Authorized(Decode(Mint(request[k].sandbox), late), c) => docker[c].session = request[k].sandbox
  BY DEF Authorized, Decode, Mint
<1>6. PICK late \in BOOLEAN :
         \/ \E c, d \in Containers :
               /\ Alive(c) /\ Alive(d) /\ docker[c].port = docker[d].port
               /\ docker[d].session = request[k].sandbox
               /\ Settle(k, "waiting") /\ request' = [request EXCEPT ![k].at = c]
         \/ Settle(k, "failure") /\ request' = [request EXCEPT ![k] = None]
  BY <1>5 DEF Receive
<1>. QED
  BY <1>3, <1>4, <1>6 DEF Settle, PortInv, Alive

(* What working on a venv, by its only user, leaves intact. *)
LEMMA VenvStep ==
  ASSUME SandboxInv, NEW k \in Executions, pc[k] \in {"waiting", "creating", "installing"},
         lock[Box(k)][request[k].agent] \in {None, k},
         NEW next \in {"creating", "installing", "running", "failure"},
         NEW holder \in {None, k}, next \in {"creating", "installing"} => holder = k,
         next = "installing" => request[k].dep \in AllowedSpecs,
         pc' = [pc EXCEPT ![k] = next],
         lock' = [lock EXCEPT ![Box(k)][request[k].agent] = holder],
         UNCHANGED <<host, docker, mishap, request>>
  PROVE  /\ Box(k) \in Containers /\ request[k].agent \in Agents
         /\ pc' \in [Executions -> {"idle", "sent"} \cup UnderWay \cup Settled]
         /\ lock' \in [Containers -> [Agents -> Executions \cup {None}]]
         /\ SessionInv' /\ PortInv' /\ CallInv' /\ LockInv' /\ LeakOnlyOnFailure'
<1> USE DEF SandboxInv, host
<1>1. /\ Box(k) \in Containers /\ request[k].agent \in Agents
  BY DEF CallInv, SandboxTypeOK, Box, Call, UnderWay
<1>2. /\ pc' \in [Executions -> {"idle", "sent"} \cup UnderWay \cup Settled]
      /\ lock' \in [Containers -> [Agents -> Executions \cup {None}]]
  BY <1>1 DEF SandboxTypeOK, UnderWay, Settled
<1>3. SessionInv' /\ PortInv' /\ LeakOnlyOnFailure'
  BY DEF SessionInv, PortInv, Alive, LeakOnlyOnFailure
<1>4. CallInv'
  BY <1>1, NoneAssumption DEF CallInv, SandboxTypeOK, Box, UnderWay
<1>5. LockInv'
  <2> SUFFICES ASSUME NEW l \in Executions, pc'[l] \in {"creating", "installing"}
               PROVE  lock'[request[l].at][request[l].agent] = l
    BY DEF LockInv, Box
  <2>1. CASE l = k
    BY <1>1, <2>1 DEF SandboxTypeOK, Box
  <2>2. CASE l # k
    <3>1. lock[request[l].at][request[l].agent] = l /\ request[l].at \in Containers /\ request[l].agent \in Agents
      BY <2>2 DEF LockInv, CallInv, SandboxTypeOK, Box, Call, UnderWay
    <3>2. <<request[l].at, request[l].agent>> # <<request[k].at, request[k].agent>>
      BY <2>2, <3>1, NoneAssumption DEF Box
    <3>. QED
      BY <1>1, <3>1, <3>2 DEF SandboxTypeOK, Box
  <2>. QED
    BY <2>1, <2>2
<1>. QED
  BY <1>1, <1>2, <1>3, <1>4, <1>5

(* The three outcomes of Install.                                          *)
LEMMA InstallFacts ==
  ASSUME NEW k \in Executions, Install(k)
  PROVE  \E next \in {"installing", "running", "failure"}, holder \in {None, k} :
            /\ next = "installing" => holder = k /\ request[k].dep \in AllowedSpecs
            /\ next = "running" => request[k].dep = None
            /\ pc' = [pc EXCEPT ![k] = next]
            /\ lock' = [lock EXCEPT ![Box(k)][request[k].agent] = holder]
BY DEF Install, Settle, Lock

(* A call that neither declared anything nor changed what is installed     *)
(* disturbs nobody.                                                        *)
LEMMA DepsUntouched ==
  ASSUME SandboxInv, NEW k \in Executions, NEW next,
         pc' = [pc EXCEPT ![k] = next], next = "running" => request[k].dep = None,
         UNCHANGED <<installed, request>>
  PROVE  DepsInv'
BY DEF SandboxInv, DepsInv, Disturbs, Box, SandboxTypeOK

LEMMA EnsureVenvStep ==
  ASSUME SandboxInv, NEW k \in Executions, EnsureVenv(k)
  PROVE  SandboxInv'
<1>1. PICK next \in {"creating", "installing", "running", "failure"}, holder \in {None, k} :
         /\ next \in {"creating", "installing"} => holder = k
         /\ next = "installing" => request[k].dep \in AllowedSpecs
         /\ next = "running" => request[k].dep = None
         /\ pc' = [pc EXCEPT ![k] = next]
         /\ lock' = [lock EXCEPT ![Box(k)][request[k].agent] = holder]
  BY InstallFacts DEF EnsureVenv, Settle, Lock
<1>2. /\ pc[k] = "waiting" /\ lock[Box(k)][request[k].agent] = None
      /\ UNCHANGED <<host, docker, mishap, venv, installed, request>>
  BY DEF EnsureVenv, LockFree
<1>3. /\ pc' \in [Executions -> {"idle", "sent"} \cup UnderWay \cup Settled]
      /\ lock' \in [Containers -> [Agents -> Executions \cup {None}]]
      /\ SessionInv' /\ PortInv' /\ CallInv' /\ LockInv' /\ LeakOnlyOnFailure'
  BY <1>1, <1>2, VenvStep
<1>4. DepsInv'
  BY <1>1, <1>2, DepsUntouched
<1>5. SandboxTypeOK'
  BY <1>2, <1>3 DEF SandboxInv, SandboxTypeOK, host
<1>. QED
  BY <1>3, <1>4, <1>5 DEF SandboxInv

LEMMA VenvCreatedStep ==
  ASSUME SandboxInv, NEW k \in Executions, VenvCreated(k)
  PROVE  SandboxInv'
<1>1. PICK next \in {"installing", "running", "failure"}, holder \in {None, k} :
         /\ next = "installing" => holder = k /\ request[k].dep \in AllowedSpecs
         /\ next = "running" => request[k].dep = None
         /\ pc' = [pc EXCEPT ![k] = next]
         /\ lock' = [lock EXCEPT ![Box(k)][request[k].agent] = holder]
  BY InstallFacts DEF VenvCreated, Settle, Lock
<1>2. /\ pc[k] = "creating" /\ lock[Box(k)][request[k].agent] = k
      /\ UNCHANGED <<host, docker, mishap, installed, request>>
  BY DEF VenvCreated, SandboxInv, LockInv
<1>3. /\ pc' \in [Executions -> {"idle", "sent"} \cup UnderWay \cup Settled]
      /\ lock' \in [Containers -> [Agents -> Executions \cup {None}]]
      /\ SessionInv' /\ PortInv' /\ CallInv' /\ LockInv' /\ LeakOnlyOnFailure'
      /\ Box(k) \in Containers /\ request[k].agent \in Agents
  BY <1>1, <1>2, VenvStep
<1>4. DepsInv'
  BY <1>1, <1>2, DepsUntouched
<1>5. PICK v \in {"absent", "partial", "ready"} : venv' = [venv EXCEPT ![Box(k)][request[k].agent] = v]
  BY DEF VenvCreated
<1>6. venv' \in [Containers -> [Agents -> {"absent", "partial", "ready"}]]
  BY <1>3, <1>5 DEF SandboxInv, SandboxTypeOK
<1>7. SandboxTypeOK'
  BY <1>2, <1>3, <1>6 DEF SandboxInv, SandboxTypeOK, host
<1>. QED
  BY <1>3, <1>4, <1>7 DEF SandboxInv

LEMMA InstalledStep ==
  ASSUME SandboxInv, NEW k \in Executions, Installed(k)
  PROVE  SandboxInv'
<1> USE DEF SandboxInv
<1>1. /\ pc[k] = "installing" /\ lock[Box(k)][request[k].agent] = k
      /\ lock' = [lock EXCEPT ![Box(k)][request[k].agent] = None]
      /\ UNCHANGED <<host, docker, mishap, venv, request>>
  BY DEF Installed, Lock, LockInv
<1>2. CASE InstallInto(k) /\ Settle(k, "running")
  <2>1. /\ pc' \in [Executions -> {"idle", "sent"} \cup UnderWay \cup Settled]
        /\ lock' \in [Containers -> [Agents -> Executions \cup {None}]]
        /\ SessionInv' /\ PortInv' /\ CallInv' /\ LockInv' /\ LeakOnlyOnFailure'
        /\ Box(k) \in Containers /\ request[k].agent \in Agents
    BY <1>1, <1>2, VenvStep DEF Settle
  <2>2. installed' = [installed EXCEPT ![Box(k)][request[k].agent] = request[k].dep]
    BY <1>2 DEF InstallInto
  <2>3. request[k].dep \in AllowedSpecs
    BY <1>1 DEF CallInv
  <2>4. SandboxTypeOK'
    BY <1>1, <2>1, <2>2, <2>3 DEF SandboxTypeOK, host
  <2>5. DepsInv'
    <3> SUFFICES ASSUME NEW m \in Executions, pc'[m] = "running", request[m].at # None,
                        request[m].dep # None, \A l \in Executions \ {m} : ~Disturbs(l, m)
                 PROVE  installed'[request[m].at][request[m].agent] = request[m].dep
      BY <1>1 DEF DepsInv, Disturbs, Box
    <3>1. CASE m = k
      BY <2>1, <2>2, <3>1 DEF SandboxTypeOK, Box
    <3>2. CASE m # k
      <4>1. pc[m] = "running" /\ installed[request[m].at][request[m].agent] = request[m].dep
        BY <1>2, <3>2 DEF Settle, SandboxTypeOK, DepsInv, Box
      <4>2. <<request[m].at, request[m].agent>> # <<request[k].at, request[k].agent>>
        BY <1>1, <3>2 DEF Disturbs, Box, CallInv, UnderWay
      <4>3. request[m].at \in Containers /\ request[m].agent \in Agents
        BY <4>1 DEF CallInv, SandboxTypeOK, Box, Call, UnderWay
      <4>. QED
        BY <2>1, <2>2, <4>1, <4>2, <4>3 DEF SandboxTypeOK, Box
    <3>. QED
      BY <3>1, <3>2
  <2>. QED
    BY <2>1, <2>4, <2>5
<1>3. CASE Settle(k, "failure") /\ UNCHANGED installed
  <2>1. /\ pc' \in [Executions -> {"idle", "sent"} \cup UnderWay \cup Settled]
        /\ lock' \in [Containers -> [Agents -> Executions \cup {None}]]
        /\ SessionInv' /\ PortInv' /\ CallInv' /\ LockInv' /\ LeakOnlyOnFailure'
    BY <1>1, <1>3, VenvStep DEF Settle
  <2>2. DepsInv'
    BY <1>1, <1>3, DepsUntouched DEF Settle
  <2>3. SandboxTypeOK'
    BY <1>1, <1>3, <2>1 DEF SandboxTypeOK, host
  <2>. QED
    BY <2>1, <2>2, <2>3
<1>. QED
  BY <1>2, <1>3 DEF Installed

(* A process that ends or is killed. *)
LEMMA ProcessStep ==
  ASSUME SandboxInv, NEW k \in Executions, Finish(k) \/ Timeout(k)
  PROVE  SandboxInv'
<1> USE DEF SandboxInv
<1>1. UNCHANGED <<phase, container, port, docker, mishap, venv, installed, lock, request>>
  BY DEF Finish, Timeout, host, inside
<1>2. PICK result \in {"success", "failure"} : pc' = [pc EXCEPT ![k] = result]
  BY DEF Finish, Timeout, Settle, Outcome
<1>3. SandboxTypeOK'
  BY <1>1, <1>2 DEF SandboxTypeOK, Settled
<1>4. CallInv' /\ LockInv'
  BY <1>1, <1>2 DEF CallInv, LockInv, SandboxTypeOK, Box, UnderWay
<1>5. DepsInv'
  BY <1>1, <1>2, DepsUntouched
<1>6. SessionInv' /\ PortInv' /\ LeakOnlyOnFailure'
  BY <1>1 DEF SessionInv, PortInv, Alive, LeakOnlyOnFailure
<1>. QED
  BY <1>3, <1>4, <1>5, <1>6

-----------------------------------------------------------------------------
LEMMA NextSandboxInv == SandboxInv /\ [SandboxNext]_sandboxVars => SandboxInv'
<1> SUFFICES ASSUME SandboxInv, [SandboxNext]_sandboxVars PROVE SandboxInv'
  OBVIOUS
<1>1. ASSUME NEW s \in Sandboxes,
             \/ Enter(s) \/ PortPublished(s) \/ McpReady(s) \/ McpOpened(s) \/ EntryFails(s)
             \/ Disconnect(s) \/ Remove(s)
      PROVE  SandboxInv'
  BY <1>1, SessionSteps, RemoveStep
<1>2. ASSUME NEW c \in Containers, ContainerDies(c) PROVE SandboxInv'
  BY <1>2, ContainerDiesStep
<1>3. ASSUME NEW k \in Executions, Execute(k) \/ Serve(k) PROVE SandboxInv'
  BY <1>3, ExecuteStep, ReceiveStep, EnsureVenvStep, VenvCreatedStep, InstalledStep, ProcessStep
     DEF Serve
<1>4. CASE UNCHANGED sandboxVars
  BY <1>4 DEF sandboxVars, host, inside, SandboxInv, SandboxTypeOK, SessionInv, PortInv, Alive, CallInv, LockInv,
     DepsInv, Disturbs, Box, LeakOnlyOnFailure
<1>. QED
  BY <1>1, <1>2, <1>3, <1>4 DEF SandboxNext

LEMMA AlwaysSandboxInv == SandboxSpec => []SandboxInv
  BY InitSandboxInv, NextSandboxInv, PTL DEF SandboxSpec

(* Nothing leaves its type, and code runs in the container of the session  *)
(* that sent it, though requests go to a port that may have changed hands: *)
(* the token tells, as two running containers never share a port.          *)
THEOREM CodeRunsInItsSession == SandboxSpec => []SandboxesConsistent
<1>1. SandboxInv => SandboxesConsistent
  BY DEF SandboxInv, SandboxesConsistent, OwnSession, CallInv
<1>. QED
  BY <1>1, AlwaysSandboxInv, PTL

(* A container outlives its session only when its entry failed, its exit   *)
(* was cancelled or Docker refused to remove it.                           *)
THEOREM ContainersAreRemoved == SandboxSpec => []LeakOnlyOnFailure
<1>1. SandboxInv => LeakOnlyOnFailure
  BY DEF SandboxInv
<1>. QED
  BY <1>1, AlwaysSandboxInv, PTL

(* At most one uv command works on the venv of an agent, however many calls*)
(* the container serves.                                                   *)
THEOREM SetupExcludes == SandboxSpec => []SetupIsExclusive
<1>1. SandboxInv => SetupIsExclusive
  BY DEF SandboxInv, LockInv, SetupIsExclusive
<1>. QED
  BY <1>1, AlwaysSandboxInv, PTL

(* Code finds the version it declared, unless its agent made another call. *)
THEOREM DepsStay == SandboxSpec => []DepsUndisturbed
<1>1. SandboxInv => DepsUndisturbed
  BY DEF SandboxInv, DepsInv, Disturbs, DepsUndisturbed
<1>. QED
  BY <1>1, AlwaysSandboxInv, PTL
=============================================================================
