--------------------------- MODULE HealingProofs ---------------------------
(***************************************************************************)
(* Proofs about orqest/healing: the stall and loop watchdogs of module     *)
(* Healing, for every set of flows, every assignment of arguments to tools *)
(* and every threshold and window; and the fallback chain of module        *)
(* FallbackModel, for every chain length and every set of callers.         *)
(***************************************************************************)
EXTENDS Healing, FallbackModel, TLAPS, FiniteSetTheorems, SequenceTheorems, WellFoundedInduction

-----------------------------------------------------------------------------
(* The inductive invariant of the watchdogs.                               *)

Active(f) == flow[f].pc \in {"running", "skipped", "retrying"}
Undisturbed == ~CanCancel /\ ~CanRetry

(* A call has its timestamp from its tool.before to its end, for itself. *)
FlowInv ==
    \A f \in Flows :
        /\ flow[f].pc # "idle" => flow[f].pair \in Pairs
        /\ Active(f) <=> flow[f].stamp > 0
        /\ flow[f].stamp <= calls
        /\ \A g \in Flows \ {f} : Active(f) => flow[f].stamp # flow[g].stamp

EntryInv ==
    /\ \A e, o \in open : e.stamp = o.stamp => e = o
    /\ \A s \in Stamps : s > calls => reports[s] = 0

Entries(t) == {e \in open : e.tool = t}
EntriesTo(t, s) == {e \in Entries(t) : e.stamp <= s}
RunningTo(t, s) == {f \in Running(t) : flow[f].stamp <= s}

(* A tool has as many entries as calls, and up to any age no more of them: *)
(* whichever call ends, the oldest entry goes.                             *)
MatchInv ==
    /\ \A t \in ToolNames :
          /\ IsFiniteSet(Entries(t)) /\ IsFiniteSet(Running(t))
          /\ Cardinality(Entries(t)) = Cardinality(Running(t))
          /\ \A s \in Stamps : Cardinality(EntriesTo(t, s)) <= Cardinality(RunningTo(t, s))
    /\ ~falseStall

(* The entry of a call that no other call of its tool overlapped is its own, *)
(* and it is reported once it has fired.                                     *)
OwnEntry(f, t, s) ==
    /\ Running(t) = {f}
    /\ Entries(t) = {[tool |-> t, stamp |-> s]}
    /\ reports[s] <= 1
    /\ s \in fired <=> reports[s] = 1

AloneInv ==
    \A f \in Flows :
        Active(f) /\ flow[f].alone => OwnEntry(f, ToolOf[flow[f].pair], flow[f].stamp)

(* The window ends with the streak, and once that is too long its pair is  *)
(* the one that fired last, with a decision made or due.                   *)
LoopInv ==
    /\ poll = "off"
    /\ streak > 0 => window # <<>>
    /\ streak <= Len(window) \/ Len(window) = W
    /\ \A i \in DOMAIN window : Len(window) - i < streak => window[i] = window[Len(window)]
    /\ lastFired # Nothing =>
          window # <<>> /\ lastFired = window[Len(window)] /\ (answered \/ latest # Nothing)
    /\ W > K /\ streak > K => lastFired # Nothing
    /\ LoopIsBroken

IInv ==
    /\ TypeOK /\ FlowInv /\ EntryInv
    /\ Undisturbed => MatchInv /\ AloneInv
    /\ ~Polling => LoopInv

-----------------------------------------------------------------------------
FlowRecords ==
    [pc : {"idle", "asking", "skipping", "running", "skipped", "retrying"},
     pair : Pairs \cup {Nothing}, stamp : 0..MaxCalls,
     decision : {"continue", "abort", "skip"}, alone : BOOLEAN]

LEMMA SettingFacts ==
  ASSUME setting \in Settings
  PROVE  /\ Pairs \in SUBSET DOMAIN ToolOf /\ Nothing \notin Pairs
         /\ K \in Nat \ {0} /\ W \in Nat \ {0} /\ W >= K
         /\ setting.calls \in 0..MaxCalls /\ MaxCalls \in Nat
         /\ Actions \in SUBSET {"abort", "skip"}
<1>1. setting.w >= setting.k /\ setting.pairs \in SUBSET DOMAIN ToolOf /\ setting.k \in Nat \ {0}
      /\ setting.w \in Nat /\ setting.calls \in 0..MaxCalls
      /\ setting.actions \in SUBSET {"abort", "skip"}
  BY SettingsAssumption, WindowAssumption
<1>. QED
  BY <1>1, PairAssumption, MaxCallsAssumption DEF Pairs, K, W, Actions

LEMMA FlowTypes == TypeOK <=>
    /\ setting \in Settings /\ flow \in [Flows -> FlowRecords]
    /\ calls \in 0..MaxCalls /\ horizon \in 0..calls
    /\ open \subseteq [tool : ToolNames, stamp : 1..calls]
    /\ fired \subseteq {e.stamp : e \in open}
    /\ window \in Seq(Pairs) /\ Len(window) <= W
    /\ {latest, lastFired} \subseteq Pairs \cup {Nothing}
    /\ poll \in {"off", "stall", "loop"}
    /\ falseStall \in BOOLEAN
    /\ reports \in [Stamps -> 0..2]
    /\ streak \in 0..(K + 2)
    /\ answered \in BOOLEAN
BY DEF TypeOK, FlowRecords

LEMMA InitInvariant == Init => IInv
<1> SUFFICES ASSUME Init PROVE IInv
  OBVIOUS
<1> USE DEF Init
<1>1. K \in Nat /\ W \in Nat /\ MaxCalls \in Nat
  BY SettingFacts
<1>2. flow \in [Flows -> FlowRecords]
  <2>1. Idle \in FlowRecords
    BY <1>1 DEF Idle, FlowRecords
  <2>. QED
    BY <2>1
<1>3. <<>> \in Seq(Pairs)
  OBVIOUS
<1>4. TypeOK
  <2>1. falseStall \in BOOLEAN /\ answered \in BOOLEAN
    BY Zenon
  <2>2. window \in Seq(Pairs) /\ Len(window) <= W
    BY <1>1, <1>3
  <2>3. calls \in 0..MaxCalls /\ horizon \in 0..calls /\ streak \in 0..(K + 2)
    BY <1>1
  <2>4. reports \in [Stamps -> 0..2] /\ open \subseteq [tool : ToolNames, stamp : 1..calls]
        /\ fired \subseteq {e.stamp : e \in open} /\ poll \in {"off", "stall", "loop"}
        /\ {latest, lastFired} \subseteq Pairs \cup {Nothing} /\ setting \in Settings
    OBVIOUS
  <2>. QED
    BY <1>2, <2>1, <2>2, <2>3, <2>4, FlowTypes, Zenon
<1>5. \A f \in Flows : flow[f].pc = "idle" /\ flow[f].stamp = 0
  BY DEF Idle
<1>6. FlowInv /\ EntryInv
  BY <1>5 DEF FlowInv, EntryInv, Active
<1>7. MatchInv
  <2>1. ASSUME NEW t PROVE Entries(t) = {} /\ Running(t) = {}
    BY <1>5 DEF Entries, Running
  <2>2. ASSUME NEW t, NEW s PROVE EntriesTo(t, s) = {} /\ RunningTo(t, s) = {}
    BY <2>1 DEF EntriesTo, RunningTo
  <2>3. IsFiniteSet({}) /\ Cardinality({}) = 0
    BY FS_EmptySet
  <2>4. ASSUME NEW t, NEW s
        PROVE  /\ IsFiniteSet(Entries(t)) /\ IsFiniteSet(Running(t))
               /\ Cardinality(Entries(t)) = 0 /\ Cardinality(Running(t)) = 0
               /\ Cardinality(EntriesTo(t, s)) = 0 /\ Cardinality(RunningTo(t, s)) = 0
    BY <2>1, <2>2, <2>3
  <2>. QED
    BY <2>4 DEF MatchInv
<1>8. AloneInv
  BY <1>5 DEF AloneInv, Active
<1>9. LoopInv
  BY <1>1 DEF LoopInv, LoopIsBroken
<1>. QED
  BY <1>4, <1>6, <1>7, <1>8, <1>9 DEF IInv

-----------------------------------------------------------------------------
(* Steps that leave the running calls alone.                               *)

Kept == /\ \A t : Running(t)' = Running(t)
        /\ \A f \in Flows : Active(f)' => Active(f) /\ flow'[f] = flow[f]

(* A flow that is in no call moves on to where it is in none. *)
LEMMA FlowMoved ==
  ASSUME IInv, setting' = setting, calls' = calls, NEW f \in Flows, ~Active(f),
         NEW u \in FlowRecords, u.pc \in {"idle", "asking", "skipping"}, u.stamp = 0,
         u.pc # "idle" => u.pair \in Pairs, flow' = [flow EXCEPT ![f] = u]
  PROVE  flow' \in [Flows -> FlowRecords]' /\ FlowInv' /\ Kept
<1> USE DEF IInv
<1>1. flow \in [Flows -> FlowRecords] /\ calls \in Nat
  BY FlowTypes, SettingFacts
<1>2. Pairs' = Pairs /\ FlowRecords' = FlowRecords
  BY DEF Pairs, FlowRecords
<1>3. flow' \in [Flows -> FlowRecords]
  BY <1>1
<1>4. flow'[f] = u /\ \A g \in Flows \ {f} : flow'[g] = flow[g]
  BY <1>1
<1>5. ~Active(f)' /\ \A g \in Flows \ {f} : Active(g)' = Active(g)
  BY <1>4 DEF Active
<1>6. FlowInv'
  <2> SUFFICES ASSUME NEW h \in Flows
               PROVE  /\ flow'[h].pc # "idle" => flow'[h].pair \in Pairs
                      /\ Active(h)' <=> flow'[h].stamp > 0
                      /\ flow'[h].stamp <= calls
                      /\ \A g \in Flows \ {h} : Active(h)' => flow'[h].stamp # flow'[g].stamp
    BY <1>2 DEF FlowInv
  <2>1. CASE h = f
    BY <1>1, <1>4, <1>5, <2>1
  <2>2. CASE h # f
    <3>1. flow'[h] = flow[h] /\ Active(h)' = Active(h)
      BY <1>4, <1>5, <2>2
    <3>2. Active(h) => flow[h].stamp > 0
      BY DEF FlowInv
    <3>3. ASSUME NEW g \in Flows \ {h}, Active(h) PROVE flow'[h].stamp # flow'[g].stamp
      <4>1. CASE g = f
        BY <1>4, <3>1, <3>2, <3>3, <4>1
      <4>2. CASE g # f
        BY <1>4, <3>1, <3>3, <4>2 DEF FlowInv
      <4>. QED
        BY <4>1, <4>2
    <3>. QED
      BY <3>1, <3>3 DEF FlowInv
  <2>. QED
    BY <2>1, <2>2
<1>7. Kept
  <2>1. ASSUME NEW t PROVE Running(t)' = Running(t)
    <3>1. \A g \in Flows : g \in Running(t)' <=> g \in Running(t)
      BY <1>4, <1>5 DEF Running, Active
    <3>2. Running(t)' \subseteq Flows /\ Running(t) \subseteq Flows
      BY DEF Running
    <3>. QED
      BY <3>1, <3>2
  <2>2. \A g \in Flows : Active(g)' => Active(g) /\ flow'[g] = flow[g]
    BY <1>4, <1>5
  <2>. QED
    BY <2>1, <2>2 DEF Kept
<1>. QED
  BY <1>2, <1>3, <1>6, <1>7

(* An overdue entry has a call that old: a detection is about one. *)
LEMMA CallBehind ==
  ASSUME TypeOK, MatchInv, NEW e \in open
  PROVE  \E f \in Running(e.tool) : flow[f].stamp <= e.stamp
<1> DEFINE t == e.tool
           s == e.stamp
<1>1. t \in ToolNames /\ s \in Stamps
  BY MaxCallsAssumption DEF TypeOK, Stamps
<1>2. e \in EntriesTo(t, s)
  <2>1. s <= s
    BY <1>1 DEF Stamps
  <2>. QED
    BY <2>1 DEF EntriesTo, Entries
<1> HIDE DEF t, s
<1>3. /\ IsFiniteSet(Entries(t)) /\ IsFiniteSet(Running(t))
      /\ Cardinality(EntriesTo(t, s)) <= Cardinality(RunningTo(t, s))
  BY <1>1 DEF MatchInv
<1>4. IsFiniteSet(EntriesTo(t, s)) /\ IsFiniteSet(RunningTo(t, s))
  <2>1. EntriesTo(t, s) \in SUBSET Entries(t) /\ RunningTo(t, s) \in SUBSET Running(t)
    BY DEF EntriesTo, RunningTo
  <2>. QED
    BY <1>3, <2>1, FS_Subset
<1>5. Cardinality(EntriesTo(t, s)) # 0 /\ Cardinality(EntriesTo(t, s)) \in Nat
      /\ Cardinality(RunningTo(t, s)) \in Nat
  BY <1>2, <1>4, FS_EmptySet, FS_CardinalityType
<1>6. Cardinality(RunningTo(t, s)) # 0
  BY <1>3, <1>5
<1>7. RunningTo(t, s) # {}
  BY <1>6, FS_EmptySet
<1>. QED
  BY <1>7 DEF RunningTo, t, s

(* Whatever is asked of the stall watchdog, its books stay right. *)
LEMMA StallKept ==
  ASSUME IInv, setting' = setting, calls' = calls, Kept, StallSignals \/ UNCHANGED stallVars
  PROVE  /\ open' = open /\ fired' \subseteq {e.stamp : e \in open}
         /\ falseStall' \in BOOLEAN /\ reports' \in [Stamps -> 0..2]
         /\ EntryInv'
         /\ Undisturbed => MatchInv' /\ AloneInv'
<1> USE DEF IInv
<1>1. open' = open
  BY DEF StallSignals, stallVars
<1>2. ToolNames' = ToolNames /\ Pairs' = Pairs
  BY DEF ToolNames, Pairs
<1>3. ASSUME NEW t, NEW s
      PROVE  /\ Entries(t)' = Entries(t) /\ EntriesTo(t, s)' = EntriesTo(t, s)
             /\ Running(t)' = Running(t) /\ RunningTo(t, s)' = RunningTo(t, s)
  <2>1. Entries(t)' = Entries(t) /\ EntriesTo(t, s)' = EntriesTo(t, s)
    BY <1>1 DEF Entries, EntriesTo
  <2>2. Running(t)' = Running(t)
    BY DEF Kept
  <2>3. \A f \in Running(t) : flow'[f] = flow[f]
    BY <2>2 DEF Kept, Running, Active
  <2>4. RunningTo(t, s)' = RunningTo(t, s)
    BY <2>2, <2>3 DEF RunningTo
  <2>. QED
    BY <2>1, <2>2, <2>4
<1>4. ASSUME ~falseStall' , MatchInv PROVE MatchInv'
  BY <1>2, <1>3, <1>4 DEF MatchInv
<1>5. CASE UNCHANGED stallVars
  <2>1. fired' = fired /\ falseStall' = falseStall /\ reports' = reports
    BY <1>5 DEF stallVars
  <2>2. /\ fired' \subseteq {e.stamp : e \in open}
        /\ reports' \in [Stamps -> 0..2] /\ falseStall' \in BOOLEAN
    BY <2>1 DEF TypeOK
  <2>3. EntryInv'
    BY <1>1, <2>1 DEF EntryInv
  <2>4. ASSUME Undisturbed PROVE MatchInv'
    BY <1>4, <2>1, <2>4 DEF MatchInv
  <2>5. ASSUME Undisturbed PROVE AloneInv'
    <3> SUFFICES ASSUME NEW f \in Flows, Active(f)', flow'[f].alone, NEW t, NEW s,
                        t = ToolOf[flow'[f].pair], s = flow'[f].stamp
                 PROVE  OwnEntry(f, t, s)'
      BY DEF AloneInv, OwnEntry
    <3>1. Active(f) /\ flow'[f] = flow[f]
      BY DEF Kept
    <3>2. OwnEntry(f, t, s)
      BY <2>5, <3>1 DEF AloneInv
    <3>. QED
      BY <1>3, <2>1, <3>2 DEF OwnEntry
  <2>. QED
    BY <1>1, <2>2, <2>3, <2>4, <2>5
<1>6. CASE StallSignals
  <2>1. PICK e \in Overdue :
           /\ fired' = fired \cup {e.stamp}
           /\ falseStall' = (falseStall \/ \A f \in Running(e.tool) : flow[f].stamp > e.stamp)
           /\ reports' = [s \in Stamps |->
                            IF s \in Attributed(e.tool) /\ reports[s] < 2
                            THEN reports[s] + 1 ELSE reports[s]]
    BY <1>6 DEF StallSignals
  <2>2. e \in open /\ e.stamp \notin fired /\ e.stamp \in 1..calls
    BY DEF Overdue, TypeOK
  <2>3. \A f \in Flows : flow[f].stamp \in Nat /\ flow[f].stamp <= calls
    BY FlowTypes DEF FlowInv, FlowRecords
  <2>4. calls \in 0..MaxCalls /\ MaxCalls \in Nat /\ reports \in [Stamps -> 0..2]
        /\ fired \subseteq {o.stamp : o \in open}
    BY MaxCallsAssumption DEF TypeOK
  <2>5. fired' \subseteq {o.stamp : o \in open}
    BY <2>1, <2>2, <2>4
  <2>6. falseStall' \in BOOLEAN
    BY <2>1, Zenon DEF TypeOK
  <2>7. reports' \in [Stamps -> 0..2]
    BY <2>1, <2>4
  <2>8. \A t : Attributed(t) \subseteq {flow[f].stamp : f \in Running(t)}
    BY DEF Attributed
  <2>9. EntryInv'
    <3> SUFFICES ASSUME NEW s \in Stamps, s > calls PROVE reports'[s] = 0
      BY <1>1 DEF EntryInv
    <3>1. s \notin Attributed(e.tool)
      BY <2>3, <2>4, <2>8 DEF Running, Stamps
    <3>. QED
      BY <2>1, <3>1 DEF EntryInv
  <2>10. ASSUME Undisturbed PROVE MatchInv'
    <3>1. PICK f \in Running(e.tool) : flow[f].stamp <= e.stamp
      BY <2>2, <2>10, CallBehind
    <3>2. f \in Flows
      BY DEF Running
    <3>3. ~(\A g \in Running(e.tool) : flow[g].stamp > e.stamp)
      <4>1. e.stamp \in Int /\ flow[f].stamp \in Int
        BY <2>2, <2>3, <3>2
      <4>. QED
        BY <3>1, <4>1
    <3>4. ~falseStall
      BY <2>10 DEF MatchInv
    <3>5. ~falseStall'
      BY <2>1, <3>3, <3>4, Zenon
    <3>. QED
      BY <1>4, <2>10, <3>5
  <2>11. ASSUME Undisturbed PROVE AloneInv'
    <3> SUFFICES ASSUME NEW f \in Flows, Active(f)', flow'[f].alone, NEW t, NEW s,
                        t = ToolOf[flow'[f].pair], s = flow'[f].stamp
                 PROVE  OwnEntry(f, t, s)'
      BY DEF AloneInv, OwnEntry
    <3>1. Active(f) /\ flow'[f] = flow[f] /\ t = ToolOf[flow[f].pair] /\ s = flow[f].stamp
      BY DEF Kept
    <3>2. /\ Running(t) = {f} /\ Entries(t) = {[tool |-> t, stamp |-> s]}
          /\ reports[s] <= 1 /\ (s \in fired <=> reports[s] = 1)
      BY <2>11, <3>1 DEF AloneInv, OwnEntry
    <3>3. s \in Stamps
      BY <2>3, <2>4, <3>1 DEF FlowInv, Stamps
    <3>4. \A g \in Flows \ {f} : flow[g].stamp # s
      BY <3>1 DEF FlowInv
    <3>5. reports[s] \in 0..2
      BY <2>4, <3>3
    <3>6. /\ [tool |-> t, stamp |-> s] \in open
          /\ e.tool = t => e = [tool |-> t, stamp |-> s]
      BY <2>2, <3>2 DEF Entries
    <3>7. CASE e.tool = t
      <4>1. e.stamp = s
        BY <3>6, <3>7
      <4>2. reports[s] = 0
        BY <2>2, <3>2, <3>5, <4>1
      <4>3. {flow[g].stamp : g \in Running(t)} = {s}
        BY <3>1, <3>2
      <4>4. s \in Attributed(t)
        <5>1. Attributed(t) = {a \in {s} : \A r \in {s} :
                                  reports[a] < reports[r] \/ (reports[a] = reports[r] /\ a <= r)}
          BY <4>3 DEF Attributed
        <5>2. s <= s
          BY <3>3 DEF Stamps
        <5>. QED
          BY <5>1, <5>2
      <4>5. reports'[s] = 1 /\ s \in fired'
        BY <2>1, <3>3, <3>7, <4>1, <4>2, <4>4
      <4>. QED
        BY <1>3, <3>2, <4>5 DEF OwnEntry
    <3>8. CASE e.tool # t
      <4>1. f \notin Running(e.tool)
        BY <3>1, <3>8 DEF Running
      <4>2. s \notin Attributed(e.tool)
        BY <2>8, <3>4, <4>1 DEF Running
      <4>3. e.stamp # s
        BY <2>2, <3>6, <3>8 DEF EntryInv
      <4>4. reports'[s] = reports[s] /\ (s \in fired' <=> s \in fired)
        BY <2>1, <3>3, <4>2, <4>3
      <4>. QED
        BY <1>3, <3>2, <4>4 DEF OwnEntry
    <3>. QED
      BY <3>7, <3>8
  <2>. QED
    BY <1>1, <2>5, <2>6, <2>7, <2>9, <2>10, <2>11
<1>. QED
  BY <1>5, <1>6

-----------------------------------------------------------------------------
(* The end of a call.                                                      *)

LEMMA Smallest ==
  ASSUME NEW n \in Nat, NEW V \in SUBSET (1..n), V # {}
  PROVE  \E v \in V : \A w \in V : v <= w
<1>1. \A w \in V : w \in Int /\ w <= n /\ w >= 1
  OBVIOUS
<1> DEFINE Below(v) == 1..(v - 1)
           T == {Below(v) : v \in V}
<1>2. T \subseteq FiniteSubsetsOf(1..n) /\ T # {}
  <2>1. ASSUME NEW v \in V
        PROVE  Below(v) \subseteq 1..n /\ IsFiniteSet(Below(v))
    <3>1. v - 1 \in Int /\ n \in Int /\ v <= n
      BY <1>1
    <3>. QED
      BY <3>1, FS_Interval
  <2>. QED
    BY <2>1 DEF FiniteSubsetsOf
<1>3. PICK U \in T : \A Q \in T : <<Q, U>> \notin StrictSubsetOrdering(1..n)
  <2> HIDE DEF T
  <2>. QED
    BY <1>2, FS_StrictSubsetOrderingWellFounded, WFMin
<1>4. PICK v \in V : U = Below(v)
  OBVIOUS
<1>5. ASSUME NEW w \in V, ~(v <= w) PROVE FALSE
  <2>1. Below(w) \subseteq Below(v) /\ w \in Below(v) /\ w \notin Below(w)
    BY <1>1, <1>5
  <2>2. <<Below(w), U>> \in StrictSubsetOrdering(1..n)
    BY <1>4, <2>1 DEF StrictSubsetOrdering
  <2>. QED
    BY <1>3, <2>2
<1>. QED
  BY <1>5

(* Closing an entry keeps the types and the entries apart. *)
LEMMA CloseTypes ==
  ASSUME TypeOK, EntryInv, setting' = setting, calls' = calls, NEW t, Close(t)
  PROVE  /\ open' \subseteq [tool : ToolNames, stamp : 1..calls]
         /\ fired' \subseteq {e.stamp : e \in open'}
         /\ falseStall' \in BOOLEAN /\ reports' \in [Stamps -> 0..2]
         /\ EntryInv'
<1>1. open' = open \ OldestOpen(t) /\ fired' = fired \ {e.stamp : e \in OldestOpen(t)}
      /\ falseStall' = falseStall /\ reports' = reports
  BY DEF Close
<1>2. fired' \subseteq {e.stamp : e \in open'}
  BY <1>1 DEF TypeOK
<1>3. EntryInv'
  BY <1>1 DEF EntryInv
<1>. QED
  BY <1>1, <1>2, <1>3 DEF TypeOK

(* The oldest entry of a tool that has a call. *)
LEMMA OldestFacts ==
  ASSUME TypeOK, EntryInv, MatchInv, NEW t \in ToolNames, Running(t) # {}
  PROVE  \E e \in Entries(t) : /\ OldestOpen(t) = {e}
                               /\ \A o \in Entries(t) : e.stamp <= o.stamp
<1>1. Entries(t) # {}
  BY FS_EmptySet DEF MatchInv
<1> DEFINE V == {e.stamp : e \in Entries(t)}
<1>2. \A e \in open : e.stamp \in 1..MaxCalls /\ e.tool \in ToolNames
  BY MaxCallsAssumption DEF TypeOK
<1>3. V \in SUBSET (1..MaxCalls) /\ V # {}
  BY <1>1, <1>2 DEF Entries
<1>4. PICK v \in V : \A w \in V : v <= w
  <2> HIDE DEF V
  <2>. QED
    BY <1>3, Smallest, MaxCallsAssumption
<1>5. PICK e \in Entries(t) : e.stamp = v
  OBVIOUS
<1>6. \A o \in Entries(t) : e.stamp <= o.stamp
  BY <1>4, <1>5
<1>7. e \in OldestOpen(t)
  BY <1>6 DEF OldestOpen, Entries
<1>8. ASSUME NEW d \in OldestOpen(t) PROVE d = e
  <2>1. d \in Entries(t) /\ d.stamp <= e.stamp
    BY <1>5 DEF OldestOpen, Entries
  <2>2. d.stamp = e.stamp
    <3>1. e.stamp <= d.stamp
      BY <1>6, <2>1
    <3>2. d.stamp \in Int /\ e.stamp \in Int
      BY <1>2, <1>5, <2>1 DEF Entries
    <3>. QED
      BY <2>1, <3>1, <3>2
  <2>. QED
    BY <1>5, <2>1, <2>2 DEF EntryInv, Entries
<1>. QED
  BY <1>6, <1>7, <1>8

(* A flow that stops is in no call any more. *)
LEMMA Ended ==
  ASSUME TypeOK, FlowInv, setting' = setting, calls' = calls, NEW f \in Flows,
         flow' = [flow EXCEPT ![f] = Idle]
  PROVE  /\ flow' \in [Flows -> FlowRecords]' /\ FlowInv'
         /\ flow'[f] = Idle /\ \A g \in Flows \ {f} : flow'[g] = flow[g]
<1>1. flow \in [Flows -> FlowRecords] /\ Idle \in FlowRecords /\ calls \in Nat
  BY FlowTypes, MaxCallsAssumption DEF Idle, FlowRecords
<1>2. Pairs' = Pairs /\ FlowRecords' = FlowRecords
  BY DEF Pairs, FlowRecords
<1>3. flow' \in [Flows -> FlowRecords]
  BY <1>1
<1>4. flow'[f] = Idle /\ \A g \in Flows \ {f} : flow'[g] = flow[g]
  BY <1>1
<1>5. ~Active(f)' /\ \A g \in Flows \ {f} : Active(g)' = Active(g)
  BY <1>4 DEF Active, Idle
<1>6. FlowInv'
  <2> SUFFICES ASSUME NEW h \in Flows
               PROVE  /\ flow'[h].pc # "idle" => flow'[h].pair \in Pairs
                      /\ Active(h)' <=> flow'[h].stamp > 0
                      /\ flow'[h].stamp <= calls
                      /\ \A g \in Flows \ {h} : Active(h)' => flow'[h].stamp # flow'[g].stamp
    BY <1>2 DEF FlowInv
  <2>1. CASE h = f
    BY <1>1, <1>4, <1>5, <2>1 DEF Idle
  <2>2. CASE h # f
    <3>1. flow'[h] = flow[h] /\ Active(h)' = Active(h)
      BY <1>4, <1>5, <2>2
    <3>2. Active(h) => flow[h].stamp > 0
      BY DEF FlowInv
    <3>3. ASSUME NEW g \in Flows \ {h}, Active(h) PROVE flow'[h].stamp # flow'[g].stamp
      <4>1. CASE g = f
        BY <1>4, <3>1, <3>2, <3>3, <4>1 DEF Idle
      <4>2. CASE g # f
        BY <1>4, <3>1, <3>3, <4>2 DEF FlowInv
      <4>. QED
        BY <4>1, <4>2
    <3>. QED
      BY <3>1, <3>3 DEF FlowInv
  <2>. QED
    BY <2>1, <2>2
<1>. QED
  BY <1>2, <1>3, <1>4, <1>6

LEMMA FinishStep ==
  ASSUME IInv, setting' = setting, NEW f \in Flows, Finish(f)
  PROVE  IInv'
<1> USE DEF IInv
<1> SUFFICES ASSUME NEW t, t = ToolOf[flow[f].pair] PROVE IInv'
  OBVIOUS
<1>1. /\ Active(f) /\ Close(t) /\ flow' = [flow EXCEPT ![f] = Idle]
      /\ calls' = calls /\ horizon' = horizon /\ poll' = poll /\ UNCHANGED loopVars
  BY DEF Finish, Active
<1>2. flow' \in [Flows -> FlowRecords]' /\ flow'[f] = Idle /\ \A g \in Flows \ {f} : flow'[g] = flow[g]
  BY <1>1, Ended
<1>3. /\ Pairs' = Pairs /\ FlowRecords' = FlowRecords /\ ToolNames' = ToolNames
      /\ Polling' = Polling /\ K' = K /\ W' = W /\ Undisturbed' = Undisturbed
  BY DEF Pairs, FlowRecords, ToolNames, Polling, K, W, Undisturbed, CanCancel, CanRetry
<1>4. ~Active(f)' /\ \A g \in Flows \ {f} : Active(g)' = Active(g)
  BY <1>2 DEF Active, Idle
<1>5. TypeOK'
  <2>1. flow' \in [Flows -> FlowRecords]
    BY <1>2, <1>3
  <2>2. /\ open' \subseteq [tool : ToolNames, stamp : 1..calls]
        /\ fired' \subseteq {e.stamp : e \in open'}
        /\ falseStall' \in BOOLEAN /\ reports' \in [Stamps -> 0..2]
    BY <1>1, CloseTypes
  <2>3. UNCHANGED <<window, latest, lastFired, streak, answered>>
    BY <1>1 DEF loopVars
  <2>4. /\ window' \in Seq(Pairs) /\ Len(window') <= W
        /\ {latest', lastFired'} \subseteq Pairs \cup {Nothing}
        /\ streak' \in 0..(K + 2) /\ answered' \in BOOLEAN /\ poll' \in {"off", "stall", "loop"}
        /\ setting' \in Settings /\ calls' \in 0..MaxCalls /\ horizon' \in 0..calls'
    BY <1>1, <2>3 DEF TypeOK
  <2>. QED
    BY <1>1, <1>3, <2>1, <2>2, <2>4, Zenon DEF TypeOK, FlowRecords
<1>6. EntryInv'
  BY <1>1, CloseTypes
<1>7. FlowInv'
  BY <1>1, Ended
<1>8. ASSUME ~Polling PROVE LoopInv'
  BY <1>1, <1>3, <1>8 DEF LoopInv, LoopIsBroken, loopVars
<1>9. t \in ToolNames
  BY <1>1 DEF FlowInv, ToolNames, Active
<1>10. f \in Running(t)
  BY <1>1 DEF Running, Active
<1>11. ASSUME NEW u PROVE Running(u)' = Running(u) \ {f}
  <2>1. \A g \in Flows : g \in Running(u)' <=> g \in Running(u) /\ g # f
    BY <1>2, <1>4 DEF Running, Active
  <2>2. Running(u)' \subseteq Flows /\ Running(u) \subseteq Flows
    BY DEF Running
  <2>. QED
    BY <2>1, <2>2
<1>12. ASSUME NEW u, NEW s PROVE RunningTo(u, s)' = RunningTo(u, s) \ {f}
  <2>1. \A g \in Running(u) \ {f} : flow'[g] = flow[g]
    BY <1>2 DEF Running
  <2>. QED
    BY <1>11, <2>1 DEF RunningTo
<1>13. ASSUME NEW u, u # t PROVE f \notin Running(u)
  BY <1>13 DEF Running
<1>14. ASSUME NEW u, NEW s, u # t
       PROVE  Entries(u)' = Entries(u) /\ EntriesTo(u, s)' = EntriesTo(u, s)
  <2>1. Entries(u)' = Entries(u)
    BY <1>1, <1>14 DEF Close, OldestOpen, Entries
  <2>. QED
    BY <2>1 DEF EntriesTo
<1>15. ASSUME Undisturbed PROVE MatchInv'
  <2>1. PICK e \in Entries(t) : /\ OldestOpen(t) = {e}
                                /\ \A o \in Entries(t) : e.stamp <= o.stamp
    BY <1>9, <1>10, <1>15, OldestFacts
  <2>2. Entries(t)' = Entries(t) \ {e}
    BY <1>1, <2>1 DEF Close, Entries
  <2>3. ASSUME NEW s PROVE EntriesTo(t, s)' = EntriesTo(t, s) \ {e}
    BY <2>2 DEF EntriesTo
  <2>4. /\ IsFiniteSet(Entries(t)) /\ IsFiniteSet(Running(t))
        /\ Cardinality(Entries(t)) = Cardinality(Running(t))
        /\ \A s \in Stamps : Cardinality(EntriesTo(t, s)) <= Cardinality(RunningTo(t, s))
    BY <1>9, <1>15 DEF MatchInv
  <2>5. /\ IsFiniteSet(Entries(t)') /\ IsFiniteSet(Running(t)')
        /\ Cardinality(Entries(t)') = Cardinality(Running(t)')
    <3>1. /\ IsFiniteSet(Entries(t) \ {e}) /\ Cardinality(Entries(t) \ {e}) = Cardinality(Entries(t)) - 1
      BY <2>1, <2>4, FS_RemoveElement
    <3>2. /\ IsFiniteSet(Running(t) \ {f}) /\ Cardinality(Running(t) \ {f}) = Cardinality(Running(t)) - 1
      BY <1>10, <2>4, FS_RemoveElement
    <3>. QED
      BY <1>11, <2>2, <2>4, <3>1, <3>2
  <2>6. ASSUME NEW s \in Stamps
        PROVE  Cardinality(EntriesTo(t, s)') <= Cardinality(RunningTo(t, s)')
    <3>1. IsFiniteSet(EntriesTo(t, s)) /\ IsFiniteSet(RunningTo(t, s))
      <4>1. EntriesTo(t, s) \in SUBSET Entries(t) /\ RunningTo(t, s) \in SUBSET Running(t)
        BY DEF EntriesTo, RunningTo
      <4>. QED
        BY <2>4, <4>1, FS_Subset
    <3>2. /\ IsFiniteSet(RunningTo(t, s) \ {f}) /\ IsFiniteSet(EntriesTo(t, s) \ {e})
          /\ Cardinality(RunningTo(t, s) \ {f}) >= Cardinality(RunningTo(t, s)) - 1
          /\ Cardinality(RunningTo(t, s)) \in Nat /\ Cardinality(EntriesTo(t, s)) \in Nat
          /\ Cardinality(RunningTo(t, s) \ {f}) \in Nat
          /\ Cardinality(EntriesTo(t, s) \ {e}) =
                IF e \in EntriesTo(t, s) THEN Cardinality(EntriesTo(t, s)) - 1
                ELSE Cardinality(EntriesTo(t, s))
      <4>1. /\ IsFiniteSet(RunningTo(t, s) \ {f}) /\ IsFiniteSet(EntriesTo(t, s) \ {e})
            /\ Cardinality(RunningTo(t, s) \ {f}) =
                  IF f \in RunningTo(t, s) THEN Cardinality(RunningTo(t, s)) - 1
                  ELSE Cardinality(RunningTo(t, s))
            /\ Cardinality(EntriesTo(t, s) \ {e}) =
                  IF e \in EntriesTo(t, s) THEN Cardinality(EntriesTo(t, s)) - 1
                  ELSE Cardinality(EntriesTo(t, s))
        BY <3>1, FS_RemoveElement
      <4>2. /\ Cardinality(RunningTo(t, s)) \in Nat /\ Cardinality(EntriesTo(t, s)) \in Nat
            /\ Cardinality(RunningTo(t, s) \ {f}) \in Nat
        BY <3>1, <4>1, FS_CardinalityType
      <4>. QED
        BY <4>1, <4>2
    <3>3. EntriesTo(t, s)' = EntriesTo(t, s) \ {e} /\ RunningTo(t, s)' = RunningTo(t, s) \ {f}
      BY <1>12, <2>3
    <3>4. CASE e \in EntriesTo(t, s)
      <4>1. Cardinality(EntriesTo(t, s)) - 1 <= Cardinality(RunningTo(t, s)) - 1
        BY <2>4, <3>2
      <4>2. Cardinality(EntriesTo(t, s) \ {e}) <= Cardinality(RunningTo(t, s) \ {f})
        BY <3>2, <3>4, <4>1
      <4>. QED
        BY <3>3, <4>2, Zenon
    <3>5. CASE e \notin EntriesTo(t, s)
      <4>1. EntriesTo(t, s) = {}
        <5>1. SUFFICES ASSUME NEW o \in EntriesTo(t, s) PROVE FALSE
          OBVIOUS
        <5>2. o \in Entries(t) /\ o.stamp <= s /\ e.stamp <= o.stamp /\ ~(e.stamp <= s)
          BY <2>1, <3>5 DEF EntriesTo
        <5>3. o.stamp \in Int /\ e.stamp \in Int /\ s \in Int
          BY <2>1, <5>2, MaxCallsAssumption DEF TypeOK, Entries, Stamps
        <5>. QED
          BY <5>2, <5>3
      <4>2. EntriesTo(t, s)' = {}
        BY <3>3, <4>1
      <4>3. 0 <= Cardinality(RunningTo(t, s) \ {f})
        BY <3>2
      <4>. QED
        BY <3>3, <4>2, <4>3, FS_EmptySet, Zenon
    <3>. QED
      BY <3>4, <3>5
  <2>7. ~falseStall'
    BY <1>1, <1>15 DEF Close, MatchInv
  <2>8. ASSUME NEW u \in ToolNames
        PROVE  /\ IsFiniteSet(Entries(u)') /\ IsFiniteSet(Running(u)')
               /\ Cardinality(Entries(u)') = Cardinality(Running(u)')
               /\ \A s \in Stamps : Cardinality(EntriesTo(u, s)') <= Cardinality(RunningTo(u, s)')
    <3>1. CASE u = t
      BY <2>5, <2>6, <3>1
    <3>2. CASE u # t
      <4>1. Running(u)' = Running(u) /\ \A s : RunningTo(u, s)' = RunningTo(u, s)
        BY <1>11, <1>12, <1>13, <3>2 DEF RunningTo
      <4>. QED
        BY <1>14, <1>15, <3>2, <4>1 DEF MatchInv
    <3>. QED
      BY <3>1, <3>2
  <2>. QED
    BY <1>3, <2>7, <2>8 DEF MatchInv
<1>16. ASSUME Undisturbed PROVE AloneInv'
  <2> SUFFICES ASSUME NEW g \in Flows, Active(g)', flow'[g].alone, NEW u, NEW s,
                      u = ToolOf[flow'[g].pair], s = flow'[g].stamp
               PROVE  OwnEntry(g, u, s)'
    BY DEF AloneInv, OwnEntry
  <2>1. g # f /\ Active(g) /\ flow'[g] = flow[g]
    BY <1>2, <1>4
  <2>2. OwnEntry(g, u, s)
    BY <1>16, <2>1 DEF AloneInv
  <2>3. u # t /\ f \notin Running(u)
    BY <1>10, <2>1, <2>2 DEF OwnEntry
  <2>4. Running(u)' = {g} /\ Entries(u)' = {[tool |-> u, stamp |-> s]}
    BY <1>11, <1>14, <2>2, <2>3 DEF OwnEntry
  <2>5. [tool |-> u, stamp |-> s] \in open
    BY <2>2 DEF OwnEntry, Entries
  <2>6. \A e \in OldestOpen(t) : e.stamp # s
    BY <2>3, <2>5 DEF OldestOpen, EntryInv
  <2>7. reports' = reports /\ (s \in fired' <=> s \in fired)
    BY <1>1, <2>6 DEF Close
  <2>. QED
    BY <2>2, <2>4, <2>7 DEF OwnEntry
<1>. QED
  BY <1>3, <1>5, <1>6, <1>7, <1>8, <1>15, <1>16

-----------------------------------------------------------------------------
(* The beginning of a call.                                                *)

LEMMA SlideFacts ==
  ASSUME TypeOK, NEW p \in Pairs
  PROVE  LET w == Slide(window, p)
         IN  /\ w \in Seq(Pairs) /\ w # <<>>
             /\ Len(window) = W => Len(w) = W
             /\ Len(window) # W => Len(w) = Len(window) + 1
             /\ w[Len(w)] = p
             /\ \A i \in 1..(Len(w) - 1) :
                   w[i] = IF Len(window) = W THEN window[i + 1] ELSE window[i]
<1>1. window \in Seq(Pairs) /\ Len(window) \in Nat /\ W \in Nat \ {0}
  BY SettingFacts, LenProperties DEF TypeOK
<1>2. CASE Len(window) = W
  <2> DEFINE rest == Tail(window)
             w == Append(rest, p)
  <2>1. window # <<>>
    BY <1>1, <1>2
  <2>2. /\ rest \in Seq(Pairs) /\ Len(rest) = Len(window) - 1
        /\ \A i \in 1..Len(rest) : rest[i] = window[i + 1]
    BY <1>1, <2>1, HeadTailProperties
  <2> HIDE DEF rest
  <2>3. /\ w \in Seq(Pairs) /\ w # <<>> /\ Len(w) = Len(rest) + 1
        /\ \A i \in 1..Len(rest) : w[i] = rest[i]
        /\ w[Len(rest) + 1] = p
    BY <2>2, AppendProperties
  <2>4. Slide(window, p) = w
    BY <1>2 DEF Slide, rest
  <2> HIDE DEF w
  <2>5. Len(rest) \in Nat /\ Len(rest) + 1 = W /\ Len(w) = W /\ 1..(Len(w) - 1) = 1..Len(rest)
    BY <1>1, <1>2, <2>2, <2>3
  <2>. QED
    BY <1>2, <2>2, <2>3, <2>4, <2>5
<1>3. CASE Len(window) # W
  <2> DEFINE w == Append(window, p)
  <2>1. /\ w \in Seq(Pairs) /\ w # <<>> /\ Len(w) = Len(window) + 1
        /\ \A i \in 1..Len(window) : w[i] = window[i]
        /\ w[Len(window) + 1] = p
    BY <1>1, AppendProperties
  <2>2. Slide(window, p) = w
    BY <1>3 DEF Slide
  <2> HIDE DEF w
  <2>3. 1..(Len(w) - 1) = 1..Len(window)
    BY <1>1, <2>1
  <2>. QED
    BY <1>3, <2>1, <2>2, <2>3
<1>. QED
  BY <1>2, <1>3

(* A window that ends with more than K calls of one pair counts them. *)
LEMMA OccurrencesFacts ==
  ASSUME NEW M, NEW w \in Seq(M), NEW p, NEW k \in Nat, k < Len(w),
         \A i \in DOMAIN w : Len(w) - i <= k => w[i] = p
  PROVE  Occurrences(w, p) > k
<1> DEFINE n == Len(w)
           found == {i \in DOMAIN w : w[i] = p}
           tail == (n - k)..n
<1>1. n \in Nat /\ DOMAIN w = 1..n
  BY LenProperties
<1>2. tail \in SUBSET found
  BY <1>1
<1>3. IsFiniteSet(found)
  <2>1. IsFiniteSet(1..n) /\ found \in SUBSET (1..n)
    BY <1>1, FS_Interval
  <2> HIDE DEF found
  <2>. QED
    BY <2>1, FS_Subset
<1>4. Cardinality(tail) = k + 1
  <2>1. n - k \in Int /\ n \in Int /\ ~(n - k > n) /\ n - (n - k) + 1 = k + 1
    BY <1>1
  <2> HIDE DEF n
  <2>. QED
    BY <2>1, FS_Interval
<1> HIDE DEF found, tail
<1>5. Cardinality(tail) <= Cardinality(found) /\ Cardinality(found) \in Nat
  BY <1>2, <1>3, FS_Subset, FS_CardinalityType
<1>6. Cardinality(found) > k
  BY <1>4, <1>5
<1>. QED
  BY <1>6 DEF Occurrences, found

LEMMA Observed ==
  ASSUME TypeOK, setting' = setting, poll' = poll, NEW p \in Pairs,
         NEW place \in {"running", "skipped"},
         place = "running" => latest = Nothing, LoopObserves(p, place)
  PROVE  /\ window' \in Seq(Pairs) /\ Len(window') <= W
         /\ {latest', lastFired'} \subseteq Pairs \cup {Nothing}
         /\ streak' \in 0..(K + 2) /\ answered' \in BOOLEAN
         /\ ~Polling /\ LoopInv => LoopInv'
<1> DEFINE n == Len(window)
           m == Len(window')
           same == window # <<>> /\ p = window[n]
           ran == IF same THEN streak ELSE 0
<1>1. /\ window' = Slide(window, p)
      /\ streak' = IF place = "skipped" \/ ran > K + 1 THEN ran ELSE ran + 1
      /\ answered' = (same /\ answered)
  BY DEF LoopObserves, Counted
<1>2. \/ latest' = p /\ lastFired' = p
      \/ /\ ~(Occurrences(window', p) > K /\ p # lastFired)
         /\ latest' = latest /\ lastFired' = IF p = lastFired THEN p ELSE Nothing
  BY SettingFacts DEF LoopObserves, TypeOK
<1>3. /\ window \in Seq(Pairs) /\ n \in Nat /\ n <= W /\ streak \in 0..(K + 2)
      /\ K \in Nat \ {0} /\ W \in Nat \ {0} /\ answered \in BOOLEAN
      /\ {latest, lastFired} \subseteq Pairs \cup {Nothing} /\ Nothing \notin Pairs
  BY SettingFacts, LenProperties DEF TypeOK
<1>4. /\ window' \in Seq(Pairs) /\ window' # <<>> /\ m \in Nat
      /\ n = W => m = W
      /\ n # W => m = n + 1
      /\ window'[m] = p
      /\ \A i \in 1..(m - 1) : window'[i] = IF n = W THEN window[i + 1] ELSE window[i]
      /\ DOMAIN window' = 1..m /\ DOMAIN window = 1..n
  BY <1>1, <1>3, SlideFacts, LenProperties
<1>5. same \in BOOLEAN /\ ran \in 0..(K + 2) /\ ran <= streak /\ (ran > 0 => same)
  BY <1>3
<1>6. streak' \in 0..(K + 2) /\ streak' <= ran + 1
  BY <1>1, <1>3, <1>5
<1>7. answered' \in BOOLEAN
  BY <1>1, Zenon
<1> HIDE DEF n, m
<1>8. m <= W /\ m > 0
  BY <1>3, <1>4
<1>9. K' = K /\ W' = W
  BY DEF K, W
<1>10. ASSUME ~Polling, LoopInv PROVE LoopInv'
  <2>1. /\ streak > 0 => window # <<>>
        /\ streak <= n \/ n = W
        /\ \A i \in 1..n : n - i < streak => window[i] = window[n]
        /\ lastFired # Nothing =>
              window # <<>> /\ lastFired = window[n] /\ (answered \/ latest # Nothing)
        /\ W > K /\ streak > K => lastFired # Nothing
        /\ W > K /\ streak = K + 2 => answered
    BY <1>4, <1>10 DEF LoopInv, LoopIsBroken, n
  <2>2. streak' <= m \/ m = W
    BY <1>3, <1>4, <1>5, <1>6, <2>1
  <2>3. ASSUME NEW i \in 1..m, m - i < streak' PROVE window'[i] = p
    <3>1. CASE i = m
      BY <1>4, <3>1
    <3>2. CASE i # m
      <4>1. i \in 1..(m - 1) /\ m - i >= 1
        BY <1>4, <3>2
      <4>2. ran > 0 /\ m - i <= ran
        BY <1>4, <1>5, <1>6, <2>3, <4>1
      <4>3. same /\ streak = ran
        BY <1>5, <4>2
      <4>4. PICK j \in 1..n : n - j = m - i - 1 /\ window'[i] = window[j]
        <5>1. CASE n = W
          <6>1. i + 1 \in 1..n /\ n - (i + 1) = m - i - 1
            BY <1>3, <1>4, <4>1, <5>1
          <6>. QED
            BY <1>4, <4>1, <5>1, <6>1
        <5>2. CASE n # W
          <6>1. i \in 1..n /\ n - i = m - i - 1
            BY <1>3, <1>4, <4>1, <5>2
          <6>. QED
            BY <1>4, <4>1, <5>2, <6>1
        <5>. QED
          BY <5>1, <5>2
      <4>5. n - j < streak
        BY <1>3, <1>4, <4>1, <4>2, <4>3, <4>4
      <4>. QED
        BY <2>1, <4>3, <4>4, <4>5
    <3>. QED
      BY <3>1, <3>2
  <2>4. lastFired' # Nothing => lastFired' = p /\ (answered' \/ latest' # Nothing)
    <3>1. CASE latest' = p /\ lastFired' = p
      BY <1>3, <3>1
    <3>2. CASE latest' = latest /\ lastFired' = IF p = lastFired THEN p ELSE Nothing
      <4>1. CASE p = lastFired
        <5>1. same /\ (answered \/ latest # Nothing)
          BY <1>3, <2>1, <4>1
        <5>. QED
          BY <1>1, <3>2, <4>1, <5>1
      <4>2. CASE p # lastFired
        BY <3>2, <4>2
      <4>. QED
        BY <4>1, <4>2
    <3>. QED
      BY <1>2, <3>1, <3>2
  <2>5. ASSUME W > K, streak' > K PROVE lastFired' # Nothing
    <3>1. K < m
      BY <1>3, <1>4, <1>6, <2>2, <2>5
    <3>2. \A i \in 1..m : m - i <= K => window'[i] = p
      BY <1>3, <1>4, <1>6, <2>3, <2>5
    <3>3. K \in Nat
      BY <1>3
    <3>4. Occurrences(window', p) > K
      <4> DEFINE w == window'
      <4>1. w \in Seq(Pairs) /\ Len(w) = m /\ DOMAIN w = 1..m
        BY <1>4 DEF m
      <4> HIDE DEF w
      <4>2. \A i \in DOMAIN w : Len(w) - i <= K => w[i] = p
        BY <3>2, <4>1 DEF w
      <4>3. K < Len(w)
        BY <3>1, <4>1
      <4>4. Occurrences(w, p) > K
        BY <3>3, <4>1, <4>2, <4>3, OccurrencesFacts
      <4>. QED
        BY <4>4 DEF w
    <3>. QED
      BY <1>2, <1>3, <3>4
  <2>6. ASSUME W > K, streak' = K + 2 PROVE answered'
    <3>1. ran > K /\ same /\ streak = ran
      BY <1>3, <1>5, <1>6, <2>6
    <3>2. lastFired # Nothing
      BY <2>1, <2>6, <3>1
    <3>3. answered \/ latest # Nothing
      BY <2>1, <3>2
    <3>4. CASE ran = K + 2
      BY <1>1, <2>1, <2>6, <3>1, <3>4
    <3>5. CASE ran # K + 2
      <4>1. place = "running"
        BY <1>1, <1>3, <1>5, <2>6, <3>5
      <4>. QED
        BY <1>1, <3>1, <3>3, <4>1
    <3>. QED
      BY <3>4, <3>5
  <2>7. poll' = "off"
    BY <1>10 DEF LoopInv
  <2>. QED
    BY <1>4, <1>9, <2>2, <2>3, <2>4, <2>5, <2>6, <2>7 DEF LoopInv, LoopIsBroken, m
<1>11. {latest', lastFired'} \subseteq Pairs \cup {Nothing}
  BY <1>2, <1>3
<1>. QED
  BY <1>4, <1>6, <1>7, <1>8, <1>10, <1>11 DEF m

LEMMA PublishStep ==
  ASSUME IInv, setting' = setting, horizon' = horizon, poll' = poll, NEW f \in Flows, ~Active(f),
         NEW p \in Pairs, NEW place \in {"running", "skipped"},
         place = "running" => latest = Nothing, Publish(f, p, place)
  PROVE  IInv'
<1> USE DEF IInv
<1> DEFINE t == ToolOf[p]
<1> SUFFICES ASSUME NEW c, c = calls + 1 PROVE IInv'
  OBVIOUS
<1>1. /\ calls < setting.calls /\ calls' = c /\ LoopObserves(p, place)
      /\ open' = open \cup {[tool |-> t, stamp |-> c]}
      /\ fired' = fired /\ falseStall' = falseStall /\ reports' = reports
  BY DEF Publish
<1>2. flow' = [g \in Flows |->
                    IF g = f THEN [Idle EXCEPT !.pc = place, !.pair = p, !.stamp = c,
                                               !.alone = (Running(t) = {})]
                    ELSE [flow[g] EXCEPT !.alone = @ /\ g \notin Running(t)]]
  BY DEF Publish
<1>3. /\ calls \in Nat /\ c \in 1..MaxCalls /\ c \in Stamps /\ MaxCalls \in Nat
      /\ horizon \in 0..calls /\ flow \in [Flows -> FlowRecords]
  <2>1. setting.calls \in 0..MaxCalls /\ MaxCalls \in Nat /\ calls \in 0..MaxCalls
    BY SettingFacts DEF TypeOK
  <2>2. calls \in Nat /\ calls + 1 \in 1..MaxCalls
    <3>1. calls < setting.calls
      BY <1>1
    <3>. QED
      BY <2>1, <3>1
  <2>3. c = calls + 1
    OBVIOUS
  <2>4. horizon \in 0..calls /\ flow \in [Flows -> FlowRecords]
    BY FlowTypes
  <2>. QED
    BY <2>1, <2>2, <2>3, <2>4 DEF Stamps
<1>4. /\ Pairs' = Pairs /\ FlowRecords' = FlowRecords /\ ToolNames' = ToolNames
      /\ Polling' = Polling /\ K' = K /\ W' = W /\ Undisturbed' = Undisturbed
  BY DEF Pairs, FlowRecords, ToolNames, Polling, K, W, Undisturbed, CanCancel, CanRetry
<1>5. /\ flow'[f].pc = place /\ flow'[f].pair = p /\ flow'[f].stamp = c
      /\ flow'[f].alone = (Running(t) = {}) /\ flow'[f].decision = "continue"
      /\ flow'[f] \in FlowRecords
  <2> DEFINE own == (Running(t) = {})
  <2>1. own \in BOOLEAN
    BY Zenon
  <2>2. flow'[f] = [Idle EXCEPT !.pc = place, !.pair = p, !.stamp = c, !.alone = own]
    BY <1>2
  <2> HIDE DEF own
  <2>3. flow'[f] = [pc |-> place, pair |-> p, stamp |-> c, decision |-> "continue", alone |-> own]
    BY <2>2 DEF Idle
  <2>4. flow'[f].alone = own /\ flow'[f] \in FlowRecords
    BY <1>3, <2>1, <2>3 DEF FlowRecords
  <2>. QED
    BY <2>3, <2>4 DEF own
<1>6. ASSUME NEW g \in Flows \ {f}
      PROVE  /\ flow'[g].pc = flow[g].pc /\ flow'[g].pair = flow[g].pair
             /\ flow'[g].stamp = flow[g].stamp
             /\ flow'[g].alone => flow[g].alone /\ g \notin Running(t)
             /\ flow'[g] \in FlowRecords
  <2> DEFINE own == (flow[g].alone /\ g \notin Running(t))
  <2>1. own \in BOOLEAN
    BY Zenon
  <2>2. flow'[g] = [flow[g] EXCEPT !.alone = own]
    BY <1>2
  <2>3. own => flow[g].alone /\ g \notin Running(t)
    OBVIOUS
  <2>4. flow[g] \in FlowRecords
    BY <1>3
  <2> HIDE DEF own
  <2>5. /\ flow'[g].pc = flow[g].pc /\ flow'[g].pair = flow[g].pair
        /\ flow'[g].stamp = flow[g].stamp /\ flow'[g].alone = own
        /\ flow'[g] \in FlowRecords
    BY <2>1, <2>2, <2>4 DEF FlowRecords
  <2>. QED
    BY <2>3, <2>5
<1>7. Active(f)' /\ \A g \in Flows \ {f} : Active(g)' = Active(g)
  BY <1>5, <1>6 DEF Active
<1>8. t \in ToolNames
  BY DEF ToolNames
<1>9. /\ window' \in Seq(Pairs) /\ Len(window') <= W
      /\ {latest', lastFired'} \subseteq Pairs \cup {Nothing}
      /\ streak' \in 0..(K + 2) /\ answered' \in BOOLEAN
      /\ ~Polling /\ LoopInv => LoopInv'
  BY <1>1, Observed
<1> HIDE DEF t
<1>10. TypeOK'
  <2>1. flow' \in [Flows -> FlowRecords]
    <3>1. \A g \in Flows : flow'[g] \in FlowRecords
      BY <1>5, <1>6
    <3>2. flow' = [g \in Flows |-> flow'[g]]
      BY <1>2
    <3>. QED
      BY <3>1, <3>2
  <2>2. open' \subseteq [tool : ToolNames, stamp : 1..c]
    <3>1. \A e \in open : e \in [tool : ToolNames, stamp : 1..c]
      <4>1. open \subseteq [tool : ToolNames, stamp : 1..calls]
        BY DEF TypeOK
      <4>2. 1..calls \subseteq 1..c
        BY <1>3
      <4>. QED
        BY <4>1, <4>2
    <3>2. [tool |-> t, stamp |-> c] \in [tool : ToolNames, stamp : 1..c]
      BY <1>3, <1>8
    <3>. QED
      BY <1>1, <3>1, <3>2
  <2>3. fired' \subseteq {e.stamp : e \in open'}
    BY <1>1 DEF TypeOK
  <2>4. /\ falseStall' \in BOOLEAN /\ reports' \in [Stamps -> 0..2]
        /\ poll' \in {"off", "stall", "loop"} /\ setting' \in Settings
    BY <1>1 DEF TypeOK
  <2>5. calls' \in 0..MaxCalls /\ horizon' \in 0..calls'
    BY <1>1, <1>3
  <2>. QED
    BY <1>1, <1>4, <1>9, <2>1, <2>2, <2>3, <2>4, <2>5, Zenon DEF TypeOK, FlowRecords
<1>11. \A e \in open : e.stamp \in 1..calls /\ e.stamp # c
  BY <1>3 DEF TypeOK
<1>12. EntryInv'
  <2>1. \A e, o \in open' : e.stamp = o.stamp => e = o
    BY <1>1, <1>11 DEF EntryInv
  <2>2. \A s \in Stamps : s > calls' => reports'[s] = 0
    BY <1>1, <1>3 DEF EntryInv, Stamps
  <2>. QED
    BY <2>1, <2>2 DEF EntryInv
<1>13. \A g \in Flows : flow[g].stamp \in Nat /\ flow[g].stamp <= calls /\ flow[g].stamp # c
  BY <1>3 DEF FlowInv, FlowRecords
<1>14. FlowInv'
  <2> SUFFICES ASSUME NEW h \in Flows
               PROVE  /\ flow'[h].pc # "idle" => flow'[h].pair \in Pairs
                      /\ Active(h)' <=> flow'[h].stamp > 0
                      /\ flow'[h].stamp <= calls'
                      /\ \A g \in Flows \ {h} : Active(h)' => flow'[h].stamp # flow'[g].stamp
    BY <1>1, <1>4 DEF FlowInv
  <2>1. CASE h = f
    <3>1. \A g \in Flows \ {f} : flow'[g].stamp # c
      BY <1>6, <1>13
    <3>. QED
      BY <1>1, <1>3, <1>5, <1>7, <2>1, <3>1
  <2>2. CASE h # f
    <3>1. flow'[h].pc = flow[h].pc /\ flow'[h].pair = flow[h].pair
          /\ flow'[h].stamp = flow[h].stamp /\ Active(h)' = Active(h)
      BY <1>6, <1>7, <2>2
    <3>2. /\ flow[h].pc # "idle" => flow[h].pair \in Pairs
          /\ Active(h) <=> flow[h].stamp > 0
          /\ \A g \in Flows \ {h} : Active(h) => flow[h].stamp # flow[g].stamp
      BY DEF FlowInv
    <3>3. flow'[h].stamp <= calls'
      BY <1>1, <1>3, <1>13, <3>1
    <3>4. ASSUME NEW g \in Flows \ {h}, Active(h) PROVE flow'[h].stamp # flow'[g].stamp
      <4>1. CASE g = f
        BY <1>5, <1>13, <3>1, <4>1
      <4>2. CASE g # f
        BY <1>6, <3>1, <3>2, <3>4, <4>2
      <4>. QED
        BY <4>1, <4>2
    <3>. QED
      BY <3>1, <3>2, <3>3, <3>4
  <2>. QED
    BY <2>1, <2>2
<1>15. ASSUME NEW u
       PROVE  Running(u)' = IF u = t THEN Running(u) \cup {f} ELSE Running(u)
  <2>1. \A g \in Flows \ {f} : g \in Running(u)' <=> g \in Running(u)
    BY <1>6, <1>7 DEF Running
  <2>2. f \notin Running(u) /\ (f \in Running(u)' <=> u = t)
    BY <1>5 DEF Running, Active, t
  <2>3. Running(u)' \subseteq Flows /\ Running(u) \subseteq Flows
    BY DEF Running
  <2>. QED
    BY <2>1, <2>2, <2>3
<1>16. \A u : f \notin Running(u)
  BY DEF Running, Active
<1>17. ASSUME NEW u, NEW s \in Stamps
       PROVE  RunningTo(u, s)' = IF u = t /\ c <= s THEN RunningTo(u, s) \cup {f} ELSE RunningTo(u, s)
  <2>1. \A g \in Running(u) : g \in Flows \ {f} /\ flow'[g].stamp = flow[g].stamp
    BY <1>6, <1>16 DEF Running
  <2>. QED
    BY <1>5, <1>15, <2>1 DEF RunningTo
<1>18. ASSUME NEW u
       PROVE  Entries(u)' = IF u = t THEN Entries(u) \cup {[tool |-> t, stamp |-> c]} ELSE Entries(u)
  BY <1>1 DEF Entries
<1>19. ASSUME NEW u, NEW s \in Stamps
       PROVE  EntriesTo(u, s)' = IF u = t /\ c <= s THEN EntriesTo(u, s) \cup {[tool |-> t, stamp |-> c]}
                                 ELSE EntriesTo(u, s)
  BY <1>18 DEF EntriesTo
<1>20. [tool |-> t, stamp |-> c] \notin open
  BY <1>11
<1>21. ASSUME Undisturbed PROVE MatchInv'
  <2>1. ASSUME NEW u \in ToolNames
        PROVE  /\ IsFiniteSet(Entries(u)') /\ IsFiniteSet(Running(u)')
               /\ Cardinality(Entries(u)') = Cardinality(Running(u)')
               /\ \A s \in Stamps : Cardinality(EntriesTo(u, s)') <= Cardinality(RunningTo(u, s)')
    <3>1. /\ IsFiniteSet(Entries(u)) /\ IsFiniteSet(Running(u))
          /\ Cardinality(Entries(u)) = Cardinality(Running(u))
          /\ \A s \in Stamps : Cardinality(EntriesTo(u, s)) <= Cardinality(RunningTo(u, s))
      BY <1>21 DEF MatchInv
    <3>2. CASE u # t
      <4>1. /\ Entries(u)' = Entries(u) /\ Running(u)' = Running(u)
            /\ \A s \in Stamps : EntriesTo(u, s)' = EntriesTo(u, s) /\ RunningTo(u, s)' = RunningTo(u, s)
        BY <1>15, <1>17, <1>18, <1>19, <3>2
      <4>. QED
        BY <3>1, <4>1
    <3>3. CASE u = t
      <4> DEFINE e == [tool |-> t, stamp |-> c]
      <4>1. e \notin Entries(u) /\ f \notin Running(u)
        BY <1>16, <1>20 DEF Entries
      <4>2. Entries(u)' = Entries(u) \cup {e} /\ Running(u)' = Running(u) \cup {f}
        BY <1>15, <1>18, <3>3
      <4>3. ASSUME NEW s \in Stamps
            PROVE  \/ /\ EntriesTo(u, s)' = EntriesTo(u, s) \cup {e}
                      /\ RunningTo(u, s)' = RunningTo(u, s) \cup {f}
                   \/ EntriesTo(u, s)' = EntriesTo(u, s) /\ RunningTo(u, s)' = RunningTo(u, s)
        BY <1>17, <1>19, <3>3
      <4> HIDE DEF e
      <4>4. /\ IsFiniteSet(Entries(u) \cup {e}) /\ IsFiniteSet(Running(u) \cup {f})
            /\ Cardinality(Entries(u) \cup {e}) = Cardinality(Entries(u)) + 1
            /\ Cardinality(Running(u) \cup {f}) = Cardinality(Running(u)) + 1
        BY <3>1, <4>1, FS_AddElement
      <4>5. ASSUME NEW s \in Stamps
            PROVE  Cardinality(EntriesTo(u, s)') <= Cardinality(RunningTo(u, s)')
        <5>1. EntriesTo(u, s) \in SUBSET Entries(u) /\ RunningTo(u, s) \in SUBSET Running(u)
          BY DEF EntriesTo, RunningTo
        <5>2. IsFiniteSet(EntriesTo(u, s)) /\ IsFiniteSet(RunningTo(u, s))
          BY <3>1, <5>1, FS_Subset
        <5>3. /\ Cardinality(EntriesTo(u, s)) \in Nat /\ Cardinality(RunningTo(u, s)) \in Nat
              /\ Cardinality(EntriesTo(u, s) \cup {e}) = Cardinality(EntriesTo(u, s)) + 1
              /\ Cardinality(RunningTo(u, s) \cup {f}) = Cardinality(RunningTo(u, s)) + 1
          BY <4>1, <5>1, <5>2, FS_AddElement, FS_CardinalityType
        <5>4. /\ Cardinality(EntriesTo(u, s)) <= Cardinality(RunningTo(u, s))
              /\ Cardinality(EntriesTo(u, s) \cup {e}) <= Cardinality(RunningTo(u, s) \cup {f})
          BY <3>1, <5>3
        <5>5. CASE /\ EntriesTo(u, s)' = EntriesTo(u, s) \cup {e}
                   /\ RunningTo(u, s)' = RunningTo(u, s) \cup {f}
          BY <5>4, <5>5, Zenon
        <5>6. CASE EntriesTo(u, s)' = EntriesTo(u, s) /\ RunningTo(u, s)' = RunningTo(u, s)
          BY <5>4, <5>6, Zenon
        <5>. QED
          BY <4>3, <5>5, <5>6
      <4>6. /\ IsFiniteSet(Entries(u)') /\ IsFiniteSet(Running(u)')
            /\ Cardinality(Entries(u)') = Cardinality(Running(u)')
        BY <3>1, <4>2, <4>4, Zenon
      <4>. QED
        BY <4>5, <4>6
    <3>. QED
      BY <3>2, <3>3
  <2>2. ~falseStall'
    BY <1>1, <1>21 DEF MatchInv
  <2>. QED
    BY <1>4, <2>1, <2>2 DEF MatchInv
<1>22. ASSUME Undisturbed PROVE AloneInv'
  <2> SUFFICES ASSUME NEW g \in Flows, Active(g)', flow'[g].alone, NEW u, NEW s,
                      u = ToolOf[flow'[g].pair], s = flow'[g].stamp
               PROVE  OwnEntry(g, u, s)'
    BY DEF AloneInv, OwnEntry
  <2>1. CASE g = f
    <3>1. u = t /\ s = c /\ Running(t) = {}
      BY <1>5, <2>1 DEF t
    <3>2. IsFiniteSet(Entries(t)) /\ Cardinality(Entries(t)) = Cardinality({})
      BY <1>8, <1>22, <3>1 DEF MatchInv
    <3>3. Entries(t) = {}
      BY <3>2, FS_EmptySet
    <3>4. Running(t)' = {f} /\ Entries(t)' = {[tool |-> t, stamp |-> c]}
      BY <1>15, <1>18, <3>1, <3>3
    <3>5. reports'[c] = 0 /\ c \notin fired'
      <4>1. reports[c] = 0
        BY <1>3 DEF EntryInv
      <4>2. c \notin fired
        BY <1>11 DEF TypeOK
      <4>. QED
        BY <1>1, <4>1, <4>2
    <3>. QED
      BY <2>1, <3>1, <3>4, <3>5 DEF OwnEntry
  <2>2. CASE g # f
    <3>1. /\ Active(g) /\ flow[g].alone /\ g \notin Running(t)
          /\ u = ToolOf[flow[g].pair] /\ s = flow[g].stamp
      BY <1>6, <1>7, <2>2
    <3>2. OwnEntry(g, u, s)
      BY <1>22, <3>1 DEF AloneInv
    <3>3. u # t
      BY <3>1, <3>2 DEF OwnEntry
    <3>4. Running(u)' = Running(u) /\ Entries(u)' = Entries(u)
      BY <1>15, <1>18, <3>3
    <3>. QED
      BY <1>1, <3>2, <3>4 DEF OwnEntry
  <2>. QED
    BY <2>1, <2>2
<1>. QED
  BY <1>4, <1>9, <1>10, <1>12, <1>14, <1>21, <1>22

-----------------------------------------------------------------------------
(* The other steps.                                                        *)

LEMMA KeptStep ==
  ASSUME IInv, setting' = setting, calls' = calls, horizon' \in 0..calls,
         flow' \in [Flows -> FlowRecords]', FlowInv', Kept, StallSignals \/ UNCHANGED stallVars,
         poll' \in {"off", "stall", "loop"},
         window' = window, lastFired' = lastFired, streak' = streak,
         \/ latest' = latest /\ answered' = answered
         \/ latest' = Nothing /\ answered' = TRUE
         \/ latest' = Nothing /\ answered' = answered /\ Polling,
         ~Polling => poll' = poll
  PROVE  IInv'
<1> USE DEF IInv
<1>1. /\ Pairs' = Pairs /\ FlowRecords' = FlowRecords /\ ToolNames' = ToolNames
      /\ Polling' = Polling /\ K' = K /\ W' = W /\ Undisturbed' = Undisturbed
  BY DEF Pairs, FlowRecords, ToolNames, Polling, K, W, Undisturbed, CanCancel, CanRetry
<1>2. /\ open' = open /\ fired' \subseteq {e.stamp : e \in open}
      /\ falseStall' \in BOOLEAN /\ reports' \in [Stamps -> 0..2]
      /\ EntryInv'
      /\ Undisturbed => MatchInv' /\ AloneInv'
  BY StallKept
<1>3. TypeOK'
  <2>1. /\ open' \subseteq [tool : ToolNames, stamp : 1..calls']
        /\ fired' \subseteq {e.stamp : e \in open'}
    BY <1>2 DEF TypeOK
  <2>2. {latest', lastFired'} \subseteq Pairs \cup {Nothing} /\ answered' \in BOOLEAN
    BY DEF TypeOK
  <2>3. /\ window' \in Seq(Pairs) /\ Len(window') <= W /\ streak' \in 0..(K + 2)
        /\ setting' \in Settings /\ calls' \in 0..MaxCalls /\ horizon' \in 0..calls'
    BY DEF TypeOK
  <2>. QED
    BY <1>1, <1>2, <2>1, <2>2, <2>3, Zenon DEF TypeOK, FlowRecords
<1>4. ASSUME ~Polling PROVE LoopInv'
  <2>1. LoopInv
    BY <1>4
  <2>2. /\ poll' = "off"
        /\ (latest' = latest /\ answered' = answered) \/ answered'
    BY <1>4, <2>1 DEF LoopInv
  <2>3. LoopIsBroken'
    BY <1>1, <2>1, <2>2 DEF LoopInv, LoopIsBroken
  <2>. QED
    BY <1>1, <2>1, <2>2, <2>3 DEF LoopInv
<1>. QED
  BY <1>1, <1>2, <1>3, <1>4

LEMMA AskStallStep ==
  ASSUME IInv, setting' = setting, NEW f \in Flows, NEW p, AskStall(f, p)
  PROVE  IInv'
<1> USE DEF IInv
<1>1. PICK d \in Actions :
         flow' = [flow EXCEPT ![f] = [Idle EXCEPT !.pc = "asking", !.pair = p, !.decision = d]]
  BY DEF AskStall
<1>0. PICK u : u = [Idle EXCEPT !.pc = "asking", !.pair = p, !.decision = d]
  OBVIOUS
<1>2. /\ p \in Pairs /\ flow[f].pc = "idle" /\ StallSignals
      /\ UNCHANGED <<calls, horizon, poll, window, latest, lastFired, streak, answered>>
  BY DEF AskStall, loopVars
<1>3. u \in {[pc |-> "asking", pair |-> p, stamp |-> 0, decision |-> d, alone |-> TRUE], Idle}
      /\ u.pc = "asking"
  BY <1>0 DEF Idle
<1>4. d \in {"abort", "skip"} /\ MaxCalls \in Nat
  BY SettingFacts DEF TypeOK
<1>5. u \in FlowRecords /\ u.pc = "asking" /\ u.stamp = 0 /\ u.pair = p
  <2>1. u = [pc |-> "asking", pair |-> p, stamp |-> 0, decision |-> d, alone |-> TRUE]
    BY <1>3 DEF Idle
  <2>. QED
    BY <1>2, <1>4, <2>1 DEF FlowRecords
<1>6. ~Active(f) /\ flow' = [flow EXCEPT ![f] = u]
  BY <1>0, <1>1, <1>2 DEF Active
<1>7. flow' \in [Flows -> FlowRecords]' /\ FlowInv' /\ Kept
  BY <1>2, <1>5, <1>6, FlowMoved
<1>8. horizon' \in 0..calls /\ poll' \in {"off", "stall", "loop"}
  BY <1>2 DEF TypeOK
<1>. QED
  BY <1>2, <1>7, <1>8, KeptStep

LEMMA AskLoopStep ==
  ASSUME IInv, setting' = setting, NEW f \in Flows, NEW p, AskLoop(f, p)
  PROVE  IInv'
<1> USE DEF IInv
<1>1. PICK a \in Actions :
         LET d == IF flow[f].decision = "continue" THEN a ELSE flow[f].decision
         IN  flow' = [flow EXCEPT ![f] =
                        IF d = "abort" THEN Idle
                        ELSE [Idle EXCEPT !.pc = "skipping", !.pair = p, !.decision = d]]
  BY DEF AskLoop
<1> DEFINE d == IF flow[f].decision = "continue" THEN a ELSE flow[f].decision
           u == IF d = "abort" THEN Idle
                ELSE [Idle EXCEPT !.pc = "skipping", !.pair = p, !.decision = d]
<1>2. /\ flow[f].pc \in {"idle", "asking"} /\ latest' = Nothing /\ answered' = TRUE
      /\ UNCHANGED stallVars
      /\ UNCHANGED <<calls, horizon, poll, window, lastFired, streak>>
  BY DEF AskLoop, StallSilent
<1>3. p \in Pairs
  BY DEF AskLoop, FlowInv
<1>4. d \in {"abort", "skip"} /\ MaxCalls \in Nat
  <2>1. a \in {"abort", "skip"} /\ MaxCalls \in Nat
    BY SettingFacts DEF TypeOK
  <2>2. flow[f].decision \in {"continue", "abort", "skip"}
    BY DEF TypeOK
  <2>. QED
    BY <2>1, <2>2
<1>5. flow' = [flow EXCEPT ![f] = u]
  BY <1>1
<1> HIDE DEF d
<1>6. u \in {[pc |-> "skipping", pair |-> p, stamp |-> 0, decision |-> d, alone |-> TRUE], Idle}
  BY DEF Idle
<1> HIDE DEF u
<1>7. /\ u \in FlowRecords /\ u.pc \in {"idle", "asking", "skipping"} /\ u.stamp = 0
      /\ u.pc # "idle" => u.pair \in Pairs
  <2>1. CASE u = [pc |-> "skipping", pair |-> p, stamp |-> 0, decision |-> d, alone |-> TRUE]
    BY <1>3, <1>4, <2>1 DEF FlowRecords
  <2>2. CASE u = Idle
    BY <1>4, <2>2 DEF FlowRecords, Idle
  <2>. QED
    BY <1>6, <2>1, <2>2
<1>8. ~Active(f)
  BY <1>2 DEF Active
<1>9. flow' \in [Flows -> FlowRecords]' /\ FlowInv' /\ Kept
  BY <1>2, <1>5, <1>7, <1>8, FlowMoved
<1>10. horizon' \in 0..calls /\ poll' \in {"off", "stall", "loop"}
  BY <1>2 DEF TypeOK
<1>. QED
  BY <1>2, <1>9, <1>10, KeptStep

(* A flow that is in no call stops. *)
LEMMA StoppedStep ==
  ASSUME IInv, setting' = setting, NEW f \in Flows, ~Active(f), flow' = [flow EXCEPT ![f] = Idle],
         UNCHANGED <<calls, horizon, poll, stallVars, loopVars>>
  PROVE  IInv'
<1> USE DEF IInv
<1>1. UNCHANGED <<window, latest, lastFired, streak, answered>>
  BY DEF loopVars
<1>2. Idle \in FlowRecords /\ Idle.pc = "idle" /\ Idle.stamp = 0
  BY SettingFacts DEF TypeOK, Idle, FlowRecords
<1>3. flow' \in [Flows -> FlowRecords]' /\ FlowInv' /\ Kept
  BY <1>2, FlowMoved
<1>4. horizon' \in 0..calls /\ poll' \in {"off", "stall", "loop"}
  BY DEF TypeOK
<1>. QED
  BY <1>1, <1>3, <1>4, KeptStep

(* With cancellations and retries only the types and stamps are claimed. *)
LEMMA DisturbedStep ==
  ASSUME IInv, setting' = setting, NEW f \in Flows, Active(f), Cancel(f) \/ FailAndRetry(f)
  PROVE  IInv'
<1> USE DEF IInv
<1>1. /\ Pairs' = Pairs /\ FlowRecords' = FlowRecords /\ ToolNames' = ToolNames
      /\ Polling' = Polling /\ K' = K /\ W' = W /\ Undisturbed' = Undisturbed
  BY DEF Pairs, FlowRecords, ToolNames, Polling, K, W, Undisturbed, CanCancel, CanRetry
<1>2. ~Undisturbed /\ UNCHANGED <<calls, horizon, poll, window, latest, lastFired, streak, answered>>
  BY DEF Undisturbed, Cancel, FailAndRetry, loopVars
<1>3. /\ open' \subseteq [tool : ToolNames, stamp : 1..calls]
      /\ fired' \subseteq {e.stamp : e \in open'}
      /\ falseStall' \in BOOLEAN /\ reports' \in [Stamps -> 0..2]
      /\ EntryInv'
  <2>1. CASE Cancel(f)
    <3>1. UNCHANGED <<open, fired, falseStall, reports>>
      BY <2>1 DEF Cancel, stallVars
    <3>. QED
      BY <1>2, <3>1 DEF TypeOK, EntryInv
  <2>2. CASE FailAndRetry(f)
    BY <1>2, <2>2, CloseTypes DEF FailAndRetry
  <2>. QED
    BY <2>1, <2>2
<1>4. flow' \in [Flows -> FlowRecords]' /\ FlowInv'
  <2>1. CASE Cancel(f)
    BY <1>2, <2>1, Ended DEF Cancel
  <2>2. CASE FailAndRetry(f)
    <3>1. flow \in [Flows -> FlowRecords] /\ flow' = [flow EXCEPT ![f].pc = "retrying"]
      BY <2>2, FlowTypes DEF FailAndRetry
    <3>2. flow' \in [Flows -> FlowRecords]
      BY <3>1 DEF FlowRecords
    <3>3. ASSUME NEW g \in Flows
          PROVE  /\ flow'[g].stamp = flow[g].stamp /\ flow'[g].pair = flow[g].pair
                 /\ flow'[g].pc = IF g = f THEN "retrying" ELSE flow[g].pc
      BY <3>1 DEF FlowRecords
    <3>4. \A g \in Flows : /\ Active(g)' = Active(g)
                           /\ flow'[g].pc # "idle" => flow[g].pc # "idle"
      BY <3>3 DEF Active
    <3>5. FlowInv'
      BY <1>1, <1>2, <3>3, <3>4 DEF FlowInv
    <3>. QED
      BY <1>1, <3>2, <3>5
  <2>. QED
    BY <2>1, <2>2
<1>5. TypeOK'
  <2>1. /\ window' \in Seq(Pairs) /\ Len(window') <= W
        /\ {latest', lastFired'} \subseteq Pairs \cup {Nothing} /\ answered' \in BOOLEAN
        /\ streak' \in 0..(K + 2) /\ setting' \in Settings /\ calls' \in 0..MaxCalls
        /\ horizon' \in 0..calls' /\ poll' \in {"off", "stall", "loop"}
    BY <1>2 DEF TypeOK
  <2>. QED
    BY <1>1, <1>2, <1>3, <1>4, <2>1, Zenon DEF TypeOK, FlowRecords
<1>6. ASSUME ~Polling PROVE LoopInv'
  BY <1>1, <1>2, <1>6 DEF LoopInv, LoopIsBroken
<1>. QED
  BY <1>1, <1>2, <1>3, <1>4, <1>5, <1>6

(* Time, and the poll task. *)
LEMMA BackgroundStep ==
  ASSUME IInv, setting' = setting, TimePasses \/ Start \/ Stop \/ PollStall \/ PollLoop
  PROVE  IInv'
<1> USE DEF IInv
<1>1. /\ flow' = flow /\ calls' = calls /\ horizon' \in 0..calls
      /\ window' = window /\ lastFired' = lastFired /\ streak' = streak
      /\ poll' \in {"off", "stall", "loop"}
  <2>1. calls \in Nat /\ horizon \in 0..calls
    BY MaxCallsAssumption DEF TypeOK
  <2>2. horizon' \in 0..calls
    BY <2>1 DEF TimePasses, Start, Stop, PollStall, PollLoop
  <2>. QED
    BY <2>2 DEF TimePasses, Start, Stop, PollStall, PollLoop, loopVars, TypeOK
<1>2. StallSignals \/ UNCHANGED stallVars
  BY DEF TimePasses, Start, Stop, PollStall, PollLoop, StallSilent
<1>3. ~Polling => poll' = poll
  BY DEF TimePasses, Start, Stop, PollStall, PollLoop, LoopInv
<1>4. \/ latest' = latest /\ answered' = answered
      \/ latest' = Nothing /\ answered' = answered /\ Polling
  BY DEF TimePasses, Start, Stop, PollStall, PollLoop, LoopInv, loopVars
<1>5. flow' \in [Flows -> FlowRecords]' /\ FlowInv' /\ Kept
  <2>1. Pairs' = Pairs /\ FlowRecords' = FlowRecords
    BY DEF Pairs, FlowRecords
  <2>2. flow \in [Flows -> FlowRecords]
    BY FlowTypes
  <2>3. \A f \in Flows : Active(f)' = Active(f)
    BY <1>1 DEF Active
  <2>4. \A t : Running(t)' = Running(t)
    BY <1>1 DEF Running
  <2>5. FlowInv'
    BY <1>1, <2>1, <2>3 DEF FlowInv
  <2>. QED
    BY <1>1, <2>1, <2>2, <2>3, <2>4, <2>5 DEF Kept
<1>. QED
  BY <1>1, <1>2, <1>3, <1>4, <1>5, KeptStep

LEMMA NextInvariant == IInv /\ [Next]_vars => IInv'
<1> SUFFICES ASSUME IInv, [Next]_vars PROVE IInv'
  OBVIOUS
<1>1. ASSUME UNCHANGED vars PROVE IInv'
  <2>1. /\ setting' = setting /\ flow' = flow /\ calls' = calls /\ horizon' = horizon
        /\ poll' = poll /\ UNCHANGED stallVars
        /\ UNCHANGED <<window, latest, lastFired, streak, answered>>
    BY <1>1 DEF vars, stallVars
  <2>2. flow' \in [Flows -> FlowRecords]' /\ FlowInv' /\ Kept
    <3>1. Pairs' = Pairs /\ FlowRecords' = FlowRecords
      BY <2>1 DEF Pairs, FlowRecords
    <3>2. flow \in [Flows -> FlowRecords] /\ FlowInv
      BY FlowTypes DEF IInv
    <3>3. \A f \in Flows : Active(f)' = Active(f)
      BY <2>1 DEF Active
    <3>4. \A t : Running(t)' = Running(t)
      BY <2>1 DEF Running
    <3>5. FlowInv'
      BY <2>1, <3>1, <3>2, <3>3 DEF FlowInv
    <3>. QED
      BY <2>1, <3>1, <3>2, <3>3, <3>4, <3>5 DEF Kept
  <2>3. horizon' \in 0..calls /\ poll' \in {"off", "stall", "loop"}
    BY <2>1 DEF IInv, TypeOK
  <2>. QED
    BY <2>1, <2>2, <2>3, KeptStep
<1>2. ASSUME Next PROVE IInv'
  <2>1. setting' = setting /\ Steps
    BY <1>2 DEF Next
  <2>2. ASSUME NEW f \in Flows, NEW p \in Pairs, AskStall(f, p) PROVE IInv'
    BY <2>1, <2>2, AskStallStep
  <2>3. ASSUME NEW f \in Flows, NEW p \in Pairs, AskLoop(f, p) PROVE IInv'
    BY <2>1, <2>3, AskLoopStep
  <2>4. ASSUME NEW f \in Flows, NEW p \in Pairs, Begin(f, p) PROVE IInv'
    <3>1. /\ ~Active(f) /\ latest = Nothing /\ Publish(f, p, "running")
          /\ horizon' = horizon /\ poll' = poll
      BY <2>4 DEF Begin, Active
    <3>. QED
      BY <2>1, <3>1, PublishStep
  <2>5. ASSUME NEW f \in Flows, Abort(f) PROVE IInv'
    BY <2>1, <2>5, StoppedStep DEF Abort, Active
  <2>6. ASSUME NEW f \in Flows, BeginSkipped(f) PROVE IInv'
    <3>1. /\ ~Active(f) /\ Publish(f, flow[f].pair, "skipped")
          /\ horizon' = horizon /\ poll' = poll /\ flow[f].pc # "idle"
      BY <2>6 DEF BeginSkipped, Active
    <3>2. flow[f].pair \in Pairs
      BY <3>1 DEF IInv, FlowInv
    <3>. QED
      BY <2>1, <3>1, <3>2, PublishStep
  <2>7. ASSUME NEW f \in Flows, Finish(f) PROVE IInv'
    BY <2>1, <2>7, FinishStep
  <2>8. ASSUME NEW f \in Flows, FailAndRetry(f) PROVE IInv'
    <3>1. Active(f)
      BY <2>8 DEF FailAndRetry, Active
    <3>. QED
      BY <2>1, <2>8, <3>1, DisturbedStep
  <2>9. ASSUME NEW f \in Flows, Cancel(f) PROVE IInv'
    <3>1. CASE Active(f)
      BY <2>1, <2>9, <3>1, DisturbedStep
    <3>2. CASE ~Active(f)
      BY <2>1, <2>9, <3>2, StoppedStep DEF Cancel
    <3>. QED
      BY <3>1, <3>2
  <2>10. ASSUME TimePasses \/ Start \/ Stop \/ PollStall \/ PollLoop PROVE IInv'
    BY <2>1, <2>10, BackgroundStep
  <2>. QED
    BY <2>1, <2>2, <2>3, <2>4, <2>5, <2>6, <2>7, <2>8, <2>9, <2>10 DEF Steps, FlowStep
<1>. QED
  BY <1>1, <1>2

LEMMA Invariance == Spec => []IInv
  BY InitInvariant, NextInvariant, PTL DEF Spec

(* Unless calls are cancelled or retried, each tool has as many open       *)
(* entries as calls, a stall is about a call that old, and a call that no  *)
(* other of its tool overlapped is reported at most once.                  *)
THEOREM WatchdogBooksAreRight == Spec => []BooksAreRight
<1>1. ASSUME IInv PROVE BooksAreRight
  <2>1. ASSUME Undisturbed PROVE EntriesMatchCalls /\ StallIsSound
    BY <1>1, <2>1 DEF IInv, MatchInv, Entries, EntriesMatchCalls, StallIsSound
  <2>2. ASSUME Undisturbed PROVE ReportedOnce
    BY <1>1, <2>2 DEF IInv, FlowInv, AloneInv, OwnEntry, ReportedOnce
  <2>. QED
    BY <1>1, <2>1, <2>2 DEF IInv, BooksAreRight, Undisturbed
<1>. QED
  BY <1>1, Invariance, PTL

(* An overdue call that no other of its tool overlapped is found, and an   *)
(* agent in a loop is answered before it runs another call, when no poll   *)
(* task takes the detection away.                                          *)
THEOREM NothingPassesUnnoticed == Spec => []NothingSlipsThrough
<1>1. ASSUME IInv PROVE NothingSlipsThrough
  <2>1. ASSUME Undisturbed PROVE StallIsFound
    <3> SUFFICES ASSUME NEW f \in Flows, flow[f].pc = "running", flow[f].alone,
                        flow[f].stamp <= horizon, ~(reports[flow[f].stamp] > 0)
                 PROVE  \E e \in Overdue : e.stamp = flow[f].stamp
      BY DEF StallIsFound
    <3> DEFINE e == [tool |-> ToolOf[flow[f].pair], stamp |-> flow[f].stamp]
    <3>1. OwnEntry(f, ToolOf[flow[f].pair], flow[f].stamp)
      BY <1>1, <2>1 DEF IInv, AloneInv, Active
    <3>2. e \in open /\ flow[f].stamp \notin fired
      BY <3>1 DEF OwnEntry, Entries
    <3>3. e \in Overdue /\ e.stamp = flow[f].stamp
      BY <3>2 DEF Overdue
    <3>. QED
      BY <3>3
  <2>. QED
    BY <1>1, <2>1 DEF IInv, LoopInv, NothingSlipsThrough, Undisturbed
<1>. QED
  BY <1>1, Invariance, PTL

-----------------------------------------------------------------------------
(* The inductive invariant of the fallback chain of the same package.      *)

Walking == {"calling", "streaming", "emitting"}

(* A call that is at a model is inside the chain, and what it has tried is *)
(* the interval from where it started; the failed model joins when the     *)
(* failure is caught, before the index moves.                              *)
WalkInv ==
    \A c \in Callers :
        /\ pc[c] \in Walking => cur[c] \in 0..(N - 1) /\ start[c] <= cur[c]
        /\ pc[c] \in {"calling", "streaming"} =>
              tried[c] = start[c]..(cur[c] - 1)
        /\ pc[c] = "emitting" => tried[c] = start[c]..cur[c]
        /\ pc[c] \in {"exhausting", "exhausted"} =>
              tried[c] = start[c]..(N - 1)

(* Every model below a caller's own position has failed: this is what makes *)
(* the index it stores a justified one, however stale it is.                *)
SkipInv ==
    /\ 0..(idx - 1) \subseteq failed
    /\ \A c \in Callers :
          /\ pc[c] \in Walking => 0..(cur[c] - 1) \subseteq failed
          /\ pc[c] = "emitting" => cur[c] \in failed

ChainInv == ChainTypeOK /\ WalkInv /\ SkipInv

LEMMA InitChainInv == ChainInit => ChainInv
<1> SUFFICES ASSUME ChainInit PROVE ChainInv
  OBVIOUS
<1>1. ChainTypeOK
  <2>1. overlapped \in BOOLEAN /\ yielded \in [Callers -> BOOLEAN]
    BY Zenon DEF ChainInit
  <2>2. idx \in 0..N /\ cur \in [Callers -> 0..N] /\ start \in [Callers -> 0..N]
    BY NAssumption DEF ChainInit
  <2>3. /\ pc \in [Callers -> InFlight \cup Finished]
        /\ kind \in [Callers -> {"request", "stream"}]
    BY DEF ChainInit, InFlight, Finished
  <2>4. /\ tried \in [Callers -> SUBSET (0..(N - 1))]
        /\ failed \in SUBSET (0..(N - 1))
    BY DEF ChainInit
  <2>. QED
    BY <2>1, <2>2, <2>3, <2>4 DEF ChainTypeOK
<1>2. WalkInv
  BY DEF ChainInit, WalkInv, Walking
<1>3. SkipInv
  BY DEF ChainInit, SkipInv, Walking
<1>. QED
  BY <1>1, <1>2, <1>3 DEF ChainInv

(* Each action keeps the types, the walks and the justification. *)
LEMMA NextChainInv == ChainInv /\ [ChainNext]_chainVars => ChainInv'
<1> SUFFICES ASSUME ChainInv, [ChainNext]_chainVars PROVE ChainInv'
  OBVIOUS
<1> USE NAssumption DEF ChainInv, InFlight, Finished, Walking
<1>1. ASSUME NEW c \in Callers, NEW k \in {"request", "stream"}, Enter(c, k)
      PROVE  ChainInv'
  <2>1. ChainTypeOK' BY <1>1 DEF ChainTypeOK, Enter, TryFrom
  <2>2. WalkInv' BY <1>1 DEF ChainTypeOK, WalkInv, Enter, TryFrom
  <2>3. SkipInv' BY <1>1 DEF ChainTypeOK, SkipInv, Enter, TryFrom
  <2>. QED BY <2>1, <2>2, <2>3
<1>2. ASSUME NEW c \in Callers, Answer(c) PROVE ChainInv'
  <2>1. ChainTypeOK' BY <1>2 DEF ChainTypeOK, WalkInv, Answer
  <2>2. WalkInv' BY <1>2 DEF ChainTypeOK, WalkInv, Answer
  <2>3. SkipInv' BY <1>2 DEF ChainTypeOK, WalkInv, SkipInv, Answer
  <2>. QED BY <2>1, <2>2, <2>3
<1>3. ASSUME NEW c \in Callers, OpenStream(c) PROVE ChainInv'
  <2>1. ChainTypeOK' BY <1>3 DEF ChainTypeOK, WalkInv, OpenStream
  <2>2. WalkInv' BY <1>3 DEF ChainTypeOK, WalkInv, OpenStream
  <2>3. SkipInv' BY <1>3 DEF ChainTypeOK, WalkInv, SkipInv, OpenStream
  <2>. QED BY <2>1, <2>2, <2>3
<1>4. ASSUME NEW c \in Callers, CloseStream(c) PROVE ChainInv'
  <2>1. ChainTypeOK' BY <1>4 DEF ChainTypeOK, WalkInv, CloseStream
  <2>2. WalkInv' BY <1>4 DEF ChainTypeOK, WalkInv, CloseStream
  <2>3. SkipInv' BY <1>4 DEF ChainTypeOK, WalkInv, SkipInv, CloseStream
  <2>. QED BY <2>1, <2>2, <2>3
<1>5. ASSUME NEW c \in Callers, FailTransient(c) PROVE ChainInv'
  <2>1. ChainTypeOK' BY <1>5 DEF ChainTypeOK, WalkInv, FailTransient
  <2>2. WalkInv' BY <1>5 DEF ChainTypeOK, WalkInv, FailTransient
  <2>3. SkipInv' BY <1>5 DEF ChainTypeOK, WalkInv, SkipInv, FailTransient
  <2>. QED BY <2>1, <2>2, <2>3
<1>6. ASSUME NEW c \in Callers, FailFatal(c) PROVE ChainInv'
  <2>1. ChainTypeOK' BY <1>6 DEF ChainTypeOK, WalkInv, FailFatal
  <2>2. WalkInv' BY <1>6 DEF ChainTypeOK, WalkInv, FailFatal
  <2>3. SkipInv' BY <1>6 DEF ChainTypeOK, WalkInv, SkipInv, FailFatal
  <2>. QED BY <2>1, <2>2, <2>3
<1>7. ASSUME NEW c \in Callers, Advance(c) PROVE ChainInv'
  <2>1. ChainTypeOK' BY <1>7 DEF ChainTypeOK, WalkInv, Advance, TryFrom
  <2>2. WalkInv'
    <3>1. tried[c] = start[c]..cur[c] /\ cur[c] \in 0..(N - 1)
      BY <1>7 DEF WalkInv, Advance
    <3>2. cur'[c] = cur[c] + 1 /\ cur'[c] - 1 = cur[c]
      BY <1>7, <3>1 DEF ChainTypeOK, Advance
    <3>3. pc'[c] = "calling" => cur'[c] < N
      BY <1>7, <3>2 DEF ChainTypeOK, Advance, TryFrom
    <3>4. pc'[c] = "exhausting" => cur[c] = N - 1
      BY <1>7, <3>1, <3>2 DEF ChainTypeOK, Advance, TryFrom
    <3>5. pc'[c] \in {"calling", "exhausting"}
      BY <1>7 DEF ChainTypeOK, Advance, TryFrom
    <3>. QED
      BY <1>7, <3>1, <3>2, <3>3, <3>4, <3>5 DEF ChainTypeOK, WalkInv, Advance
  <2>3. SkipInv' BY <1>7 DEF ChainTypeOK, WalkInv, SkipInv, Advance, TryFrom
  <2>. QED BY <2>1, <2>2, <2>3
<1>8. ASSUME NEW c \in Callers, Exhaust(c) PROVE ChainInv'
  <2>1. ChainTypeOK' BY <1>8 DEF ChainTypeOK, WalkInv, Exhaust
  <2>2. WalkInv' BY <1>8 DEF ChainTypeOK, WalkInv, Exhaust
  <2>3. SkipInv' BY <1>8 DEF ChainTypeOK, WalkInv, SkipInv, Exhaust
  <2>. QED BY <2>1, <2>2, <2>3
<1>9. ASSUME NEW c \in Callers, CancelCall(c) PROVE ChainInv'
  <2>1. ChainTypeOK' BY <1>9 DEF ChainTypeOK, WalkInv, CancelCall
  <2>2. WalkInv' BY <1>9 DEF ChainTypeOK, WalkInv, CancelCall
  <2>3. SkipInv' BY <1>9 DEF ChainTypeOK, WalkInv, SkipInv, CancelCall
  <2>. QED BY <2>1, <2>2, <2>3
<1>10. CASE UNCHANGED chainVars
  BY <1>10 DEF chainVars, ChainTypeOK, WalkInv, SkipInv
<1>. QED
  BY <1>1, <1>2, <1>3, <1>4, <1>5, <1>6, <1>7, <1>8, <1>9, <1>10 DEF ChainNext, Step

LEMMA AlwaysChainInv == ChainSpec => []ChainInv
  BY InitChainInv, NextChainInv, PTL DEF ChainSpec

(* The chain, the index and the callers never leave their types; FailTransient *)
(* keeps them only because a caller that is at a model is inside the chain.    *)
THEOREM ChainTypeCorrect == ChainSpec => []ChainTypeOK
<1>1. ChainInv => ChainTypeOK
  BY DEF ChainInv
<1>. QED
  BY <1>1, AlwaysChainInv, PTL

(* No model is passed over that has not failed transiently, whatever order *)
(* concurrent callers store the shared index in.                           *)
THEOREM SkipsAreJustified == ChainSpec => []SkippedHaveFailed
<1>1. ChainInv => SkippedHaveFailed
  BY DEF ChainInv, SkipInv, SkippedHaveFailed
<1>. QED
  BY <1>1, AlwaysChainInv, PTL

(* A call tries each model of its own range once and in order. *)
THEOREM WalksAreContiguous == ChainSpec => []WalkIsContiguous
<1>1. ChainInv => WalkIsContiguous
  BY DEF ChainInv, WalkInv, WalkIsContiguous
<1>. QED
  BY <1>1, AlwaysChainInv, PTL

(* The three together, as TLC checks them. *)
THEOREM WalksStaySound == ChainSpec => []WalksAreSound
BY ChainTypeCorrect, SkipsAreJustified, WalksAreContiguous, PTL DEF WalksAreSound

-----------------------------------------------------------------------------
(* Until calls overlap the only one in flight stands where the index points. *)
ChainAloneInv ==
    ~overlapped =>
        \A c \in Callers :
            /\ pc[c] \in Walking => cur[c] = idx
            /\ pc[c] \in InFlight =>
                  \A d \in Callers \ {c} : pc[d] \in Finished

LEMMA InitChainAlone == ChainInit => ChainAloneInv
  BY DEF ChainInit, ChainAloneInv, InFlight, Finished, Walking

LEMMA NextChainAlone == ChainInv /\ ChainAloneInv /\ [ChainNext]_chainVars => ChainAloneInv'
<1> SUFFICES ASSUME ChainInv, ChainAloneInv, [ChainNext]_chainVars PROVE ChainAloneInv'
  OBVIOUS
<1> USE NAssumption DEF ChainInv, ChainTypeOK, ChainAloneInv, InFlight, Finished, Walking
<1>1. ASSUME NEW c \in Callers, NEW k \in {"request", "stream"}, Enter(c, k)
      PROVE  ChainAloneInv'
  BY <1>1 DEF Enter, TryFrom
<1>2. ASSUME NEW c \in Callers, Answer(c) PROVE ChainAloneInv'
  BY <1>2 DEF Answer
<1>3. ASSUME NEW c \in Callers, OpenStream(c) PROVE ChainAloneInv'
  BY <1>3 DEF OpenStream
<1>4. ASSUME NEW c \in Callers, CloseStream(c) PROVE ChainAloneInv'
  BY <1>4 DEF CloseStream
<1>5. ASSUME NEW c \in Callers, FailTransient(c) PROVE ChainAloneInv'
  BY <1>5 DEF FailTransient
<1>6. ASSUME NEW c \in Callers, FailFatal(c) PROVE ChainAloneInv'
  BY <1>6 DEF FailFatal
<1>7. ASSUME NEW c \in Callers, Advance(c) PROVE ChainAloneInv'
  BY <1>7 DEF Advance, TryFrom
<1>8. ASSUME NEW c \in Callers, Exhaust(c) PROVE ChainAloneInv'
  BY <1>8 DEF Exhaust
<1>9. ASSUME NEW c \in Callers, CancelCall(c) PROVE ChainAloneInv'
  BY <1>9 DEF CancelCall
<1>10. CASE UNCHANGED chainVars
  BY <1>10 DEF chainVars
<1>. QED
  BY <1>1, <1>2, <1>3, <1>4, <1>5, <1>6, <1>7, <1>8, <1>9, <1>10 DEF ChainNext, Step

(* As long as calls do not overlap the documented behaviour holds: the     *)
(* index only moves forward.  With overlap it does move back.              *)
THEOREM StickyWhileAlone == ChainSpec => StickyAlone
<1>1. ChainInv /\ ChainAloneInv /\ [ChainNext]_chainVars => [~overlapped' => idx' >= idx]_chainVars
  <2> SUFFICES ASSUME ChainInv, ChainAloneInv, ChainNext, ~overlapped' PROVE idx' >= idx
    OBVIOUS
  <2>1. ASSUME NEW c \in Callers, Advance(c) PROVE idx' >= idx
    BY <2>1, NAssumption DEF ChainInv, ChainTypeOK, ChainAloneInv, Walking, Advance
  <2>2. ASSUME idx' = idx PROVE idx' >= idx
    BY <2>2, NAssumption DEF ChainInv, ChainTypeOK
  <2>. QED
    BY <2>1, <2>2 DEF ChainNext, Step, Enter, Answer, OpenStream, CloseStream,
       FailTransient, FailFatal, Exhaust, CancelCall
<1>. QED
  BY <1>1, InitChainAlone, NextChainAlone, AlwaysChainInv, PTL DEF ChainSpec, StickyAlone
=============================================================================
