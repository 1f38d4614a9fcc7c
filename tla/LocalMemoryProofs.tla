------------------------- MODULE LocalMemoryProofs -------------------------
(***************************************************************************)
(* Proofs about LocalMemory, for any number of tasks, connections, entries *)
(* and faults: what is on disk agrees with itself, and a store that        *)
(* returned is there until its entry is removed.                           *)
(***************************************************************************)
EXTENDS LocalMemory, FiniteSetTheorems, WellFoundedInduction, TLAPS

(* What an operation knows where it is. *)
OpOf(t) ==
    /\ op[t].at \in {"connecting", "setup", "start"} => op[t].version = 0
    /\ op[t].at = "embed" => op[t].kind = "store"
    /\ op[t].at \in {"connecting", "setup", "start", "embed"} /\ op[t].kind = "store" =>
          op[t].id \in Ids /\ op[t].topic \in Topics
    /\ op[t].at \in {"decay", "floor"} => op[t].kind = "reliability"
    /\ op[t].at # "idle" /\ op[t].kind = "reliability" => op[t].id \in Ids

OpInv == \A t \in Tasks : OpOf(t)

(* Only the executescript that creates the triggers fills what they fill.  *)
IndexInv ==
    /\ work.triggers = disk.triggers
    /\ disk.triggers = FALSE => disk.index = {} /\ work.index = {}
    /\ InSyncUndisturbed

SameVersion(r, s) == r.version > 0 /\ r.version = s.version /\ r.topic = s.topic

Unique(v) == \A r, s \in v.rows : SameVersion(r, s) /\ r # s => r.topic \in raced

(* The version a store has read is above all it may yet meet. *)
Above(v, t) ==
    \A r \in v.rows :
        r.version > 0 /\ r.topic = op[t].topic => r.version < op[t].version

(* Whose connection was not closed since still has the only new version.   *)
EmbedInv ==
    \A t \in Tasks :
        op[t].at = "embed" /\ op[t].conn \in opened /\ op[t].topic \notin raced =>
            /\ Above(work, t)
            /\ owner # op[t].conn => Above(disk, t)
            /\ \A u \in Tasks : op[u].at = "embed" /\ op[u].topic = op[t].topic => u = t

Low(v, i) == \E r \in v.rows : r.id = i /\ r.rel = 0

Deciding(t, i) == op[t].at = "floor" /\ op[t].id = i
Decided(t, i) == op[t].at = "commit" /\ op[t].kind = "reliability" /\ op[t].id = i

(* A row below the floor has an update that will look at it, or that looked*)
(* at it and deleted it: in the open transaction, or in one that was lost. *)
FloorOf(i) ==
    /\ Low(work, i) =>
          \E t \in Tasks : Deciding(t, i) \/ (Decided(t, i) /\ op[t].conn \notin opened)
    /\ Low(disk, i) =>
          \E t \in Tasks : \/ Deciding(t, i)
                           \/ Decided(t, i) /\ op[t].conn \notin opened \ {owner}

FloorInv == \A i \in Ids \ broken : FloorOf(i)

(* What a store inserted and nobody removed is in the open transaction of  *)
(* its connection, or was committed by someone else.                       *)
StoreInv ==
    /\ stored \subseteq IdsOf(disk) /\ stored \subseteq IdsOf(work)
    /\ \A t \in inserted :
          /\ op[t].at = "commit" /\ op[t].id \in Ids
          /\ op[t].conn \in opened =>
                /\ op[t].id \in IdsOf(work)
                /\ owner # op[t].conn => op[t].id \in IdsOf(disk)

IInv == TypeOK /\ OpInv /\ IndexInv /\ Unique(disk) /\ Unique(work) /\ EmbedInv /\ FloorInv /\ StoreInv

OthersStay(t) == \A u \in Tasks \ {t} : op'[u] = op[u]

-----------------------------------------------------------------------------
(* A bounded set of numbers has a largest one.                             *)
LEMMA LargestOf ==
  ASSUME NEW M \in Nat, NEW V \in SUBSET (0..M), V # {}
  PROVE  \E v \in V : \A w \in V : w <= v
<1> DEFINE Beyond(v) == (v + 1)..M
           T == {Beyond(v) : v \in V}
<1>1. T \subseteq FiniteSubsetsOf(0..M)
  <2> SUFFICES ASSUME NEW v \in V
               PROVE  Beyond(v) \subseteq 0..M /\ IsFiniteSet(Beyond(v))
    BY DEF FiniteSubsetsOf
  <2>1. v + 1 \in Int /\ M \in Int
    OBVIOUS
  <2>. QED
    BY <2>1, FS_Interval
<1>2. PICK S \in T : \A U \in T : <<U, S>> \notin StrictSubsetOrdering(0..M)
  <2>1. T # {}
    OBVIOUS
  <2> HIDE DEF T
  <2>. QED
    BY <1>1, <2>1, FS_StrictSubsetOrderingWellFounded, WFMin
<1>3. PICK v \in V : S = Beyond(v)
  OBVIOUS
<1>4. ASSUME NEW w \in V, ~(w <= v) PROVE FALSE
  <2>1. Beyond(w) \subseteq Beyond(v) /\ w \in Beyond(v) /\ w \notin Beyond(w)
    BY <1>4
  <2>2. <<Beyond(w), S>> \in StrictSubsetOrdering(0..M)
    BY <1>3, <2>1 DEF StrictSubsetOrdering
  <2>. QED
    BY <1>2, <2>2
<1>. QED
  BY <1>4

LEMMA LargestFacts ==
  ASSUME NEW M \in Nat, NEW S \in SUBSET Int, \A x \in S : x <= M
  PROVE  /\ Largest(S) \in 0..M /\ \A x \in S : x <= Largest(S)
         /\ Largest(S) \in {0} \cup S
<1> DEFINE T == {0} \cup S
           V == {x \in T : x >= 0}
<1>1. V \in SUBSET (0..M) /\ V # {}
  <2>1. 0 \in V
    OBVIOUS
  <2>2. ASSUME NEW x \in V PROVE x \in 0..M
    <3>1. x \in Int /\ x >= 0 /\ (x = 0 \/ x <= M)
      OBVIOUS
    <3>. QED
      BY <3>1
  <2>. QED
    BY <2>1, <2>2
<1>2. PICK v \in V : \A w \in V : w <= v
  <2> HIDE DEF V
  <2>. QED
    BY <1>1, LargestOf
<1>3. v \in T /\ \A y \in T : v >= y
  BY <1>2
<1>4. Max(T) \in T /\ \A y \in T : Max(T) >= y
  <2> HIDE DEF T
  <2>. QED
    BY <1>3 DEF Max
<1>5. Largest(S) = Max(T)
  BY DEF Largest
<1> HIDE DEF T, V
<1>6. Largest(S) \in T /\ \A y \in T : Largest(S) >= y
  BY <1>4, <1>5
<1> DEFINE m == Largest(S)
<1> HIDE DEF m
<1>7. m \in {0} \cup S /\ (\A y \in {0} \cup S : m >= y)
  BY <1>6 DEF T, m
<1>8. m \in Int /\ m >= 0 /\ m <= M /\ (\A y \in S : y <= m)
  BY <1>7
<1>. QED
  BY <1>7, <1>8 DEF m

-----------------------------------------------------------------------------
(* Views of the database, and what changes in them.                        *)
LEMMA ViewFacts ==
  ASSUME NEW v \in Views
  PROVE  /\ v.rows \subseteq Rows /\ v.index \subseteq Entries /\ v.triggers \in BOOLEAN
         /\ \A r \in v.rows : /\ r.id \in Ids /\ r.rowid \in 1..MaxRowid /\ r.topic \in Topics
                              /\ r.rel \in 0..MaxRel /\ r.version \in 0..MaxRowid
         /\ \A e \in v.index : e.rowid \in 1..MaxRowid /\ e.topic \in Topics
BY DEF Views, Rows, Entries

LEMMA RowsChange ==
  ASSUME NEW v \in Views, NEW R \in SUBSET Rows
  PROVE  LET w == [v EXCEPT !.rows = R]
         IN  w \in Views /\ w.rows = R /\ w.index = v.index /\ w.triggers = v.triggers
BY DEF Views

LEMMA IndexChange ==
  ASSUME NEW v \in Views
  PROVE  LET w == Index(v)
         IN  w \in Views /\ w.rows = v.rows /\ w.index = v.index /\ w.triggers = TRUE
BY DEF Views, Index

(* Who may write sees what the open transaction has made of the disk.      *)
LEMMA WriteFacts ==
  ASSUME TypeOK, NEW c, NEW v, Write(c, v)
  PROVE  /\ c \in Conns /\ c \in opened /\ c # None
         /\ owner' = c /\ work' = v /\ disk' = disk
         /\ owner \in {None, c} /\ Seen(c) = work /\ work \in Views /\ disk \in Views
         /\ owner # c => work = disk
BY NoneAssumption DEF TypeOK, Write, Seen, None

-----------------------------------------------------------------------------
(* What the steps do to the operation of their task.                       *)
LEMMA OpType ==
  ASSUME TypeOK, NEW t \in Tasks
  PROVE  /\ op[t] = Idle => op[t].at = "idle"
         /\ op[t] # Idle => op[t] \in Operations /\ op[t].at \in Places /\ op[t].at # "idle"
BY DEF TypeOK, Idle, Operations, Places

LEMMA GotoFacts ==
  ASSUME TypeOK, NEW t \in Tasks, op[t] \in Operations, NEW place \in Places, Goto(t, place)
  PROVE  /\ op' \in [Tasks -> Operations \cup {Idle}] /\ OthersStay(t)
         /\ op'[t].at = place /\ op'[t].kind = op[t].kind /\ op'[t].id = op[t].id
         /\ op'[t].conn = op[t].conn /\ op'[t].topic = op[t].topic /\ op'[t].version = op[t].version
<1> DEFINE new == [op[t] EXCEPT !.at = place]
<1>1. new \in Operations
  BY DEF Operations
<1>2. /\ new.at = place /\ new.kind = op[t].kind /\ new.id = op[t].id
      /\ new.conn = op[t].conn /\ new.topic = op[t].topic /\ new.version = op[t].version
  BY DEF Operations
<1>3. op' = [op EXCEPT ![t] = new]
  BY DEF Goto, TypeOK
<1> HIDE DEF new
<1>. QED
  BY <1>1, <1>2, <1>3 DEF TypeOK, OthersStay

LEMMA ToCommitFacts ==
  ASSUME TypeOK, NEW t \in Tasks, op[t] \in Operations, ToCommit(t)
  PROVE  /\ op' \in [Tasks -> Operations \cup {Idle}] /\ OthersStay(t)
         /\ op'[t].at = "commit" /\ op'[t].conn = op[t].conn
         /\ op[t].kind \in {"store", "reliability"} =>
               op'[t].kind = op[t].kind /\ op'[t].id = op[t].id
         /\ op[t].kind \notin {"store", "reliability"} => op'[t].kind = "forget"
<1> DEFINE o == op[t]
           kind == IF o.kind \in {"store", "reliability"} THEN o.kind ELSE "forget"
           id == IF o.kind \in {"store", "reliability"} THEN o.id ELSE None
           new == [at |-> "commit", kind |-> kind, conn |-> o.conn, id |-> id,
                   topic |-> None, skill |-> FALSE, version |-> 0]
<1>1. op' = [op EXCEPT ![t] = new]
  <2>1. op' = [op EXCEPT ![t] = op'[t]] /\ op'[t] = [o EXCEPT
                     !.at = "commit", !.topic = None, !.skill = FALSE, !.version = 0,
                     !.kind = kind, !.id = id]
    BY DEF ToCommit, TypeOK
  <2>2. op'[t] = new
    BY <2>1 DEF Operations
  <2>. QED
    BY <2>1, <2>2
<1>2. new \in Operations
  <2>1. kind \in Kinds /\ id \in Ids \cup {None} /\ o.conn \in Conns \cup {None}
    BY DEF Operations, Kinds
  <2>2. 0 \in 0..MaxRowid /\ "commit" \in Places
    BY BoundAssumption DEF Places
  <2> HIDE DEF kind, id
  <2>. QED
    BY <2>1, <2>2 DEF Operations
<1>3. new.at = "commit" /\ new.kind = kind /\ new.conn = o.conn /\ new.id = id
  OBVIOUS
<1> HIDE DEF new
<1>. QED
  BY <1>1, <1>2, <1>3 DEF TypeOK, OthersStay

LEMMA DoneFacts ==
  ASSUME TypeOK, NEW t \in Tasks, Done(t)
  PROVE  op' \in [Tasks -> Operations \cup {Idle}] /\ OthersStay(t) /\ op'[t].at = "idle"
<1>1. op' = [op EXCEPT ![t] = Idle] /\ Idle.at = "idle"
  BY DEF Done, Idle
<1>. QED
  BY <1>1 DEF TypeOK, OthersStay

-----------------------------------------------------------------------------
LEMMA InitIInv == Init => IInv
<1> SUFFICES ASSUME Init PROVE IInv
  OBVIOUS
<1>1. TypeOK
  <2>1. NewFile \in Views
    BY DEF NewFile, Views
  <2>2. op \in [Tasks -> Operations \cup {Idle}]
    BY DEF Init
  <2>3. 0 \in 0..MaxCalls /\ 0 \in 0..MaxFaults
    BY BoundAssumption
  <2>. QED
    BY <2>1, <2>2, <2>3, Zenon DEF Init, TypeOK
<1>2. OpInv /\ EmbedInv
  BY DEF Init, OpInv, OpOf, EmbedInv, Idle
<1>3. disk = NewFile /\ work = NewFile /\ NewFile.rows = {} /\ NewFile.index = {} /\ ~NewFile.triggers
  BY DEF Init, NewFile
<1>4. IndexInv /\ Unique(disk) /\ Unique(work)
  BY <1>3 DEF IndexInv, InSyncUndisturbed, Unique
<1>5. FloorInv /\ StoreInv
  BY <1>3 DEF Init, FloorInv, FloorOf, Low, StoreInv
<1>. QED
  BY <1>1, <1>2, <1>4, <1>5 DEF IInv

(* A step of a task that touches neither the database nor what is known of *)
(* it, and is not about to insert, to delete or to commit.                 *)
LEMMA MoveStep ==
  ASSUME IInv, NEW t \in Tasks, OthersStay(t), TypeOK', OpOf(t)',
         UNCHANGED <<rows, inserted, stored, raced, disturbed, broken, opened>>,
         op[t].at \notin {"floor", "commit"}, op'[t].at # "embed"
  PROVE  IInv'
<1>1. /\ disk' = disk /\ work' = work /\ owner' = owner /\ opened' = opened
      /\ inserted' = inserted /\ stored' = stored /\ raced' = raced
      /\ disturbed' = disturbed /\ broken' = broken
  BY DEF rows
<1>2. IndexInv' /\ Unique(disk)' /\ Unique(work)'
  BY <1>1 DEF IInv, IndexInv, InSyncUndisturbed, InSync, Unique
<1>3. EmbedInv'
  BY <1>1 DEF IInv, EmbedInv, Above, OthersStay
<1>4. FloorInv'
  <2> SUFFICES ASSUME NEW i \in Ids \ broken
               PROVE  FloorOf(i)'
    BY <1>1 DEF FloorInv
  <2>1. ASSUME NEW u \in Tasks, Deciding(u, i) \/ Decided(u, i)
        PROVE  /\ op'[u] = op[u]
               /\ Deciding(u, i)' <=> Deciding(u, i)
               /\ Decided(u, i)' <=> Decided(u, i)
    BY <2>1 DEF Deciding, Decided, OthersStay
  <2>2. (Low(work, i)' <=> Low(work, i)) /\ (Low(disk, i)' <=> Low(disk, i))
    BY <1>1 DEF Low
  <2>3. FloorOf(i)
    BY DEF IInv, FloorInv
  <2>. QED
    BY <1>1, <2>1, <2>2, <2>3 DEF FloorOf
<1>5. StoreInv'
  <2>1. \A u \in inserted : u \in Tasks /\ op'[u] = op[u]
    BY DEF IInv, TypeOK, StoreInv, OthersStay
  <2>. QED
    BY <1>1, <2>1 DEF IInv, StoreInv, IdsOf
<1>6. OpInv'
  BY DEF IInv, OpInv, OpOf, OthersStay
<1>. QED
  BY <1>2, <1>3, <1>4, <1>5, <1>6 DEF IInv

LEMMA RequestFacts ==
  ASSUME NEW request \in Requests
  PROVE  /\ request.kind \in Kinds /\ request.id \in Ids \cup {None}
         /\ request.topic \in Topics \cup {None} /\ request.skill \in BOOLEAN
         /\ request.kind = "store" => request.id \in Ids /\ request.topic \in Topics
         /\ request.kind = "reliability" => request.id \in Ids
BY DEF Requests, Request, Recalls, Kinds

LEMMA BeginStep ==
  ASSUME IInv, NEW t \in Tasks, NEW request \in Requests, Begin(t, request)
  PROVE  IInv'
<1> DEFINE at == IF cur = None THEN "connecting" ELSE "start"
           new == [at |-> at, kind |-> request.kind, conn |-> cur, id |-> request.id,
                   topic |-> request.topic, skill |-> request.skill, version |-> 0]
<1>1. /\ op[t] = Idle /\ calls < MaxCalls /\ calls' = calls + 1 /\ op' = [op EXCEPT ![t] = new]
      /\ UNCHANGED <<database, connection, broken, faults>>
  BY DEF Begin
<1>2. TypeOK /\ op[t].at = "idle"
  BY <1>1, OpType DEF IInv
<1>3. new \in Operations
  <2>1. at \in Places /\ cur \in Conns \cup {None} /\ 0 \in 0..MaxRowid
    BY <1>2, BoundAssumption DEF Places, TypeOK
  <2> HIDE DEF at
  <2>. QED
    BY <2>1, RequestFacts DEF Operations
<1>4. /\ new.at \in {"connecting", "start"} /\ new.version = 0 /\ new.kind = request.kind
      /\ new.id = request.id /\ new.topic = request.topic
  OBVIOUS
<1> HIDE DEF new
<1>5. op'[t] = new /\ OthersStay(t) /\ op' \in [Tasks -> Operations \cup {Idle}]
  BY <1>1, <1>2, <1>3 DEF OthersStay, TypeOK
<1>6. TypeOK'
  <2>1. calls' \in 0..MaxCalls
    BY <1>1, <1>2, BoundAssumption DEF TypeOK
  <2>. QED
    BY <1>1, <1>2, <1>5, <2>1 DEF TypeOK, database, rows, connection
<1>7. OpOf(t)'
  BY <1>4, <1>5, RequestFacts DEF OpOf
<1>8. op'[t].at # "embed"
  BY <1>4, <1>5
<1>. QED
  BY <1>1, <1>2, <1>5, <1>6, <1>7, <1>8, MoveStep DEF database, connection

(* The types of a step that only changes operations.                       *)
LEMMA OpTypes ==
  ASSUME TypeOK, op' \in [Tasks -> Operations \cup {Idle}],
         UNCHANGED <<database, connection, counted>>
  PROVE  TypeOK'
BY DEF TypeOK, database, rows, connection, counted

(* The steps of a recall, and the look for a row to decay.                 *)
LEMMA SelectStep ==
  ASSUME IInv, NEW t \in Tasks, op[t].at \in {"start", "ranking"},
         UNCHANGED <<database, connection, counted>>,
         \/ Done(t)
         \/ ToCommit(t)
         \/ Selected(t, "touch") \/ Selected(t, "ranking")
         \/ op[t].kind = "reliability" /\ Goto(t, "decay")
  PROVE  IInv'
<1>1. TypeOK /\ OpOf(t) /\ op[t] \in Operations
  BY OpType DEF IInv, OpInv
<1>2. /\ op' \in [Tasks -> Operations \cup {Idle}] /\ OthersStay(t) /\ OpOf(t)'
      /\ op'[t].at # "embed"
  <2>1. CASE Done(t)
    BY <1>1, <2>1, DoneFacts DEF OpOf
  <2>2. CASE ToCommit(t)
    <3>1. /\ op' \in [Tasks -> Operations \cup {Idle}] /\ OthersStay(t)
          /\ op'[t].at = "commit"
          /\ op'[t].kind = "reliability" => op[t].kind = "reliability" /\ op'[t].id = op[t].id
      BY <1>1, <2>2, ToCommitFacts
    <3>. QED
      BY <1>1, <3>1 DEF OpOf
  <2>3. ASSUME NEW place \in {"touch", "ranking"}, Selected(t, place)
        PROVE  <1>2!:
    <3> DEFINE new == [op[t] EXCEPT !.at = place, !.kind = "keyword", !.topic = None]
    <3>1. new \in Operations /\ new.at = place /\ new.kind = "keyword"
      BY <1>1 DEF Operations, Places, Kinds, Recalls
    <3>2. op' = [op EXCEPT ![t] = new]
      BY <1>1, <2>3 DEF Selected, TypeOK
    <3> HIDE DEF new
    <3>. QED
      BY <1>1, <3>1, <3>2 DEF OthersStay, OpOf, TypeOK
  <2>4. CASE op[t].kind = "reliability" /\ Goto(t, "decay")
    <3>1. "decay" \in Places
      BY DEF Places
    <3>. QED
      BY <1>1, <2>4, <3>1, GotoFacts DEF OpOf
  <2>. QED
    BY <2>1, <2>2, <2>3, <2>4
<1>3. TypeOK'
  BY <1>1, <1>2, OpTypes
<1>. QED
  BY <1>2, <1>3, MoveStep DEF database, connection, counted

LEMMA RecallSteps ==
  ASSUME IInv, NEW t \in Tasks,
         KeywordRecall(t) \/ EmbeddingRecall(t) \/ ProceduralRecall(t) \/ Rank(t) \/ Look(t)
  PROVE  IInv'
<1>1. CASE KeywordRecall(t)
  BY <1>1, SelectStep DEF KeywordRecall, Recall
<1>2. CASE EmbeddingRecall(t)
  BY <1>2, SelectStep DEF EmbeddingRecall, Recall
<1>3. CASE ProceduralRecall(t)
  BY <1>3, SelectStep DEF ProceduralRecall, Recall
<1>4. CASE Rank(t)
  BY <1>4, SelectStep DEF Rank
<1>5. CASE Look(t)
  BY <1>5, SelectStep DEF Look
<1>. QED
  BY <1>1, <1>2, <1>3, <1>4, <1>5

LEMMA UnsetStep ==
  ASSUME IInv, NEW t \in Tasks, Unset(t)
  PROVE  IInv'
<1>1. /\ op[t].at = "closed" /\ cur' = None /\ Done(t)
      /\ UNCHANGED <<database, opened, fts, counted>> /\ TypeOK
  BY DEF Unset, IInv
<1>2. op' \in [Tasks -> Operations \cup {Idle}] /\ OthersStay(t) /\ op'[t].at = "idle"
  BY <1>1, DoneFacts
<1>3. TypeOK'
  BY <1>1, <1>2 DEF TypeOK, database, rows, counted
<1>4. OpOf(t)'
  BY <1>2 DEF OpOf
<1>. QED
  BY <1>1, <1>2, <1>3, <1>4, MoveStep DEF database, counted

-----------------------------------------------------------------------------
LEMMA UnfinishedFacts ==
  ASSUME TypeOK, NEW t \in Tasks, OpOf(t)
  PROVE  /\ Unfinished(t) \subseteq Ids
         /\ \A i \in Ids : Deciding(t, i) \/ Decided(t, i) <=> i \in Unfinished(t)
<1>1. op[t].at \in {"floor", "commit"} => op[t] # Idle
  BY OpType
<1>2. op[t] # Idle => op[t].at # "idle"
  BY OpType
<1>. QED
  BY <1>1, <1>2 DEF OpOf, Unfinished, Deciding, Decided

(* What an operation that failed had not finished is broken.               *)
LEMMA FailStep ==
  ASSUME IInv, NEW t \in Tasks, Fail(t)
  PROVE  IInv'
<1>1. /\ Done(t) /\ broken' = broken \cup Unfinished(t) /\ inserted' = inserted \ {t}
      /\ disk' = disk /\ work' = work /\ owner' = owner /\ opened' = opened /\ cur' = cur
      /\ fts' = fts /\ stored' = stored /\ raced' = raced /\ disturbed' = disturbed
      /\ calls' = calls
  BY DEF Fail, rows, connection
<1>2. faults' = faults \/ (faults < MaxFaults /\ faults' = faults + 1)
  BY DEF Fail
<1>3. TypeOK /\ OpOf(t)
  BY DEF IInv, OpInv
<1>4. op' \in [Tasks -> Operations \cup {Idle}] /\ OthersStay(t) /\ op'[t].at = "idle"
  BY <1>1, <1>3, DoneFacts
<1>5. TypeOK'
  <2>1. faults' \in 0..MaxFaults
    BY <1>2, <1>3, BoundAssumption DEF TypeOK
  <2>2. broken' \subseteq Ids
    BY <1>1, <1>3, UnfinishedFacts DEF TypeOK
  <2>. QED
    BY <1>1, <1>3, <1>4, <2>1, <2>2 DEF TypeOK
<1>6. OpInv'
  BY <1>4 DEF IInv, OpInv, OpOf, OthersStay
<1>7. IndexInv' /\ Unique(disk)' /\ Unique(work)'
  BY <1>1 DEF IInv, IndexInv, InSyncUndisturbed, InSync, Unique
<1>8. EmbedInv'
  BY <1>1, <1>4 DEF IInv, EmbedInv, Above, OthersStay
<1>9. FloorInv'
  <2> SUFFICES ASSUME NEW i \in Ids \ broken, i \notin Unfinished(t)
               PROVE  FloorOf(i)'
    BY <1>1 DEF FloorInv
  <2>1. ASSUME NEW u \in Tasks, Deciding(u, i) \/ Decided(u, i)
        PROVE  op'[u] = op[u] /\ (Deciding(u, i)' <=> Deciding(u, i))
                              /\ (Decided(u, i)' <=> Decided(u, i))
    <3>1. u # t
      BY <1>3, <2>1, UnfinishedFacts
    <3>. QED
      BY <1>4, <3>1 DEF Deciding, Decided, OthersStay
  <2>2. (Low(work, i)' <=> Low(work, i)) /\ (Low(disk, i)' <=> Low(disk, i)) /\ FloorOf(i)
    BY <1>1 DEF Low, IInv, FloorInv
  <2>. QED
    BY <1>1, <2>1, <2>2 DEF FloorOf
<1>10. StoreInv'
  <2>1. \A u \in inserted' : u \in inserted /\ u \in Tasks /\ op'[u] = op[u]
    BY <1>1, <1>3, <1>4 DEF TypeOK, OthersStay
  <2>. QED
    BY <1>1, <2>1 DEF IInv, StoreInv, IdsOf
<1>. QED
  BY <1>5, <1>6, <1>7, <1>8, <1>9, <1>10 DEF IInv

(* What is committed stays; every unfinished update is broken.             *)
LEMMA CrashStep ==
  ASSUME IInv, Crash
  PROVE  IInv'
<1>1. /\ faults < MaxFaults /\ faults' = faults + 1
      /\ disk' = disk /\ work' = disk /\ owner' = None /\ opened' = {} /\ cur' = None /\ fts' = FALSE
      /\ op' = [t \in Tasks |-> Idle] /\ broken' = broken \cup UNION {Unfinished(t) : t \in Tasks}
      /\ inserted' = {} /\ stored' = stored /\ raced' = raced /\ disturbed' = disturbed
      /\ calls' = calls
  BY DEF Crash
<1>2. TypeOK /\ \A t \in Tasks : OpOf(t)
  BY DEF IInv, OpInv
<1>3. \A t \in Tasks : op'[t] = Idle /\ op'[t].at = "idle"
  BY <1>1 DEF Idle
<1>4. TypeOK'
  <2>1. faults' \in 0..MaxFaults
    BY <1>1, <1>2, BoundAssumption DEF TypeOK
  <2>2. broken' \subseteq Ids
    BY <1>1, <1>2, UnfinishedFacts DEF TypeOK
  <2>3. op' \in [Tasks -> Operations \cup {Idle}]
    BY <1>1
  <2>. QED
    BY <1>1, <1>2, <2>1, <2>2, <2>3 DEF TypeOK
<1>5. OpInv' /\ EmbedInv'
  BY <1>3 DEF OpInv, OpOf, EmbedInv
<1>6. IndexInv' /\ Unique(disk)' /\ Unique(work)'
  BY <1>1 DEF IInv, IndexInv, InSyncUndisturbed, InSync, Unique
<1>7. FloorInv'
  <2> SUFFICES ASSUME NEW i \in Ids \ broken, \A t \in Tasks : i \notin Unfinished(t)
               PROVE  FloorOf(i)'
    BY <1>1 DEF FloorInv
  <2>1. ~Low(disk, i)
    BY <1>2, UnfinishedFacts DEF IInv, FloorInv, FloorOf
  <2>. QED
    BY <1>1, <2>1 DEF FloorOf, Low
<1>8. StoreInv'
  BY <1>1 DEF IInv, StoreInv, IdsOf
<1>. QED
  BY <1>4, <1>5, <1>6, <1>7, <1>8 DEF IInv

(* A new connection is nobody's yet.                                       *)
LEMMA ConnectStep ==
  ASSUME IInv, NEW t \in Tasks, Connect(t)
  PROVE  IInv'
<1>1. PICK c \in Conns \ opened : /\ \A u \in Tasks : op[u] # Idle => op[u].conn # c
                                  /\ opened' = opened \cup {c} /\ cur' = c
  BY DEF Connect
<1>2. /\ op[t].at = "connecting" /\ Goto(t, "setup")
      /\ disk' = disk /\ work' = work /\ owner' = owner /\ fts' = fts
      /\ inserted' = inserted /\ stored' = stored /\ raced' = raced
      /\ disturbed' = disturbed /\ broken' = broken /\ calls' = calls /\ faults' = faults
  BY DEF Connect, database, rows, counted
<1>3. TypeOK /\ OpOf(t) /\ op[t] \in Operations /\ "setup" \in Places
  BY <1>2, OpType DEF IInv, OpInv, Places
<1>4. /\ op' \in [Tasks -> Operations \cup {Idle}] /\ OthersStay(t)
      /\ op'[t].at = "setup" /\ op'[t].kind = op[t].kind /\ op'[t].id = op[t].id
      /\ op'[t].conn = op[t].conn /\ op'[t].topic = op[t].topic /\ op'[t].version = op[t].version
  BY <1>2, <1>3, GotoFacts
<1>5. TypeOK'
  BY <1>1, <1>2, <1>3, <1>4 DEF TypeOK
<1>6. OpInv'
  BY <1>2, <1>4 DEF IInv, OpInv, OpOf, OthersStay
<1>7. IndexInv' /\ Unique(disk)' /\ Unique(work)'
  BY <1>2 DEF IInv, IndexInv, InSyncUndisturbed, InSync, Unique
<1>8. \A u \in Tasks : op[u].at # "idle" => op[u].conn # c
  BY <1>1, <1>3 DEF Idle
<1>9. EmbedInv'
  BY <1>1, <1>2, <1>4, <1>8 DEF IInv, EmbedInv, Above, OthersStay
<1>10. FloorInv'
  <2> SUFFICES ASSUME NEW i \in Ids \ broken
               PROVE  FloorOf(i)'
    BY <1>2 DEF FloorInv
  <2>1. ASSUME NEW u \in Tasks, Deciding(u, i) \/ Decided(u, i)
        PROVE  op'[u] = op[u] /\ op[u].conn # c /\ (Deciding(u, i)' <=> Deciding(u, i))
                              /\ (Decided(u, i)' <=> Decided(u, i))
    <3>1. u # t /\ op[u].at # "idle"
      BY <1>2, <2>1 DEF Deciding, Decided
    <3>. QED
      BY <1>4, <1>8, <3>1 DEF Deciding, Decided, OthersStay
  <2>2. (Low(work, i)' <=> Low(work, i)) /\ (Low(disk, i)' <=> Low(disk, i)) /\ FloorOf(i)
    BY <1>2 DEF Low, IInv, FloorInv
  <2>. QED
    BY <1>1, <1>2, <2>1, <2>2 DEF FloorOf
<1>11. StoreInv'
  <2>1. \A u \in inserted : u \in Tasks /\ op'[u] = op[u] /\ op[u].conn # c
    BY <1>2, <1>3, <1>4, <1>8 DEF TypeOK, OthersStay, IInv, StoreInv
  <2>. QED
    BY <1>1, <1>2, <2>1 DEF IInv, StoreInv, IdsOf
<1>. QED
  BY <1>5, <1>6, <1>7, <1>9, <1>10, <1>11 DEF IInv

-----------------------------------------------------------------------------
(* All that the open transaction did is on disk.                           *)
LEMMA Settled ==
  ASSUME IInv, NEW t \in Tasks, OthersStay(t),
         opened' = opened, raced' = raced, broken' = broken,
         work'.rows = work.rows, disk'.rows = work.rows,
         op[t].at # "floor", op'[t].at # "embed",
         op[t].at = "commit" => op[t].conn \in opened
  PROVE  Unique(disk)' /\ Unique(work)' /\ EmbedInv' /\ FloorInv'
<1>1. Unique(disk)' /\ Unique(work)'
  BY DEF IInv, Unique
<1>2. EmbedInv'
  BY DEF IInv, EmbedInv, Above, OthersStay
<1>3. FloorInv'
  <2> SUFFICES ASSUME NEW i \in Ids \ broken, Low(work, i)
               PROVE  \E u \in Tasks : \/ Deciding(u, i)'
                                       \/ Decided(u, i)' /\ op'[u].conn \notin opened
    BY DEF FloorInv, FloorOf, Low
  <2>1. PICK u \in Tasks : Deciding(u, i) \/ (Decided(u, i) /\ op[u].conn \notin opened)
    BY DEF IInv, FloorInv, FloorOf
  <2>2. u # t
    BY <2>1 DEF Deciding, Decided
  <2>. QED
    BY <2>1, <2>2 DEF Deciding, Decided, OthersStay
<1>. QED
  BY <1>1, <1>2, <1>3

(* What was stored stays in the table, when all of it goes to disk.        *)
LEMMA StoredStays ==
  ASSUME IInv, NEW t \in Tasks, OthersStay(t), t \notin inserted, opened' = opened,
         inserted' = inserted, stored' = stored,
         work'.rows = work.rows, disk'.rows = work.rows
  PROVE  StoreInv'
<1>1. \A u \in inserted : u \in Tasks /\ op'[u] = op[u]
  BY DEF IInv, TypeOK, OthersStay
<1>. QED
  BY <1>1 DEF IInv, StoreInv, IdsOf

LEMMA SetupStep ==
  ASSUME IInv, NEW t \in Tasks, Setup(t)
  PROVE  IInv'
<1> DEFINE new == [op[t] EXCEPT !.at = "start", !.conn = cur]
<1>1. /\ op[t].at = "setup" /\ op' = [op EXCEPT ![t] = new]
      /\ opened' = opened /\ cur' = cur /\ inserted' = inserted /\ stored' = stored /\ raced' = raced
      /\ broken' = broken /\ calls' = calls /\ faults' = faults
  BY DEF Setup, counted, IInv, TypeOK
<1>2. TypeOK /\ OpOf(t) /\ op[t] \in Operations /\ cur \in Conns \cup {None}
  BY <1>1, OpType DEF IInv, OpInv, TypeOK
<1>3. /\ new \in Operations /\ new.at = "start" /\ new.kind = op[t].kind /\ new.id = op[t].id
      /\ new.topic = op[t].topic /\ new.version = op[t].version
  BY <1>2 DEF Operations, Places
<1> HIDE DEF new
<1>4. op'[t] = new /\ OthersStay(t) /\ op' \in [Tasks -> Operations \cup {Idle}]
  BY <1>1, <1>2, <1>3 DEF OthersStay, TypeOK
<1>5. OpOf(t)'
  BY <1>1, <1>2, <1>3, <1>4 DEF OpOf
<1>6. t \notin inserted
  BY <1>1 DEF IInv, StoreInv
<1>7. CASE /\ cur \in opened /\ owner \in {None, cur}
           /\ disk' = Index(Seen(cur)) /\ work' = disk' /\ owner' = None
           /\ fts' = TRUE
           /\ disturbed' = (disturbed \/ (~disk.triggers /\ Seen(cur).rows # {}))
  <2>1. Seen(cur) = work /\ work \in Views /\ disk \in Views
    BY <1>2, <1>7 DEF TypeOK, Seen
  <2>2. /\ disk' \in Views /\ work' = disk' /\ disk'.rows = work.rows /\ disk'.index = work.index
        /\ disk'.triggers = TRUE /\ work'.triggers = TRUE
        /\ work'.rows = work.rows /\ work'.index = work.index
    BY <1>7, <2>1, IndexChange
  <2>3. disturbed' \in BOOLEAN /\ (~disturbed' => ~disturbed /\ (~disk.triggers => work.rows = {}))
    BY <1>2, <1>7, <2>1 DEF TypeOK
  <2>4. TypeOK'
    BY <1>1, <1>2, <1>4, <1>7, <2>2, <2>3 DEF TypeOK
  <2>5. OpInv'
    BY <1>4, <1>5 DEF IInv, OpInv, OpOf, OthersStay
  <2>6. IndexInv'
    <3>1. ASSUME ~disturbed' PROVE InSync(work)
      <4>1. CASE disk.triggers
        BY <2>3, <3>1, <4>1 DEF IInv, IndexInv, InSyncUndisturbed
      <4>2. CASE ~disk.triggers
        <5>1. disk.triggers = FALSE
          BY <2>1, <4>2, ViewFacts
        <5>. QED
          BY <2>3, <3>1, <4>2, <5>1 DEF IInv, IndexInv, InSync
      <4>. QED
        BY <4>1, <4>2
    <3>2. InSync(work) => InSync(disk)' /\ InSync(work)'
      BY <2>2 DEF InSync
    <3>. QED
      BY <2>2, <3>1, <3>2 DEF IndexInv, InSyncUndisturbed
  <2>7. Unique(disk)' /\ Unique(work)' /\ EmbedInv' /\ FloorInv' /\ StoreInv'
    BY <1>1, <1>3, <1>4, <1>6, <2>2, Settled, StoredStays
  <2>. QED
    BY <2>4, <2>5, <2>6, <2>7 DEF IInv
<1>8. CASE /\ CommitOn(cur) /\ owner = cur /\ fts' = FALSE /\ UNCHANGED <<work, disturbed>>
  <2>1. disk' = work /\ work' = work /\ owner' = None /\ disturbed' = disturbed /\ work \in Views
    BY <1>2, <1>8 DEF CommitOn, TypeOK
  <2>2. TypeOK'
    BY <1>1, <1>2, <1>4, <1>8, <2>1 DEF TypeOK
  <2>3. OpInv'
    BY <1>4, <1>5 DEF IInv, OpInv, OpOf, OthersStay
  <2>4. IndexInv'
    BY <2>1 DEF IInv, IndexInv, InSyncUndisturbed, InSync
  <2>5. Unique(disk)' /\ Unique(work)' /\ EmbedInv' /\ FloorInv' /\ StoreInv'
    BY <1>1, <1>3, <1>4, <1>6, <2>1, Settled, StoredStays
  <2>. QED
    BY <2>2, <2>3, <2>4, <2>5 DEF IInv
<1>9. CASE UNCHANGED <<disk, work, owner, disturbed>> /\ fts' \in BOOLEAN
  <2>1. TypeOK'
    BY <1>1, <1>2, <1>4, <1>9 DEF TypeOK
  <2>. QED
    BY <1>1, <1>3, <1>4, <1>5, <1>9, <2>1, MoveStep DEF rows
<1>. QED
  BY <1>7, <1>8, <1>9 DEF Setup, CommitOn

(* Everything written on the connection is committed, and a store returns. *)
LEMMA CommitStep ==
  ASSUME IInv, NEW t \in Tasks, Commit(t)
  PROVE  IInv'
<1> DEFINE c == op[t].conn
<1>1. /\ op[t].at = "commit" /\ c \in opened /\ Done(t)
      /\ IF owner = c THEN disk' = work /\ owner' = None ELSE disk' = disk /\ owner' = owner
      /\ stored' = (IF t \in inserted THEN stored \cup {op[t].id} ELSE stored)
      /\ inserted' = inserted \ {t}
      /\ work' = work /\ raced' = raced /\ disturbed' = disturbed /\ opened' = opened
      /\ cur' = cur /\ fts' = fts /\ broken' = broken /\ calls' = calls /\ faults' = faults
  BY DEF Commit, CommitOn, Acknowledge, connection, counted
<1>2. TypeOK /\ work \in Views /\ disk \in Views
  BY DEF IInv, TypeOK
<1>3. op' \in [Tasks -> Operations \cup {Idle}] /\ OthersStay(t) /\ op'[t].at = "idle"
  BY <1>1, <1>2, DoneFacts
<1>4. t \in inserted => op[t].id \in Ids /\ op[t].id \in IdsOf(work) /\ (owner # c => op[t].id \in IdsOf(disk))
  BY <1>1 DEF IInv, StoreInv
<1>5. OpInv'
  BY <1>3 DEF IInv, OpInv, OpOf, OthersStay
<1>6. IndexInv'
  BY <1>1 DEF IInv, IndexInv, InSyncUndisturbed, InSync
<1>7. StoreInv'
  <2>1. stored' \subseteq IdsOf(disk)' /\ stored' \subseteq IdsOf(work)'
    BY <1>1, <1>4 DEF IInv, StoreInv, IdsOf
  <2>2. \A u \in inserted' : u \in inserted /\ u \in Tasks /\ op'[u] = op[u]
    BY <1>1, <1>2, <1>3 DEF TypeOK, OthersStay
  <2>. QED
    BY <1>1, <2>1, <2>2 DEF IInv, StoreInv, IdsOf
<1>8. CASE owner = c
  <2>1. TypeOK'
    BY <1>1, <1>2, <1>3, <1>4, <1>8 DEF TypeOK
  <2>2. Unique(disk)' /\ Unique(work)' /\ EmbedInv' /\ FloorInv'
    BY <1>1, <1>3, <1>8, Settled
  <2>. QED
    BY <1>5, <1>6, <1>7, <2>1, <2>2 DEF IInv
<1>9. CASE owner # c
  <2>1. TypeOK'
    BY <1>1, <1>2, <1>3, <1>4, <1>9 DEF TypeOK
  <2>2. Unique(disk)' /\ Unique(work)'
    BY <1>1, <1>9 DEF IInv, Unique
  <2>3. EmbedInv'
    BY <1>1, <1>3, <1>9 DEF IInv, EmbedInv, Above, OthersStay
  <2>4. FloorInv'
    <3> SUFFICES ASSUME NEW i \in Ids \ broken
                 PROVE  FloorOf(i)'
      BY <1>1 DEF FloorInv
    <3>1. ASSUME NEW u \in Tasks, Deciding(u, i) \/ (Decided(u, i) /\ op[u].conn \notin opened \ {owner})
          PROVE  op'[u] = op[u] /\ (Deciding(u, i)' <=> Deciding(u, i))
                                /\ (Decided(u, i)' <=> Decided(u, i))
      <4>1. u # t
        BY <1>1, <1>9, <3>1 DEF Deciding
      <4>. QED
        BY <1>3, <4>1 DEF Deciding, Decided, OthersStay
    <3>2. (Low(work, i)' <=> Low(work, i)) /\ (Low(disk, i)' <=> Low(disk, i)) /\ FloorOf(i)
      BY <1>1, <1>9 DEF Low, IInv, FloorInv
    <3>. QED
      BY <1>1, <1>9, <3>1, <3>2 DEF FloorOf
  <2>. QED
    BY <1>5, <1>6, <1>7, <2>1, <2>2, <2>3, <2>4 DEF IInv
<1>. QED
  BY <1>8, <1>9

-----------------------------------------------------------------------------
(* The transaction of the closed connection is lost.                       *)
LEMMA CloseStep ==
  ASSUME IInv, NEW t \in Tasks, Close(t)
  PROVE  IInv'
<1> DEFINE new == [at |-> "closed", kind |-> "close", conn |-> cur, id |-> None,
                   topic |-> None, skill |-> FALSE, version |-> 0]
<1>1. /\ op[t] = Idle /\ calls < MaxCalls /\ calls' = calls + 1 /\ cur # None
      /\ opened' = opened \ {cur} /\ op' = [op EXCEPT ![t] = new]
      /\ IF owner = cur THEN owner' = None /\ work' = disk ELSE owner' = owner /\ work' = work
      /\ disk' = disk /\ inserted' = inserted /\ stored' = stored /\ raced' = raced
      /\ disturbed' = disturbed /\ cur' = cur /\ fts' = fts /\ broken' = broken /\ faults' = faults
  BY DEF Close
<1>2. TypeOK /\ op[t].at = "idle" /\ disk \in Views /\ work \in Views
  BY <1>1, OpType DEF IInv, TypeOK
<1>3. new \in Operations /\ new.at = "closed" /\ new.kind = "close"
  <2>1. cur \in Conns \cup {None} /\ 0 \in 0..MaxRowid
    BY <1>2, BoundAssumption DEF TypeOK
  <2>. QED
    BY <2>1 DEF Operations, Places, Kinds
<1> HIDE DEF new
<1>4. op'[t] = new /\ OthersStay(t) /\ op' \in [Tasks -> Operations \cup {Idle}]
  BY <1>1, <1>2, <1>3 DEF OthersStay, TypeOK
<1>5. TypeOK'
  <2>1. calls' \in 0..MaxCalls
    BY <1>1, <1>2, BoundAssumption DEF TypeOK
  <2>. QED
    BY <1>1, <1>2, <1>4, <2>1 DEF TypeOK
<1>6. OpInv'
  BY <1>3, <1>4 DEF IInv, OpInv, OpOf, OthersStay
<1>7. IndexInv' /\ Unique(disk)' /\ Unique(work)'
  BY <1>1 DEF IInv, IndexInv, InSyncUndisturbed, InSync, Unique
<1>8. EmbedInv'
  <2> SUFFICES ASSUME NEW u \in Tasks, op'[u].at = "embed", op'[u].conn \in opened \ {cur},
                      op'[u].topic \notin raced
               PROVE  /\ Above(work, u)'
                      /\ owner' # op'[u].conn => Above(disk, u)'
                      /\ \A w \in Tasks : op'[w].at = "embed" /\ op'[w].topic = op'[u].topic => w = u
    BY <1>1 DEF EmbedInv
  <2>1. u # t /\ op'[u] = op[u] /\ op[u].conn # cur
    BY <1>3, <1>4 DEF OthersStay
  <2>2. /\ Above(work, u) /\ (owner # op[u].conn => Above(disk, u))
        /\ \A w \in Tasks : op[w].at = "embed" /\ op[w].topic = op[u].topic => w = u
    BY <2>1 DEF IInv, EmbedInv
  <2>3. \A w \in Tasks : op'[w].at = "embed" => op'[w] = op[w]
    BY <1>3, <1>4 DEF OthersStay
  <2>. QED
    BY <1>1, <2>1, <2>2, <2>3 DEF Above
<1>9. FloorInv'
  <2> SUFFICES ASSUME NEW i \in Ids \ broken
               PROVE  FloorOf(i)'
    BY <1>1 DEF FloorInv
  <2>1. ASSUME NEW u \in Tasks, Deciding(u, i) \/ Decided(u, i)
        PROVE  op'[u] = op[u] /\ (Deciding(u, i)' <=> Deciding(u, i))
                              /\ (Decided(u, i)' <=> Decided(u, i))
    <3>1. u # t
      BY <1>2, <2>1 DEF Deciding, Decided
    <3>. QED
      BY <1>4, <3>1 DEF Deciding, Decided, OthersStay
  <2>2. (Low(disk, i)' <=> Low(disk, i)) /\ FloorOf(i)
    BY <1>1 DEF Low, IInv, FloorInv
  <2>3. CASE owner = cur
    <3>1. Low(work, i)' <=> Low(disk, i)
      BY <1>1, <2>3 DEF Low
    <3>. QED
      BY <1>1, <2>1, <2>2, <2>3, <3>1 DEF FloorOf
  <2>4. CASE owner # cur
    <3>1. Low(work, i)' <=> Low(work, i)
      BY <1>1, <2>4 DEF Low
    <3>. QED
      BY <1>1, <2>1, <2>2, <2>4, <3>1 DEF FloorOf
  <2>. QED
    BY <2>3, <2>4
<1>10. StoreInv'
  <2>1. \A u \in inserted : u \in Tasks /\ op'[u] = op[u]
    BY <1>2, <1>4 DEF TypeOK, OthersStay, IInv, StoreInv
  <2>. QED
    BY <1>1, <2>1 DEF IInv, StoreInv, IdsOf
<1>. QED
  BY <1>5, <1>6, <1>7, <1>8, <1>9, <1>10 DEF IInv

(* A store reads the versions there are.                                   *)
LEMMA ReadVersionStep ==
  ASSUME IInv, NEW t \in Tasks, ReadVersion(t)
  PROVE  IInv'
<1> DEFINE c == op[t].conn
           x == op[t].topic
           same == {r \in Seen(c).rows : r.version > 0 /\ r.topic = x}
           versions == {r.version : r \in same}
           latest == Largest(versions)
           overlaps == \/ owner \notin {None, c}
                       \/ \E u \in Tasks : op[u].at = "embed" /\ op[u].topic = x
           new == [op[t] EXCEPT !.at = "embed", !.version = latest + 1]
<1>1. /\ op[t].at = "start" /\ op[t].kind = "store" /\ c \in opened /\ latest < MaxRowid
      /\ raced' = IF overlaps THEN raced \cup {x} ELSE raced
  BY DEF ReadVersion
<1>2. /\ disk' = disk /\ work' = work /\ owner' = owner /\ inserted' = inserted /\ stored' = stored
      /\ disturbed' = disturbed /\ opened' = opened /\ cur' = cur /\ fts' = fts
      /\ broken' = broken /\ calls' = calls /\ faults' = faults
  BY DEF ReadVersion, rows, connection, counted
<1>3. TypeOK /\ OpOf(t) /\ op[t] \in Operations /\ c # None
  BY <1>1, NoneAssumption, OpType DEF IInv, OpInv, TypeOK, None
<1>4. /\ x \in Topics /\ op[t].id \in Ids /\ work \in Views /\ disk \in Views
      /\ Seen(c) \in Views
  BY <1>1, <1>3 DEF OpOf, TypeOK, Seen
<1>5. versions \in SUBSET (0..MaxRowid)
  BY <1>4, ViewFacts
<1>6. MaxRowid \in Nat
  BY BoundAssumption
<1>7. latest \in 0..MaxRowid /\ \A r \in same : r.version <= latest
  <2>1. latest \in 0..MaxRowid /\ \A y \in versions : y <= latest
    <3> HIDE DEF versions
    <3>1. versions \in SUBSET Int /\ \A y \in versions : y <= MaxRowid
      BY <1>5, <1>6
    <3>. QED
      BY <1>6, <3>1, LargestFacts
  <2>. QED
    BY <2>1
<1>8. op' = [op EXCEPT ![t] = new]
  <2>1. op' = [op EXCEPT ![t].at = "embed", ![t].version = latest + 1]
    BY DEF ReadVersion
  <2> HIDE DEF latest
  <2>. QED
    BY <1>3, <2>1 DEF TypeOK
<1>9. /\ new \in Operations /\ new.at = "embed" /\ new.version = latest + 1
      /\ new.kind = op[t].kind /\ new.id = op[t].id /\ new.topic = x /\ new.conn = c
  <2>1. latest + 1 \in 0..MaxRowid
    BY <1>1, <1>6, <1>7
  <2> HIDE DEF latest
  <2>. QED
    BY <1>3, <2>1 DEF Operations, Places
<1> HIDE DEF new, latest
<1>10. op'[t] = new /\ OthersStay(t) /\ op' \in [Tasks -> Operations \cup {Idle}]
  BY <1>3, <1>8, <1>9 DEF OthersStay, TypeOK
<1>11. TypeOK'
  <2>1. raced' \subseteq Topics
    BY <1>1, <1>3, <1>4 DEF TypeOK
  <2>. QED
    BY <1>2, <1>3, <1>10, <2>1 DEF TypeOK
<1>12. OpInv'
  <2>1. OpOf(t)'
    BY <1>1, <1>4, <1>9, <1>10 DEF OpOf
  <2>. QED
    BY <1>10, <2>1 DEF IInv, OpInv, OpOf, OthersStay
<1>13. IndexInv' /\ Unique(disk)' /\ Unique(work)'
  BY <1>1, <1>2 DEF IInv, IndexInv, InSyncUndisturbed, InSync, Unique
<1>14. EmbedInv'
  <2> SUFFICES ASSUME NEW u \in Tasks, op'[u].at = "embed", op'[u].conn \in opened,
                      op'[u].topic \notin raced'
               PROVE  /\ Above(work, u)'
                      /\ owner # op'[u].conn => Above(disk, u)'
                      /\ \A w \in Tasks : op'[w].at = "embed" /\ op'[w].topic = op'[u].topic => w = u
    BY <1>2 DEF EmbedInv
  <2>1. CASE u = t
    <3>1. ~overlaps
      BY <1>1, <1>9, <1>10, <2>1
    <3>2. Seen(c) = work /\ (owner # c => disk = work)
      BY <1>3, <3>1 DEF Seen, TypeOK
    <3>3. \A r \in work.rows : r.version > 0 /\ r.topic = x => r.version < latest + 1
      <4> SUFFICES ASSUME NEW r \in work.rows, r.version > 0, r.topic = x
                   PROVE  r.version < latest + 1
        OBVIOUS
      <4>1. r \in same /\ r.version \in 0..MaxRowid
        BY <1>4, <3>2, ViewFacts
      <4>. QED
        BY <1>6, <1>7, <4>1
    <3>4. \A w \in Tasks \ {t} : ~(op'[w].at = "embed" /\ op'[w].topic = x)
      BY <1>10, <3>1 DEF OthersStay
    <3>. QED
      BY <1>2, <1>9, <1>10, <2>1, <3>2, <3>3, <3>4 DEF Above
  <2>2. CASE u # t
    <3>1. op'[u] = op[u] /\ op[u].topic \notin raced
      BY <1>1, <1>10, <2>2 DEF OthersStay
    <3>2. op[u].topic # x
      BY <1>1, <3>1
    <3>. QED
      BY <1>2, <1>9, <1>10, <3>1, <3>2 DEF IInv, EmbedInv, Above, OthersStay
  <2>. QED
    BY <2>1, <2>2
<1>15. FloorInv'
  <2> SUFFICES ASSUME NEW i \in Ids \ broken
               PROVE  FloorOf(i)'
    BY <1>2 DEF FloorInv
  <2>1. ASSUME NEW u \in Tasks, Deciding(u, i) \/ Decided(u, i)
        PROVE  op'[u] = op[u] /\ (Deciding(u, i)' <=> Deciding(u, i))
                              /\ (Decided(u, i)' <=> Decided(u, i))
    <3>1. u # t
      BY <1>1, <2>1 DEF Deciding, Decided
    <3>. QED
      BY <1>10, <3>1 DEF Deciding, Decided, OthersStay
  <2>2. (Low(work, i)' <=> Low(work, i)) /\ (Low(disk, i)' <=> Low(disk, i)) /\ FloorOf(i)
    BY <1>2 DEF Low, IInv, FloorInv
  <2>. QED
    BY <1>2, <2>1, <2>2 DEF FloorOf
<1>16. StoreInv'
  <2>1. \A u \in inserted : u \in Tasks /\ op'[u] = op[u]
    BY <1>1, <1>3, <1>10 DEF TypeOK, OthersStay, IInv, StoreInv
  <2>. QED
    BY <1>2, <2>1 DEF IInv, StoreInv, IdsOf
<1>. QED
  BY <1>11, <1>12, <1>13, <1>14, <1>15, <1>16 DEF IInv

-----------------------------------------------------------------------------
(* A write keeps what the other stores have read, unless it brings a new   *)
(* version of their skill ...                                              *)
LEMMA EmbedWrite ==
  ASSUME IInv, NEW t \in Tasks, OthersStay(t), opened' = opened, raced' = raced, disk' = disk,
         owner \in {None, op[t].conn}, owner' = op[t].conn, op'[t].at # "embed",
         \A r \in work'.rows :
             r.version > 0 =>
                 \/ \E s \in work.rows : s.topic = r.topic /\ s.version = r.version
                 \/ op[t].at = "embed" /\ r.topic = op[t].topic
  PROVE  EmbedInv'
<1> SUFFICES ASSUME NEW u \in Tasks, op'[u].at = "embed", op'[u].conn \in opened,
                    op'[u].topic \notin raced
             PROVE  /\ Above(work, u)'
                    /\ owner' # op'[u].conn => Above(disk, u)'
                    /\ \A w \in Tasks : op'[w].at = "embed" /\ op'[w].topic = op'[u].topic => w = u
  BY DEF EmbedInv
<1>1. u # t /\ op'[u] = op[u] /\ op[u].conn # None
  BY NoneAssumption DEF OthersStay, IInv, TypeOK, None
<1>2. /\ Above(work, u) /\ (owner # op[u].conn => Above(disk, u))
      /\ \A w \in Tasks : op[w].at = "embed" /\ op[w].topic = op[u].topic => w = u
  BY <1>1 DEF IInv, EmbedInv
<1>3. Above(work, u)'
  <2> SUFFICES ASSUME NEW r \in work'.rows, r.version > 0, r.topic = op[u].topic
               PROVE  r.version < op[u].version
    BY <1>1 DEF Above
  <2>1. ~(op[t].at = "embed" /\ r.topic = op[t].topic)
    BY <1>1, <1>2
  <2>2. PICK s \in work.rows : s.topic = r.topic /\ s.version = r.version
    BY <2>1
  <2>. QED
    BY <1>2, <2>2 DEF Above
<1>4. owner' # op'[u].conn => Above(disk, u)'
  BY <1>1, <1>2 DEF Above
<1>5. \A w \in Tasks : op'[w].at = "embed" => op'[w] = op[w]
  BY DEF OthersStay
<1>. QED
  BY <1>1, <1>2, <1>3, <1>4, <1>5

(* ... and what decided updates have deleted, unless it puts a row below   *)
(* the floor: then an update is about to decide.                           *)
LEMMA FloorWrite ==
  ASSUME IInv, NEW t \in Tasks, OthersStay(t), opened' = opened, broken' = broken, disk' = disk,
         owner \in {None, op[t].conn}, owner' = op[t].conn, op[t].at # "commit",
         \A i \in Ids : Low(work, i)' => Low(work, i) \/ Deciding(t, i)',
         \A i \in Ids : Deciding(t, i) => ~Low(work, i)' /\ Decided(t, i)' /\ op'[t].conn = op[t].conn
  PROVE  FloorInv'
<1> SUFFICES ASSUME NEW i \in Ids \ broken
             PROVE  FloorOf(i)'
  BY DEF FloorInv
<1>1. FloorOf(i) /\ (Low(disk, i)' <=> Low(disk, i))
  BY DEF IInv, FloorInv, Low
<1>2. ASSUME NEW u \in Tasks \ {t}
      PROVE  op'[u] = op[u] /\ (Deciding(u, i)' <=> Deciding(u, i)) /\ (Decided(u, i)' <=> Decided(u, i))
  BY DEF OthersStay, Deciding, Decided
<1>3. ~Decided(t, i)
  BY DEF Decided
<1>4. Low(work, i)' => \E u \in Tasks : Deciding(u, i)' \/ (Decided(u, i)' /\ op'[u].conn \notin opened)
  <2>1. CASE Deciding(t, i)'
    BY <2>1
  <2>2. CASE ~Deciding(t, i)' /\ Low(work, i)'
    <3>1. Low(work, i) /\ ~Deciding(t, i)
      BY <2>2
    <3>2. PICK u \in Tasks : Deciding(u, i) \/ (Decided(u, i) /\ op[u].conn \notin opened)
      BY <1>1, <3>1 DEF FloorOf
    <3>3. u \in Tasks \ {t}
      BY <1>3, <3>1, <3>2
    <3>. QED
      BY <1>2, <3>2, <3>3
  <2>. QED
    BY <2>1, <2>2
<1>5. Low(disk, i) => \E u \in Tasks : \/ Deciding(u, i)'
                                       \/ Decided(u, i)' /\ op'[u].conn \notin opened \ {owner'}
  <2> SUFFICES ASSUME Low(disk, i)
               PROVE  \E u \in Tasks : \/ Deciding(u, i)'
                                       \/ Decided(u, i)' /\ op'[u].conn \notin opened \ {owner'}
    OBVIOUS
  <2>1. PICK u \in Tasks : Deciding(u, i) \/ (Decided(u, i) /\ op[u].conn \notin opened \ {owner})
    BY <1>1 DEF FloorOf
  <2>2. op[u].conn \notin opened \ {owner} => op[u].conn \notin opened \ {owner'}
    BY NoneAssumption DEF IInv, TypeOK, None
  <2>3. CASE u = t
    BY <1>3, <2>1, <2>3
  <2>4. CASE u # t
    BY <1>2, <2>1, <2>2, <2>4
  <2>. QED
    BY <2>3, <2>4
<1>. QED
  BY <1>1, <1>4, <1>5 DEF FloorOf

(* Rows leave the table, or none: the touch after a recall, forget, prune  *)
(* and the end of update_reliability.                                      *)
LEMMA RemoveKeeps ==
  ASSUME IInv, NEW t \in Tasks, NEW gone \in SUBSET work.rows,
         op[t].at \in {"start", "touch", "floor"}, ToCommit(t),
         op[t].conn \in opened, owner \in {None, op[t].conn}, owner' = op[t].conn, disk' = disk,
         work' \in Views, work'.rows = work.rows \ gone,
         work'.index = work.index, work'.triggers = work.triggers,
         op[t].at = "floor" => gone = {r \in work.rows : r.id = op[t].id /\ r.rel = 0},
         disturbed' \in BOOLEAN, ~disturbed' => ~disturbed /\ gone = {},
         stored' = stored \ {r.id : r \in gone},
         inserted' = {u \in inserted : \A r \in gone : op[u].id # r.id},
         UNCHANGED <<raced, connection, counted>>
  PROVE  IInv'
<1>1. /\ opened' = opened /\ cur' = cur /\ fts' = fts /\ raced' = raced
      /\ broken' = broken /\ calls' = calls /\ faults' = faults
  BY DEF connection, counted
<1>2. TypeOK /\ OpOf(t) /\ op[t] \in Operations /\ op[t].conn \in Conns /\ op[t].conn # None
  BY NoneAssumption, OpType DEF IInv, OpInv, TypeOK, None
<1>3. /\ op' \in [Tasks -> Operations \cup {Idle}] /\ OthersStay(t)
      /\ op'[t].at = "commit" /\ op'[t].conn = op[t].conn
      /\ op[t].kind = "reliability" => op'[t].kind = op[t].kind /\ op'[t].id = op[t].id
      /\ op'[t].kind = "reliability" => op[t].kind = "reliability"
  BY <1>2, ToCommitFacts
<1>4. TypeOK'
  <2>1. stored' \subseteq Ids /\ inserted' \subseteq Tasks
    BY <1>2 DEF TypeOK
  <2>. QED
    BY <1>1, <1>2, <1>3, <2>1 DEF TypeOK
<1>5. OpInv'
  <2>1. OpOf(t)'
    BY <1>2, <1>3 DEF OpOf
  <2>. QED
    BY <1>3, <2>1 DEF IInv, OpInv, OpOf, OthersStay
<1>6. IndexInv'
  <2>1. ~disturbed' => work'.rows = work.rows
    OBVIOUS
  <2>. QED
    BY <2>1 DEF IInv, IndexInv, InSyncUndisturbed, InSync
<1>7. Unique(disk)' /\ Unique(work)'
  BY <1>1 DEF IInv, Unique
<1>8. EmbedInv'
  BY <1>1, <1>3, EmbedWrite
<1>9. FloorInv'
  <2>1. \A i \in Ids : Low(work, i)' => Low(work, i)
    BY DEF Low
  <2>2. ASSUME NEW i \in Ids, Deciding(t, i)
        PROVE  ~Low(work, i)' /\ Decided(t, i)'
    BY <1>2, <1>3, <2>2 DEF Deciding, Decided, Low, OpOf
  <2>. QED
    BY <1>1, <1>3, <2>1, <2>2, FloorWrite
<1>10. StoreInv'
  <2>1. stored' \subseteq IdsOf(disk)' /\ stored' \subseteq IdsOf(work)'
    BY DEF IInv, StoreInv, IdsOf
  <2>2. ASSUME NEW u \in inserted'
        PROVE  /\ op'[u].at = "commit" /\ op'[u].id \in Ids
               /\ op'[u].conn \in opened =>
                     /\ op'[u].id \in IdsOf(work)'
                     /\ owner' # op'[u].conn => op'[u].id \in IdsOf(disk)'
    <3>1. /\ u \in inserted /\ op[u].at = "commit" /\ op[u].id \in Ids
          /\ op[u].conn \in opened => op[u].id \in IdsOf(work)
                                      /\ (owner # op[u].conn => op[u].id \in IdsOf(disk))
      BY DEF IInv, StoreInv
    <3>2. op'[u] = op[u] /\ \A r \in gone : op[u].id # r.id
      BY <1>2, <1>3, <3>1 DEF TypeOK, OthersStay
    <3>3. op[u].conn \in opened => op[u].conn # None
      BY NoneAssumption DEF IInv, TypeOK, None
    <3>. QED
      BY <3>1, <3>2, <3>3 DEF IdsOf
  <2>. QED
    BY <1>1, <2>1, <2>2 DEF StoreInv
<1>. QED
  BY <1>4, <1>5, <1>6, <1>7, <1>8, <1>9, <1>10 DEF IInv

LEMMA TouchStep ==
  ASSUME IInv, NEW t \in Tasks, Touch(t)
  PROVE  IInv'
<1> DEFINE none == {}
<1>1. /\ op[t].at = "touch" /\ Write(op[t].conn, Seen(op[t].conn)) /\ ToCommit(t)
      /\ inserted' = inserted /\ stored' = stored /\ disturbed' = disturbed
      /\ UNCHANGED <<raced, connection, counted>> /\ TypeOK
  BY DEF Touch, connection, counted, IInv
<1>2. /\ op[t].conn \in opened /\ owner \in {None, op[t].conn} /\ owner' = op[t].conn
      /\ disk' = disk /\ work' = work /\ work \in Views
  BY <1>1, WriteFacts
<1>3. /\ none \in SUBSET work.rows /\ work'.rows = work.rows \ none
      /\ stored' = stored \ {r.id : r \in none}
      /\ inserted' = {u \in inserted : \A r \in none : op[u].id # r.id}
      /\ disturbed' \in BOOLEAN /\ (~disturbed' => ~disturbed /\ none = {})
  BY <1>1, <1>2 DEF TypeOK
<1> HIDE DEF none
<1>. QED
  BY <1>1, <1>2, <1>3, RemoveKeeps

LEMMA RemoveStep ==
  ASSUME IInv, NEW t \in Tasks, NEW gone \in SUBSET Seen(op[t].conn).rows,
         op[t].at \in {"start", "floor"},
         op[t].at = "floor" => gone = {r \in Seen(op[t].conn).rows : r.id = op[t].id /\ r.rel = 0},
         Remove(t, gone), ToCommit(t)
  PROVE  IInv'
<1> DEFINE v == Seen(op[t].conn)
           left == [v EXCEPT !.rows = @ \ gone]
<1>1. /\ Write(op[t].conn, left) /\ TypeOK
      /\ disturbed' = (disturbed \/ gone # {})
      /\ stored' = stored \ {r.id : r \in gone}
      /\ inserted' = {u \in inserted : \A r \in gone : op[u].id # r.id}
      /\ UNCHANGED <<raced, connection, counted>>
  BY DEF Remove, IInv
<1>2. /\ op[t].conn \in opened /\ owner \in {None, op[t].conn} /\ owner' = op[t].conn
      /\ disk' = disk /\ work' = left /\ v = work /\ work \in Views
  <2> HIDE DEF left
  <2>. QED
    BY <1>1, WriteFacts
<1>3. /\ work' \in Views /\ work'.rows = work.rows \ gone
      /\ work'.index = work.index /\ work'.triggers = work.triggers
  <2>1. work.rows \ gone \in SUBSET Rows
    BY <1>2, ViewFacts
  <2>2. work' = [work EXCEPT !.rows = work.rows \ gone]
    BY <1>2
  <2>. QED
    BY <1>2, <2>1, <2>2, RowsChange
<1>4. disturbed' \in BOOLEAN /\ (~disturbed' => ~disturbed /\ gone = {})
  BY <1>1 DEF TypeOK
<1> HIDE DEF v, left
<1>5. gone \in SUBSET work.rows /\ (op[t].at = "floor" => gone = {r \in work.rows : r.id = op[t].id /\ r.rel = 0})
  BY <1>2 DEF v
<1>. QED
  BY <1>1, <1>2, <1>3, <1>4, <1>5, RemoveKeeps

LEMMA RemoveSteps ==
  ASSUME IInv, NEW t \in Tasks, Forget(t) \/ Prune(t) \/ Floor(t)
  PROVE  IInv'
<1>1. CASE Forget(t)
  <2> DEFINE gone == {r \in Seen(op[t].conn).rows : r.id = op[t].id}
  <2>1. /\ op[t].at = "start" /\ Remove(t, gone) /\ ToCommit(t)
        /\ gone \in SUBSET Seen(op[t].conn).rows
    BY <1>1 DEF Forget
  <2> HIDE DEF gone
  <2>. QED
    BY <2>1, RemoveStep
<1>2. CASE Prune(t)
  BY <1>2, RemoveStep DEF Prune
<1>3. CASE Floor(t)
  <2> DEFINE gone == {r \in Seen(op[t].conn).rows : r.id = op[t].id /\ r.rel = 0}
  <2>1. /\ op[t].at = "floor" /\ Remove(t, gone) /\ ToCommit(t)
        /\ gone \in SUBSET Seen(op[t].conn).rows
    BY <1>3 DEF Floor
  <2>2. gone = {r \in Seen(op[t].conn).rows : r.id = op[t].id /\ r.rel = 0}
    OBVIOUS
  <2> HIDE DEF gone
  <2>. QED
    BY <2>1, <2>2, RemoveStep
<1>. QED
  BY <1>1, <1>2, <1>3

-----------------------------------------------------------------------------
(* update_reliability lowers the row, and is about to look at it.          *)
LEMMA DecayStep ==
  ASSUME IInv, NEW t \in Tasks, Decay(t)
  PROVE  IInv'
<1> DEFINE v == Seen(op[t].conn)
           Hit(u) == {r \in u.rows : r.id = op[t].id}
           Lower(r) == [r EXCEPT !.rel = Largest({@ - 1})]
           Lowered(u) == (u.rows \ Hit(u)) \cup {Lower(r) : r \in Hit(u)}
           new == [v EXCEPT !.rows = Lowered(v)]
<1>1. /\ op[t].at = "decay" /\ Write(op[t].conn, new) /\ Goto(t, "floor")
      /\ inserted' = inserted /\ stored' = stored /\ raced' = raced /\ disturbed' = disturbed
      /\ opened' = opened /\ cur' = cur /\ fts' = fts
      /\ broken' = broken /\ calls' = calls /\ faults' = faults
  BY DEF Decay, connection, counted
<1>2. TypeOK /\ OpOf(t) /\ op[t] \in Operations /\ "floor" \in Places
  BY <1>1, OpType DEF IInv, OpInv, Places
<1>3. /\ op[t].conn \in opened /\ op[t].conn # None /\ op[t].conn \in Conns
      /\ owner \in {None, op[t].conn} /\ owner' = op[t].conn
      /\ disk' = disk /\ work' = new /\ v = work /\ work \in Views /\ disk \in Views
  <2> HIDE DEF new
  <2>. QED
    BY <1>1, <1>2, WriteFacts
<1>4. /\ op' \in [Tasks -> Operations \cup {Idle}] /\ OthersStay(t)
      /\ op'[t].at = "floor" /\ op'[t].kind = op[t].kind /\ op'[t].id = op[t].id
      /\ op'[t].conn = op[t].conn
  BY <1>1, <1>2, GotoFacts
<1>5. ASSUME NEW r \in work.rows
      PROVE  /\ Lower(r) \in Rows /\ Lower(r).id = r.id /\ Lower(r).rowid = r.rowid
             /\ Lower(r).topic = r.topic /\ Lower(r).version = r.version
  <2>1. r \in Rows /\ r.rel \in 0..MaxRel
    BY <1>3, ViewFacts
  <2>2. Largest({r.rel - 1}) \in 0..MaxRel
    <3>1. {r.rel - 1} \in SUBSET Int /\ (\A x \in {r.rel - 1} : x <= MaxRel) /\ MaxRel \in Nat
      BY <2>1, BoundAssumption
    <3>. QED
      BY <3>1, LargestFacts
  <2>3. Lower(r) = [r EXCEPT !.rel = Largest({r.rel - 1})]
    BY <2>1 DEF Rows
  <2>. QED
    BY <2>1, <2>2, <2>3 DEF Rows
<1> HIDE DEF Lower
<1>6. /\ work'.rows = Lowered(work) /\ work' \in Views
      /\ work'.index = work.index /\ work'.triggers = work.triggers
  <2>1. Lowered(work) \in SUBSET Rows
    BY <1>3, <1>5, ViewFacts
  <2>2. work' = [work EXCEPT !.rows = Lowered(work)]
    BY <1>3
  <2> HIDE DEF Lowered
  <2>. QED
    BY <1>3, <2>1, <2>2, RowsChange
<1>7. ASSUME NEW r \in work'.rows
      PROVE  \E s \in work.rows :
                /\ r.id = s.id /\ r.rowid = s.rowid /\ r.topic = s.topic /\ r.version = s.version
                /\ r = s \/ (s.id = op[t].id /\ r = Lower(s))
  BY <1>5, <1>6
<1>8. ASSUME NEW s \in work.rows
      PROVE  \E r \in work'.rows :
                r.id = s.id /\ r.rowid = s.rowid /\ r.topic = s.topic /\ r.version = s.version
  <2>1. CASE s.id = op[t].id
    BY <1>5, <1>6, <2>1
  <2>2. CASE s.id # op[t].id
    BY <1>6, <2>2
  <2>. QED
    BY <2>1, <2>2
<1>9. Unique(work)' /\ Unique(disk)'
  <2> SUFFICES ASSUME NEW r \in work'.rows, NEW s \in work'.rows, SameVersion(r, s), r # s
               PROVE  r.topic \in raced
    BY <1>1, <1>3 DEF Unique, IInv
  <2>1. PICK q \in work.rows : /\ r.topic = q.topic /\ r.version = q.version
                               /\ (r = q /\ q.id # op[t].id) \/ (q.id = op[t].id /\ r = Lower(q))
    BY <1>5, <1>6
  <2>2. PICK p \in work.rows : /\ s.topic = p.topic /\ s.version = p.version
                               /\ (s = p /\ p.id # op[t].id) \/ (p.id = op[t].id /\ s = Lower(p))
    BY <1>5, <1>6
  <2>3. q # p /\ SameVersion(q, p)
    BY <2>1, <2>2 DEF SameVersion
  <2>. QED
    BY <2>1, <2>3 DEF IInv, Unique
<1> HIDE DEF Lowered, Hit, v, new
<1>10. TypeOK'
  BY <1>1, <1>2, <1>3, <1>4, <1>6 DEF TypeOK
<1>11. OpInv'
  <2>1. OpOf(t)'
    BY <1>1, <1>2, <1>4 DEF OpOf
  <2>. QED
    BY <1>4, <2>1 DEF IInv, OpInv, OpOf, OthersStay
<1>12. IndexInv'
  <2>1. {[rowid |-> r.rowid, topic |-> r.topic] : r \in work'.rows} =
        {[rowid |-> r.rowid, topic |-> r.topic] : r \in work.rows}
    BY <1>7, <1>8
  <2>2. InSync(work) => InSync(work)'
    BY <1>6, <2>1 DEF InSync
  <2>. QED
    BY <1>1, <1>3, <1>6, <2>2 DEF IInv, IndexInv, InSyncUndisturbed, InSync
<1>13. EmbedInv'
  BY <1>1, <1>3, <1>4, <1>7, EmbedWrite
<1>14. FloorInv'
  <2>1. ASSUME NEW i \in Ids, Low(work, i)'
        PROVE  Low(work, i) \/ Deciding(t, i)'
    BY <1>4, <1>7, <2>1 DEF Low, Deciding
  <2>. QED
    BY <1>1, <1>3, <1>4, <2>1, FloorWrite DEF Deciding
<1>15. StoreInv'
  <2>1. IdsOf(work)' = IdsOf(work) /\ IdsOf(disk)' = IdsOf(disk)
    BY <1>3, <1>7, <1>8 DEF IdsOf
  <2>2. \A u \in inserted : u \in Tasks /\ op'[u] = op[u] /\ (op[u].conn \in opened => op[u].conn # None)
    BY <1>1, <1>2, <1>4, NoneAssumption DEF TypeOK, OthersStay, IInv, StoreInv, None
  <2>. QED
    BY <1>1, <1>3, <2>1, <2>2 DEF IInv, StoreInv
<1>. QED
  BY <1>9, <1>10, <1>11, <1>12, <1>13, <1>14, <1>15 DEF IInv

(* A row is inserted: of a version above all others of its skill, and if   *)
(* index and table agree, under the row id they both are to give next.     *)
LEMMA InsertStep ==
  ASSUME IInv, NEW t \in Tasks, Insert(t)
  PROVE  IInv'
<1> DEFINE c == op[t].conn
           v == Seen(c)
           Old(u) == {r \in u.rows : r.id = op[t].id}
           Rowid(u) == Largest({r.rowid : r \in u.rows}) + 1
           Entry(u) == Largest({e.rowid : e \in u.index}) + 1
           Row(u, rel) == [id |-> op[t].id, rowid |-> Rowid(u), topic |-> op[t].topic,
                           rel |-> rel, version |-> op[t].version]
           Index2(u) == u.index \cup IF u.triggers
                                     THEN {[rowid |-> Entry(u), topic |-> op[t].topic]} ELSE {}
           Rows2(u, rel) == (u.rows \ Old(u)) \cup {Row(u, rel)}
           New(u, rel) == [u EXCEPT !.rows = Rows2(u, rel), !.index = Index2(u)]
<1>1. /\ \/ op[t].at = "embed"
         \/ op[t].at = "start" /\ op[t].kind = "store" /\ ~op[t].skill
      /\ Rowid(v) <= MaxRowid /\ Entry(v) <= MaxRowid
      /\ disturbed' = (disturbed \/ Old(v) # {})
      /\ inserted' = inserted \cup {t} /\ ToCommit(t)
      /\ stored' = stored /\ raced' = raced
      /\ opened' = opened /\ cur' = cur /\ fts' = fts
      /\ broken' = broken /\ calls' = calls /\ faults' = faults
  BY DEF Insert, connection, counted
<1>2. PICK rel \in 1..MaxRel : Write(c, New(v, rel))
  BY DEF Insert
<1>3. TypeOK /\ OpOf(t) /\ op[t] \in Operations
  BY <1>1, OpType DEF IInv, OpInv
<1>4. /\ c \in opened /\ c # None /\ c \in Conns /\ owner \in {None, c} /\ owner' = c
      /\ disk' = disk /\ work' = New(v, rel) /\ v = work /\ work \in Views /\ disk \in Views
  <2> HIDE DEF New
  <2>. QED
    BY <1>2, <1>3, WriteFacts
<1>5. /\ op[t].kind = "store" /\ op[t].id \in Ids /\ op[t].topic \in Topics
      /\ op[t].version \in 0..MaxRowid /\ (op[t].at = "start" => op[t].version = 0)
  BY <1>1, <1>3 DEF OpOf, Operations
<1>6. /\ op' \in [Tasks -> Operations \cup {Idle}] /\ OthersStay(t)
      /\ op'[t].at = "commit" /\ op'[t].conn = c /\ op'[t].kind = "store" /\ op'[t].id = op[t].id
  BY <1>1, <1>3, <1>5, ToCommitFacts
<1>7. MaxRowid \in Nat /\ MaxRel \in Nat
  BY BoundAssumption
<1>8. Rowid(work) \in 1..MaxRowid
  <2> DEFINE S == {r.rowid : r \in work.rows}
  <2>1. S \in SUBSET Int /\ \A x \in S : x <= MaxRowid
    BY <1>4, <1>7, ViewFacts
  <2> HIDE DEF S
  <2>2. Largest(S) \in 0..MaxRowid
    BY <1>7, <2>1, LargestFacts
  <2>3. Largest(S) + 1 <= MaxRowid
    BY <1>1, <1>4 DEF S
  <2>. QED
    BY <1>7, <2>2, <2>3 DEF S
<1>9. Entry(work) \in 1..MaxRowid
  <2> DEFINE S == {e.rowid : e \in work.index}
  <2>1. S \in SUBSET Int /\ \A x \in S : x <= MaxRowid
    BY <1>4, <1>7, ViewFacts
  <2> HIDE DEF S
  <2>2. Largest(S) \in 0..MaxRowid
    BY <1>7, <2>1, LargestFacts
  <2>3. Largest(S) + 1 <= MaxRowid
    BY <1>1, <1>4 DEF S
  <2>. QED
    BY <1>7, <2>2, <2>3 DEF S
<1>10. InSync(work) => Rowid(work) = Entry(work)
  <2> SUFFICES ASSUME InSync(work) PROVE {r.rowid : r \in work.rows} = {e.rowid : e \in work.index}
    OBVIOUS
  <2>1. ASSUME NEW r \in work.rows
        PROVE  \E e \in work.index : e.rowid = r.rowid
    <3>1. [rowid |-> r.rowid, topic |-> r.topic] \in work.index
      BY DEF InSync
    <3>. QED
      BY <3>1
  <2>2. ASSUME NEW e \in work.index
        PROVE  \E r \in work.rows : e.rowid = r.rowid
    BY DEF InSync
  <2>. QED
    BY <2>1, <2>2
<1> DEFINE row == Row(work, rel)
           rowid == Rowid(work)
           entry == Entry(work)
<1>11. /\ row \in Rows /\ row.id = op[t].id /\ row.rowid = rowid /\ row.topic = op[t].topic
       /\ row.rel = rel /\ row.version = op[t].version
  <2> HIDE DEF Rowid
  <2>. QED
    BY <1>5, <1>7, <1>8 DEF Rows
<1>12. /\ work' \in Views /\ work'.rows = (work.rows \ Old(work)) \cup {row}
       /\ work'.index = Index2(work) /\ work'.triggers = work.triggers
  <2>1. Rows2(work, rel) \in SUBSET Rows
    <3> HIDE DEF Row
    <3>. QED
      BY <1>4, <1>11, ViewFacts
  <2>2. Index2(work) \in SUBSET Entries
    <3> HIDE DEF Entry
    <3>1. [rowid |-> entry, topic |-> op[t].topic] \in Entries
      BY <1>5, <1>9 DEF Entries
    <3>. QED
      BY <1>4, <3>1, ViewFacts
  <2>3. work' = [work EXCEPT !.rows = Rows2(work, rel), !.index = Index2(work)]
    BY <1>4
  <2> DEFINE R == Rows2(work, rel)
             I == Index2(work)
  <2> HIDE DEF R, I
  <2>4. /\ R \in SUBSET Rows /\ I \in SUBSET Entries
        /\ work' = [work EXCEPT !.rows = R, !.index = I] /\ work \in Views
    BY <1>4, <2>1, <2>2, <2>3 DEF R, I
  <2> DEFINE view == [work EXCEPT !.rows = R, !.index = I]
  <2>5. view \in Views /\ view.rows = R /\ view.index = I /\ view.triggers = work.triggers
    BY <2>4 DEF Views
  <2>6. work' = view
    BY <2>4
  <2> HIDE DEF view
  <2>. QED
    BY <2>5, <2>6 DEF R, I
<1>13. disturbed' \in BOOLEAN /\ (~disturbed' => ~disturbed /\ Old(work) = {})
  BY <1>1, <1>3, <1>4 DEF TypeOK
<1>14. work'.index = IF work.triggers THEN work.index \cup {[rowid |-> entry, topic |-> op[t].topic]}
                     ELSE work.index
  BY <1>12
<1> HIDE DEF row, rowid, entry, Row, Rowid, Entry, New, Rows2, Index2, v
<1>15. TypeOK'
  <2>1. inserted' \subseteq Tasks
    BY <1>1, <1>3 DEF TypeOK
  <2>. QED
    BY <1>1, <1>3, <1>4, <1>6, <1>12, <1>13, <2>1 DEF TypeOK
<1>16. OpInv'
  <2>1. OpOf(t)'
    BY <1>6 DEF OpOf
  <2>. QED
    BY <1>6, <2>1 DEF IInv, OpInv, OpOf, OthersStay
<1>17. IndexInv'
  <2>1. work'.triggers = disk'.triggers /\ disk'.index = disk.index
    BY <1>4, <1>12 DEF IInv, IndexInv
  <2>2. disk'.triggers = FALSE => disk'.index = {} /\ work'.index = {}
    BY <1>4, <1>14 DEF IInv, IndexInv
  <2>3. ASSUME disk.triggers, ~disturbed'
        PROVE  InSync(disk)' /\ InSync(work)'
    <3>1. InSync(disk) /\ InSync(work) /\ work'.rows = work.rows \cup {row}
      BY <1>12, <1>13, <2>3 DEF IInv, IndexInv, InSyncUndisturbed
    <3>2. rowid = entry
      BY <1>10, <3>1 DEF rowid, entry
    <3>3. work'.index = work.index \cup {[rowid |-> rowid, topic |-> op[t].topic]}
      BY <1>14, <2>3, <3>2 DEF IInv, IndexInv
    <3>4. {[rowid |-> r.rowid, topic |-> r.topic] : r \in work.rows \cup {row}} =
          {[rowid |-> r.rowid, topic |-> r.topic] : r \in work.rows}
              \cup {[rowid |-> rowid, topic |-> op[t].topic]}
      BY <1>11
    <3>. QED
      BY <1>4, <3>1, <3>3, <3>4 DEF InSync
  <2>. QED
    BY <1>4, <2>1, <2>2, <2>3 DEF IndexInv, InSyncUndisturbed
<1>18. Unique(disk)' /\ Unique(work)'
  <2>1. ASSUME NEW r \in work.rows, SameVersion(row, r) \/ SameVersion(r, row), row.topic \notin raced
        PROVE  FALSE
    <3>1. op[t].at = "embed" /\ Above(work, t)
      BY <1>1, <1>4, <1>5, <1>11, <2>1 DEF IInv, EmbedInv, SameVersion
    <3>2. r.version < r.version /\ r.version \in 0..MaxRowid
      BY <1>4, <1>11, <2>1, <3>1, ViewFacts DEF Above, SameVersion
    <3>. QED
      BY <1>7, <3>2
  <2> SUFFICES ASSUME NEW r \in work'.rows, NEW s \in work'.rows, SameVersion(r, s), r # s
               PROVE  r.topic \in raced
    BY <1>1, <1>4 DEF Unique, IInv
  <2>2. r.topic = s.topic
    BY DEF SameVersion
  <2>3. CASE r = row \/ s = row
    BY <1>12, <2>1, <2>2, <2>3
  <2>4. CASE r # row /\ s # row
    BY <1>12, <2>4 DEF IInv, Unique
  <2>. QED
    BY <2>3, <2>4
<1>19. EmbedInv'
  <2>1. \A r \in work'.rows : r.version > 0 =>
            \/ \E s \in work.rows : s.topic = r.topic /\ s.version = r.version
            \/ op[t].at = "embed" /\ r.topic = op[t].topic
    BY <1>1, <1>5, <1>11, <1>12
  <2>. QED
    BY <1>1, <1>4, <1>6, <2>1, EmbedWrite
<1>20. FloorInv'
  <2>1. \A i \in Ids : Low(work, i)' => Low(work, i)
    BY <1>7, <1>11, <1>12 DEF Low
  <2>2. \A i \in Ids : ~Deciding(t, i)
    BY <1>1 DEF Deciding
  <2>. QED
    BY <1>1, <1>4, <1>6, <2>1, <2>2, FloorWrite
<1>21. StoreInv'
  <2>1. IdsOf(work) \subseteq IdsOf(work)' /\ IdsOf(disk)' = IdsOf(disk) /\ op[t].id \in IdsOf(work)'
    BY <1>4, <1>11, <1>12 DEF IdsOf
  <2>2. \A u \in inserted \ {t} :
           u \in Tasks /\ op'[u] = op[u] /\ (op[u].conn \in opened => op[u].conn # None)
    BY <1>3, <1>6, NoneAssumption DEF TypeOK, OthersStay, None
  <2>. QED
    BY <1>1, <1>4, <1>5, <1>6, <2>1, <2>2 DEF IInv, StoreInv
<1>. QED
  BY <1>15, <1>16, <1>17, <1>18, <1>19, <1>20, <1>21 DEF IInv

-----------------------------------------------------------------------------
LEMMA NextIInv == IInv /\ [Next]_vars => IInv'
<1> SUFFICES ASSUME IInv, [Next]_vars PROVE IInv'
  OBVIOUS
<1>1. ASSUME NEW t \in Tasks, NEW request \in Requests, Begin(t, request) PROVE IInv'
  BY <1>1, BeginStep
<1>2. ASSUME NEW t \in Tasks, Statement(t) PROVE IInv'
  BY <1>2, ConnectStep, SetupStep, ReadVersionStep, InsertStep, RecallSteps, TouchStep, RemoveSteps,
     DecayStep, CommitStep, CloseStep, UnsetStep DEF Statement
<1>3. ASSUME NEW t \in Tasks, Fail(t) PROVE IInv'
  BY <1>3, FailStep
<1>4. CASE Crash
  BY <1>4, CrashStep
<1>5. CASE UNCHANGED vars
  <2>1. /\ UNCHANGED <<disk, work, owner, opened, cur, fts, op, inserted, stored, raced, disturbed,
                       broken, calls, faults>>
    BY <1>5 DEF vars
  <2>2. TypeOK' /\ OpInv' /\ IndexInv' /\ Unique(disk)' /\ Unique(work)'
    BY <2>1 DEF IInv, TypeOK, OpInv, OpOf, IndexInv, InSyncUndisturbed, InSync, Unique
  <2>3. EmbedInv' /\ StoreInv'
    BY <2>1 DEF IInv, EmbedInv, Above, StoreInv, IdsOf
  <2>4. FloorInv'
    BY <2>1 DEF IInv, FloorInv, FloorOf, Low, Deciding, Decided
  <2>. QED
    BY <2>2, <2>3, <2>4 DEF IInv
<1>. QED
  BY <1>1, <1>2, <1>3, <1>4, <1>5 DEF Next

LEMMA AlwaysIInv == Spec => []IInv
  BY InitIInv, NextIInv, PTL DEF Spec

(* What any connection and any restart finds on disk agrees with itself,   *)
(* however statements of different operations mix in one transaction: the  *)
(* index with the undisturbed table, a version with its row unless stores  *)
(* of the skill overlapped, a row below the floor with an update that is   *)
(* running or did not complete.                                            *)
THEOREM DiskIsConsistent == Spec => []Consistent
<1>1. IInv => Consistent
  <2> SUFFICES ASSUME IInv PROVE Consistent
    OBVIOUS
  <2>1. VersionsUnique
    BY DEF IInv, Unique, SameVersion, VersionsUnique
  <2>2. FloorHolds
    <3> SUFFICES ASSUME NEW r \in disk.rows, r.rel = 0, r.id \notin broken
                 PROVE  \E t \in Tasks : r.id \in Unfinished(t)
      BY DEF FloorHolds
    <3>1. r.id \in Ids \ broken /\ Low(disk, r.id)
      BY ViewFacts DEF IInv, TypeOK, Low
    <3>2. PICK t \in Tasks : Deciding(t, r.id) \/ Decided(t, r.id)
      BY <3>1 DEF IInv, FloorInv, FloorOf
    <3>. QED
      BY <3>1, <3>2, UnfinishedFacts DEF IInv, OpInv
  <2>. QED
    BY <2>1, <2>2 DEF IInv, IndexInv, Consistent
<1>. QED
  BY <1>1, AlwaysIInv, PTL

(* A store that returned is on disk until its entry is removed: somebody   *)
(* committed its row, be it another task or the set up of the index, and   *)
(* no close or crash between takes it back.                                *)
THEOREM StoredStaysStored == Spec => []StoredIsDurable
<1>1. IInv => StoredIsDurable
  BY DEF IInv, StoreInv, StoredIsDurable
<1>. QED
  BY <1>1, AlwaysIInv, PTL
=============================================================================
