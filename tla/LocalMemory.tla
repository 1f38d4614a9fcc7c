---------------------------- MODULE LocalMemory ----------------------------
(***************************************************************************)
(* The SQLite memory store (orqest/memory/local.py): one lazily opened     *)
(* connection shared by all tasks of an event loop, and the full text      *)
(* index that triggers maintain.  Every awaited statement is a step of its *)
(* own, so statements of different operations mix in one transaction,      *)
(* whoever commits first commits them all, and a cancelled or failed       *)
(* operation leaves its part of the transaction open.                      *)
(*                                                                         *)
(* An entry is its id, a topic (the text it is found by, and the name if   *)
(* it is a skill), its reliability in steps of decay above the prune floor *)
(* and the version of a skill, 0 for anything else.                        *)
(***************************************************************************)
EXTENDS Integers, FiniteSets, FiniteSetsExt

CONSTANTS
    Tasks,      \* concurrent callers
    Ids,        \* entry ids
    Topics,     \* contents and skill names
    Conns,      \* bound: connections open at a time
    MaxRel,     \* failures until an entry falls below prune_below
    MaxRowid,   \* bound: row ids and versions
    MaxCalls,   \* bound: operations begun
    MaxFaults   \* bound: failed or cancelled operations and crashes

ASSUME NoneAssumption == "none" \notin Conns
ASSUME BoundAssumption == MaxRel \in Nat \ {0} /\ MaxRowid \in Nat \ {0}
                          /\ MaxCalls \in Nat /\ MaxFaults \in Nat

VARIABLES
    disk,      \* what is committed: table, index, whether the triggers exist
    work,      \* what the connection with an open transaction sees
    owner,     \* the connection with an open transaction: the write lock
    opened,    \* connections not closed
    cur,       \* self._db
    fts,       \* self._fts_available
    op,        \* per task: the operation it runs and its local variables
    inserted,  \* history: tasks in store whose row was inserted and not removed
    stored,    \* history: ids whose store returned and that were not removed
    raced,     \* history: skills whose version was read during another store
    disturbed, \* history: a row left the table, or was there before the index
    broken,    \* history: ids whose update_reliability did not complete
    calls,     \* history: how many operations began
    faults     \* history: how many faults there were

vars == <<disk, work, owner, opened, cur, fts, op, inserted, stored, raced, disturbed,
          broken, calls, faults>>
rows == <<disk, work, owner>>
database == <<rows, inserted, stored, raced, disturbed>>
connection == <<opened, cur, fts>>
counted == <<broken, calls, faults>>

None == "none"
Rows == [id : Ids, rowid : 1..MaxRowid, topic : Topics, rel : 0..MaxRel,
         version : 0..MaxRowid]
Entries == [rowid : 1..MaxRowid, topic : Topics]
Views == [rows : SUBSET Rows, index : SUBSET Entries, triggers : BOOLEAN]
Recalls == {"keyword", "embedding", "procedural"}
Kinds == Recalls \cup {"store", "forget", "reliability", "prune", "close"}
Places == {"connecting", "setup", "start", "embed", "ranking", "touch", "decay",
           "floor", "commit", "closed"}
Idle == [at |-> "idle"]
Operations == [at : Places, kind : Kinds, conn : Conns \cup {None},
               id : Ids \cup {None}, topic : Topics \cup {None},
               skill : BOOLEAN, version : 0..MaxRowid]

TypeOK ==
    /\ disk \in Views /\ work \in Views
    /\ owner \in Conns \cup {None}
    /\ owner = None => work = disk
    /\ opened \subseteq Conns
    /\ cur \in Conns \cup {None}
    /\ fts \in BOOLEAN
    /\ op \in [Tasks -> Operations \cup {Idle}]
    /\ inserted \subseteq Tasks /\ stored \subseteq Ids /\ raced \subseteq Topics
    /\ disturbed \in BOOLEAN /\ broken \subseteq Ids
    /\ calls \in 0..MaxCalls /\ faults \in 0..MaxFaults

NewFile == [rows |-> {}, index |-> {}, triggers |-> FALSE]

Init ==
    /\ disk = NewFile /\ work = NewFile /\ owner = None
    /\ opened = {} /\ cur = None /\ fts = FALSE
    /\ op = [t \in Tasks |-> Idle]
    /\ inserted = {} /\ stored = {} /\ raced = {} /\ disturbed = FALSE
    /\ broken = {} /\ calls = 0 /\ faults = 0

Goto(t, place) == op' = [op EXCEPT ![t].at = place]
Done(t) == op' = [op EXCEPT ![t] = Idle]

(* On to the commit: of the local variables only the id still matters, to a *)
(* store and to update_reliability.                                        *)
ToCommit(t) ==
    op' = [op EXCEPT ![t].at = "commit", ![t].topic = None, ![t].skill = FALSE,
                     ![t].version = 0,
                     ![t].kind = IF @ \in {"store", "reliability"} THEN @ ELSE "forget",
                     ![t].id = IF op[t].kind \in {"store", "reliability"} THEN @ ELSE None]

IdsOf(v) == {r.id : r \in v.rows}
Largest(S) == Max({0} \cup S)

(* A connection sees its own uncommitted changes, the others do not. *)
Seen(c) == IF owner = c THEN work ELSE disk

(* INSERT, UPDATE or DELETE on connection c: it opens a transaction, and   *)
(* waits as long as another connection has one.                            *)
Write(c, v) ==
    /\ c \in opened
    /\ owner \in {None, c}
    /\ owner' = c
    /\ work' = v
    /\ UNCHANGED disk

(* commit() on connection c, which may have nothing to commit. *)
CommitOn(c) ==
    IF owner = c THEN disk' = work /\ owner' = None ELSE UNCHANGED <<disk, owner>>

-----------------------------------------------------------------------------
Request(kinds, ids, topics, skills) ==
    [kind : kinds, id : ids, topic : topics, skill : skills]

Requests ==
    Request({"store"}, Ids, Topics, BOOLEAN)
        \cup Request(Recalls, {None}, Topics, {FALSE})
        \cup Request({"forget", "reliability"}, Ids, {None}, {FALSE})
        \cup Request({"prune"}, {None}, {None}, {FALSE})

(* An operation begins with _ensure_db: the open connection, or a new one. *)
Begin(t, request) ==
    /\ op[t] = Idle
    /\ calls < MaxCalls /\ calls' = calls + 1
    /\ op' = [op EXCEPT ![t] =
                [at |-> IF cur = None THEN "connecting" ELSE "start",
                 kind |-> request.kind, conn |-> cur, id |-> request.id,
                 topic |-> request.topic, skill |-> request.skill, version |-> 0]]
    /\ UNCHANGED <<database, connection, broken, faults>>

(* aiosqlite.connect returned: several tasks may get here, each with a new *)
(* connection.  CREATE TABLE is queued on it before anything else can be.  *)
Connect(t) ==
    /\ op[t].at = "connecting"
    /\ \E c \in Conns \ opened :
          /\ \A u \in Tasks : op[u] # Idle => op[u].conn # c
          /\ opened' = opened \cup {c}
          /\ cur' = c
    /\ Goto(t, "setup")
    /\ UNCHANGED <<database, fts, counted>>

(* CREATE VIRTUAL TABLE and the triggers, unless they exist: rows that are *)
(* already there are not indexed.                                          *)
Index(v) == [v EXCEPT !.triggers = TRUE]

(* The index is set up on self._db, whichever connection that is by now;   *)
(* executescript commits first.  Without it LIKE queries do.               *)
Setup(t) ==
    /\ op[t].at = "setup"
    /\ \/ /\ cur \in opened /\ owner \in {None, cur}
          /\ disk' = Index(Seen(cur)) /\ work' = disk' /\ owner' = None
          /\ fts' = TRUE
          /\ disturbed' = (disturbed \/ (~disk.triggers /\ Seen(cur).rows # {}))
       \/ /\ cur \in opened /\ owner \notin {None, cur} /\ disk.triggers
          /\ fts' = TRUE
          /\ UNCHANGED <<disk, work, owner, disturbed>>
       \/ /\ CommitOn(cur)
          /\ fts' = FALSE
          /\ UNCHANGED <<work, disturbed>>
    /\ op' = [op EXCEPT ![t].at = "start", ![t].conn = cur]
    /\ UNCHANGED <<opened, cur, inserted, stored, raced, counted>>

-----------------------------------------------------------------------------
(* _maybe_version: one past the highest stored version of the skill, then  *)
(* the embedder is awaited.                                                *)
ReadVersion(t) ==
    LET c == op[t].conn
        same == {r \in Seen(c).rows : r.version > 0 /\ r.topic = op[t].topic}
        latest == Largest({r.version : r \in same})
        overlaps == \/ owner \notin {None, c}
                    \/ \E u \in Tasks : op[u].at = "embed" /\ op[u].topic = op[t].topic
    IN  /\ op[t].at = "start" /\ op[t].kind = "store" /\ op[t].skill
        /\ c \in opened
        /\ latest < MaxRowid
        /\ op' = [op EXCEPT ![t].at = "embed", ![t].version = latest + 1]
        /\ raced' = IF overlaps THEN raced \cup {op[t].topic} ELSE raced
        /\ UNCHANGED <<rows, inserted, stored, disturbed, connection, counted>>

(* INSERT OR REPLACE: a replaced row goes without its delete trigger; the  *)
(* insert trigger adds to the index under the index's own next row id.     *)
Insert(t) ==
    LET c == op[t].conn
        v == Seen(c)
        old == {r \in v.rows : r.id = op[t].id}
        rowid == Largest({r.rowid : r \in v.rows}) + 1
        entry == Largest({e.rowid : e \in v.index}) + 1
    IN  /\ \/ op[t].at = "embed"
           \/ op[t].at = "start" /\ op[t].kind = "store" /\ ~op[t].skill
        /\ rowid <= MaxRowid /\ entry <= MaxRowid
        /\ \E rel \in 1..MaxRel :
              Write(c, [v EXCEPT
                 !.rows = (@ \ old) \cup
                    {[id |-> op[t].id, rowid |-> rowid, topic |-> op[t].topic,
                      rel |-> rel, version |-> op[t].version]},
                 !.index = @ \cup IF v.triggers
                                  THEN {[rowid |-> entry, topic |-> op[t].topic]}
                                  ELSE {}])
        /\ disturbed' = (disturbed \/ old # {})
        /\ inserted' = inserted \cup {t}
        /\ ToCommit(t)
        /\ UNCHANGED <<stored, raced, connection, counted>>

-----------------------------------------------------------------------------
(* Rows a keyword finds (SemanticStrategy without an embedder, and          *)
(* EpisodicStrategy): through the index by row id, or with LIKE.           *)
Found(v, topic) ==
    IF fts THEN {r \in v.rows : \E e \in v.index : e.rowid = r.rowid /\ e.topic = topic}
    ELSE {r \in v.rows : r.topic = topic}

(* Skills a trigger finds (ProceduralStrategy): the index is not asked. *)
Triggered(v, topic) == {r \in v.rows : r.version > 0 /\ r.topic = topic}

(* An index entry without its row: SQLite reports a malformed database. *)
Dangling(v, topic) ==
    fts /\ \E e \in v.index : e.topic = topic /\ \A r \in v.rows : r.rowid # e.rowid

(* Of a recall that has selected its rows nothing else matters. *)
Selected(t, place) ==
    op' = [op EXCEPT ![t].at = place, ![t].kind = "keyword", ![t].topic = None]

(* recall: the query, which may fail and return nothing, then an update of *)
(* the access metadata of what was found, if anything was.                 *)
Recall(t, kind) ==
    /\ op[t].at = "start" /\ op[t].kind = kind
    /\ op[t].conn \in opened
    /\ UNCHANGED <<database, connection, counted>>

KeywordRecall(t) ==
    LET v == Seen(op[t].conn)
    IN  /\ Recall(t, "keyword")
        /\ IF Dangling(v, op[t].topic) THEN Done(t)
           ELSE IF Found(v, op[t].topic) = {} THEN ToCommit(t) ELSE Selected(t, "touch")

(* The rows with an embedding are ranked, after the query was embedded. *)
EmbeddingRecall(t) ==
    /\ Recall(t, "embedding")
    /\ \/ ToCommit(t)
       \/ Seen(op[t].conn).rows # {} /\ Selected(t, "ranking")

(* Without a match the judge is asked about every skill, if there is one. *)
ProceduralRecall(t) ==
    LET v == Seen(op[t].conn)
    IN  /\ Recall(t, "procedural")
        /\ IF Triggered(v, op[t].topic) # {} THEN Selected(t, "touch")
           ELSE \/ ToCommit(t)
                \/ (\E r \in v.rows : r.version > 0) /\ Selected(t, "ranking")

(* The embedder or the judge answers: some of the rows that were selected  *)
(* before, or none.                                                        *)
Rank(t) ==
    /\ op[t].at = "ranking"
    /\ Selected(t, "touch") \/ ToCommit(t)
    /\ UNCHANGED <<database, connection, counted>>

Touch(t) ==
    /\ op[t].at = "touch"
    /\ Write(op[t].conn, Seen(op[t].conn))
    /\ ToCommit(t)
    /\ UNCHANGED <<inserted, stored, raced, disturbed, connection, counted>>

-----------------------------------------------------------------------------
(* DELETE: the index keeps its entries, as the delete trigger names no     *)
(* row id.                                                                 *)
Remove(t, gone) ==
    LET v == Seen(op[t].conn)
    IN  /\ Write(op[t].conn, [v EXCEPT !.rows = @ \ gone])
        /\ disturbed' = (disturbed \/ gone # {})
        /\ stored' = stored \ {r.id : r \in gone}
        /\ inserted' = {u \in inserted : \A r \in gone : op[u].id # r.id}
        /\ UNCHANGED <<raced, connection, counted>>

Forget(t) ==
    /\ op[t].at = "start" /\ op[t].kind = "forget"
    /\ Remove(t, {r \in Seen(op[t].conn).rows : r.id = op[t].id})
    /\ ToCommit(t)

(* prune_expired: which rows are past their ttl_days is left open. *)
Prune(t) ==
    /\ op[t].at = "start" /\ op[t].kind = "prune"
    /\ \E gone \in SUBSET Seen(op[t].conn).rows : Remove(t, gone)
    /\ ToCommit(t)

(* update_reliability(success=False): the policy of the entry's kind. *)
Look(t) ==
    /\ op[t].at = "start" /\ op[t].kind = "reliability"
    /\ op[t].conn \in opened
    /\ IF op[t].id \in IdsOf(Seen(op[t].conn)) THEN Goto(t, "decay") ELSE Done(t)
    /\ UNCHANGED <<database, connection, counted>>

Decay(t) ==
    LET v == Seen(op[t].conn)
        hit == {r \in v.rows : r.id = op[t].id}
    IN  /\ op[t].at = "decay"
        /\ Write(op[t].conn, [v EXCEPT !.rows = (@ \ hit) \cup
              {[r EXCEPT !.rel = Largest({@ - 1})] : r \in hit}])
        /\ Goto(t, "floor")
        /\ UNCHANGED <<inserted, stored, raced, disturbed, connection, counted>>

(* Mutant of Floor: the row as it was before the decay is looked at. *)
FloorBeforeDecay(t) ==
    /\ op[t].at = "floor"
    /\ Remove(t, {r \in Seen(op[t].conn).rows :
                    r.id = op[t].id /\ \E s \in disk.rows : s.id = r.id /\ s.rel = 0})
    /\ ToCommit(t)

Floor(t) ==
    /\ op[t].at = "floor"
    /\ Remove(t, {r \in Seen(op[t].conn).rows : r.id = op[t].id /\ r.rel = 0})
    /\ ToCommit(t)

-----------------------------------------------------------------------------
Acknowledge(t) ==
    /\ stored' = IF t \in inserted THEN stored \cup {op[t].id} ELSE stored
    /\ inserted' = inserted \ {t}

(* Mutant of Commit: left to the last operation in the transaction. *)
CommitLast(t) ==
    /\ op[t].at = "commit"
    /\ op[t].conn \in opened
    /\ IF owner = op[t].conn /\ \A u \in Tasks \ {t} : op[u] = Idle
       THEN disk' = work /\ owner' = None ELSE UNCHANGED <<disk, owner>>
    /\ Acknowledge(t)
    /\ Done(t)
    /\ UNCHANGED <<work, raced, disturbed, connection, counted>>

(* db.commit(): everything written on the connection, by whichever task. *)
Commit(t) ==
    /\ op[t].at = "commit"
    /\ op[t].conn \in opened
    /\ CommitOn(op[t].conn)
    /\ Acknowledge(t)
    /\ Done(t)
    /\ UNCHANGED <<work, raced, disturbed, connection, counted>>

(* close(): the connection goes, and its open transaction with it; then    *)
(* self._db is reset.                                                      *)
Close(t) ==
    /\ op[t] = Idle
    /\ calls < MaxCalls /\ calls' = calls + 1
    /\ cur # None
    /\ opened' = opened \ {cur}
    /\ IF owner = cur THEN owner' = None /\ work' = disk
       ELSE UNCHANGED <<owner, work>>
    /\ op' = [op EXCEPT ![t] = [at |-> "closed", kind |-> "close", conn |-> cur,
                               id |-> None, topic |-> None, skill |-> FALSE,
                               version |-> 0]]
    /\ UNCHANGED <<disk, inserted, stored, raced, disturbed, cur, fts, broken, faults>>

Unset(t) ==
    /\ op[t].at = "closed"
    /\ cur' = None
    /\ Done(t)
    /\ UNCHANGED <<database, opened, fts, counted>>

(* The decayed row was not looked at, or what was decided not committed. *)
Unfinished(t) ==
    IF op[t] # Idle /\ op[t].kind = "reliability" /\ op[t].at \in {"floor", "commit"}
    THEN {op[t].id} ELSE {}

Statement(t) ==
    \/ Connect(t) \/ Setup(t)
    \/ ReadVersion(t) \/ Insert(t)
    \/ KeywordRecall(t) \/ EmbeddingRecall(t) \/ ProceduralRecall(t) \/ Rank(t) \/ Touch(t)
    \/ Forget(t) \/ Prune(t)
    \/ Look(t) \/ Decay(t) \/ Floor(t)
    \/ Commit(t)
    \/ Close(t) \/ Unset(t)

(* The embedder's error is caught; every other one is logged and ends the  *)
(* operation where it is, as a cancellation does.  Nothing is rolled back. *)
(* A statement that cannot run (its connection closed, another one's lock  *)
(* held until the timeout, a bound reached) can only fail.                 *)
Fail(t) ==
    /\ op[t] # Idle
    /\ IF ENABLED Statement(t) THEN faults < MaxFaults /\ faults' = faults + 1
       ELSE UNCHANGED faults
    /\ Done(t)
    /\ broken' = broken \cup Unfinished(t)
    /\ inserted' = inserted \ {t}
    /\ UNCHANGED <<rows, stored, raced, disturbed, connection, calls>>

(* The process ends: what is committed stays. *)
Crash ==
    /\ opened # {}
    /\ faults < MaxFaults /\ faults' = faults + 1
    /\ work' = disk /\ owner' = None
    /\ opened' = {} /\ cur' = None /\ fts' = FALSE
    /\ op' = [t \in Tasks |-> Idle]
    /\ broken' = broken \cup UNION {Unfinished(t) : t \in Tasks}
    /\ inserted' = {}
    /\ UNCHANGED <<disk, stored, raced, disturbed, calls>>

Next ==
    \/ \E t \in Tasks :
          \/ \E request \in Requests : Begin(t, request)
          \/ Statement(t)
          \/ Fail(t)
    \/ Crash

Spec == Init /\ [][Next]_vars
-----------------------------------------------------------------------------
(* "FTS5 triggers keep the search index in sync with the main table on     *)
(* insert, update, and delete."                                            *)
InSync(v) == v.index = {[rowid |-> r.rowid, topic |-> r.topic] : r \in v.rows}

(* What the triggers do achieve: as long as no row has left the table, and *)
(* none was stored before the index existed, search finds exactly the rows *)
(* it should, in every transaction, on every connection, after a restart.  *)
InSyncUndisturbed ==
    disk.triggers /\ ~disturbed => InSync(disk) /\ InSync(work)

(* "bumps the new entry's version one past the highest stored version and  *)
(* keeps the prior rows - an audit trail": a version names one row, unless *)
(* two stores of the skill overlapped.                                     *)
VersionsUnique ==
    \A r, s \in disk.rows :
        r.version > 0 /\ r.version = s.version /\ r.topic = s.topic /\ r # s =>
            r.topic \in raced

(* "Entries below 0.1 are automatically pruned", though another task's     *)
(* commit may come between the decay and the delete: what stays below the  *)
(* floor belongs to an update that is running or did not complete.         *)
FloorHolds ==
    \A r \in disk.rows :
        r.rel = 0 => \/ r.id \in broken
                     \/ \E t \in Tasks : r.id \in Unfinished(t)

(* A store that returned after its commit is on disk until the entry is    *)
(* removed, whoever else used, committed, closed or lost the connection.   *)
StoredIsDurable == stored \subseteq IdsOf(disk)

(* What any connection and any restart finds on disk agrees with itself:   *)
(* index and table, versions and rows, reliability and floor.              *)
Consistent == TypeOK /\ InSyncUndisturbed /\ VersionsUnique /\ FloorHolds
=============================================================================
