------------------------- MODULE SqliteScopedLedger -------------------------
(***************************************************************************)
(* The SQLite engine of the scoped ledger (core_v3/scoped_ledger.py): the  *)
(* processes of one node on one database file.  A writer begins IMMEDIATE, *)
(* so it has the file's write lock until it ends; readers see the last     *)
(* commit, and a verification reads in statements of its own.              *)
(*                                                                         *)
(* Opening the ledger creates the schema statement by statement: version   *)
(* 002 drops the unique index on the chain sequences, creates it anew and  *)
(* records itself, with nothing that keeps two processes apart.            *)
(***************************************************************************)
EXTENDS ScopedRows

CONSTANTS
    Processes,
    Legacy,       \* the rows of table ledger, in the order they are migrated in
    Calls,        \* the writes callers issue
    NoProcess,
    MaxCalls,     \* bound: calls in one callback
    MaxVersion    \* bound: row_version of a mutable row

ASSUME SqliteScopedLedgerAssumption ==
    /\ NoProcess \notin Processes
    /\ Legacy \in Seq([coll : Linked, key : Keys, payload : Payloads])
    /\ Calls \subseteq [op : {"append"}, coll : Collections, key : Keys, payload : Payloads]
                      \cup [op : {"cas"}, coll : Mutable, key : Keys, payload : Payloads,
                            version : Nat, was : SUBSET Payloads]
    /\ MaxCalls \in Nat /\ MaxVersion \in Nat

VARIABLES
    db,         \* the committed rows and heads
    index,      \* what the partial unique index covers
    recorded,   \* whether version 002 is (no code records another checksum)
    reserved,   \* who has the write lock of the file
    pc,         \* where each process is
    work,       \* the rows and heads as its transaction sees them
    left,       \* the calls its callback may still make
    todo,       \* the legacy rows it has still to migrate, or the collections to verify
    seen,       \* the rows its verification read
    disturbed   \* history: a commit came in while it verified

schemaVars == <<index, recorded>>
txnVars == <<work, left>>
vars == <<db, schemaVars, reserved, pc, txnVars, todo, seen, disturbed>>


\* The database is new, of a version without migrations, or up to date.
Init ==
    /\ db = EmptyState
    /\ index \in {"none", "old", "events"}
    /\ recorded = (index = "events")
    /\ reserved = NoProcess
    /\ pc = [p \in Processes |-> "closed"]
    /\ work = [p \in Processes |-> EmptyState]
    /\ left = [p \in Processes |-> 0]
    /\ todo = [p \in Processes |-> {}]
    /\ seen = [p \in Processes |-> {}]
    /\ disturbed = [p \in Processes |-> FALSE]

Goto(p, where) == pc' = [pc EXCEPT ![p] = where]

-----------------------------------------------------------------------------
(***************************************************************************)
(* _ensure_sqlite_schema: each statement of a script commits by itself,    *)
(* waiting its turn for the write lock.                                    *)
(***************************************************************************)
FindVersion(p) ==
    /\ pc[p] = "closed"
    /\ Goto(p, IF recorded THEN "idle" ELSE "drop")
    /\ UNCHANGED <<db, schemaVars, reserved, txnVars, todo, seen, disturbed>>

DropIndex(p) ==
    /\ pc[p] = "drop" /\ reserved = NoProcess
    /\ index' = "none"
    /\ Goto(p, "create")
    /\ UNCHANGED <<db, recorded, reserved, txnVars, todo, seen, disturbed>>

CreateIndex(p) ==
    /\ pc[p] = "create" /\ reserved = NoProcess
    /\ index' = IF index = "none" THEN "events" ELSE index
    /\ Goto(p, "record")
    /\ UNCHANGED <<db, recorded, reserved, txnVars, todo, seen, disturbed>>

\* The primary key refuses a version that another process recorded meanwhile.
RecordVersion(p) ==
    /\ pc[p] = "record" /\ reserved = NoProcess
    /\ recorded' = TRUE
    /\ Goto(p, IF recorded THEN "closed" ELSE "idle")
    /\ UNCHANGED <<db, index, reserved, txnVars, todo, seen, disturbed>>

-----------------------------------------------------------------------------
(* _sqlite_append and _sqlite_cas: what a call leaves of the rows and heads. *)

\* The primary key, the record id, and the partial index while there is one.
Refused(S, row) ==
    \E r \in Group(S.rows, row.coll) :
        r.key = row.key \/ r.id = row.id
            \/ (index # "none" /\ row.coll \in Linked /\ r.seq = row.seq)

\* Mutant: the head stays where it was.
InsertedHeadLeft(S, row) ==
    IF Refused(S, row) THEN S ELSE [S EXCEPT !.rows = @ \cup {row}]

Inserted(S, row) ==
    IF Refused(S, row) THEN S
    ELSE [rows |-> S.rows \cup {row},
          heads |-> [c \in Linked |->
              IF c = row.coll THEN [seq |-> row.seq, hash |-> row.hash] ELSE S.heads[c]]]

NewRow(S, cl) ==
    IF cl.coll \in Linked
    THEN {LinkedRow(cl.coll, cl.key, cl.payload, S.heads[cl.coll])}
    ELSE {StandaloneRow(cl.coll, cl.key, cl.payload, n) : n \in NextMutableSequence(S.rows, cl.coll)}

Appended(S, cl) ==
    IF At(S.rows, cl.coll, cl.key) # {} THEN {S} ELSE {Inserted(S, row) : row \in NewRow(S, cl)}

\* An expected version of 0 and an empty expected payload stand for None.
Swapped(S, cl) ==
    LET old == {r \in At(S.rows, cl.coll, cl.key) :
                   /\ cl.version \in {0, r.version}
                   /\ cl.was = {} \/ r.payload \in cl.was
                   /\ r.version < MaxVersion}
    IN  [S EXCEPT !.rows = (@ \ old) \cup {Replaced(r, cl.payload) : r \in old}]

Effects(S, cl) == IF cl.op = "append" THEN Appended(S, cl) ELSE {Swapped(S, cl)}

-----------------------------------------------------------------------------
(***************************************************************************)
(* A transaction: BEGIN IMMEDIATE, calls, COMMIT.  A single append or      *)
(* compare-and-set is a transaction of one call.                           *)
(***************************************************************************)

\* Mutant: BEGIN (deferred): the rows are read before the file is locked.
BeginDeferred(p, where) ==
    /\ pc[p] = "idle"
    /\ work' = [work EXCEPT ![p] = db]
    /\ Goto(p, where)
    /\ UNCHANGED reserved

Begin(p, where) ==
    /\ pc[p] = "idle" /\ reserved = NoProcess
    /\ reserved' = p
    /\ work' = [work EXCEPT ![p] = db]
    /\ Goto(p, where)

BeginTransaction(p) ==
    /\ Begin(p, "open")
    /\ \E n \in {1, MaxCalls} : left' = [left EXCEPT ![p] = n]
    /\ UNCHANGED <<db, schemaVars, todo, seen, disturbed>>

\* What a call raised, the callback may catch.
Call(p) ==
    /\ pc[p] = "open" /\ left[p] > 0
    /\ \E cl \in Calls : \E S \in Effects(work[p], cl) : work' = [work EXCEPT ![p] = S]
    /\ left' = [left EXCEPT ![p] = @ - 1]
    /\ UNCHANGED <<db, schemaVars, reserved, pc, todo, seen, disturbed>>

Ended(p) ==
    /\ reserved' = IF reserved = p THEN NoProcess ELSE reserved
    /\ work' = [work EXCEPT ![p] = EmptyState]
    /\ left' = [left EXCEPT ![p] = 0]
    /\ todo' = [todo EXCEPT ![p] = {}]
    /\ seen' = [seen EXCEPT ![p] = {}]
    /\ disturbed' = [q \in Processes |-> q # p /\ (disturbed[q] \/ (todo[q] # {} /\ db' # db))]

Commit(p) ==
    /\ \/ pc[p] = "open"
       \/ pc[p] = "migrate" /\ todo[p] = {}
    /\ db' = work[p]
    /\ Goto(p, "idle")
    /\ Ended(p)
    /\ UNCHANGED schemaVars

Rollback(p) ==
    /\ pc[p] \in {"open", "migrate"}
    /\ Goto(p, "idle")
    /\ UNCHANGED <<db, schemaVars>>
    /\ Ended(p)

\* The process dies and may be started again.
Crash(p) ==
    /\ pc[p] # "closed"
    /\ Goto(p, "closed")
    /\ UNCHANGED <<db, schemaVars>>
    /\ Ended(p)

-----------------------------------------------------------------------------
(***************************************************************************)
(* migrate_legacy_scoped_sqlite (and _json, whose file is its state): one  *)
(* transaction, row by row; a row that is there already with the same      *)
(* payload is skipped, another payload raises, and so does an index.       *)
(***************************************************************************)
BeginMigration(p) ==
    /\ Begin(p, "migrate")
    /\ todo' = [todo EXCEPT ![p] = DOMAIN Legacy]
    /\ UNCHANGED <<db, schemaVars, left, seen, disturbed>>

\* The states the migration of one row may leave: none if it raises.
Migrated(S, old) ==
    LET there == At(S.rows, old.coll, old.key)
        row == LinkedRow(old.coll, old.key, old.payload, S.heads[old.coll])
    IN  IF there = {} THEN {Inserted(S, row)} \ {S}
        ELSE {T \in {S} : \A r \in there : r.payload = old.payload}

\* Mutant: a row that conflicts is left out.
MigrateWhatFits(p) ==
    /\ pc[p] = "migrate"
    /\ \E i \in todo[p] :
          /\ \A j \in todo[p] : i <= j
          /\ \/ \E S \in Migrated(work[p], Legacy[i]) : work' = [work EXCEPT ![p] = S]
             \/ Migrated(work[p], Legacy[i]) = {} /\ UNCHANGED work
          /\ todo' = [todo EXCEPT ![p] = @ \ {i}]
    /\ UNCHANGED <<db, schemaVars, reserved, pc, left, seen, disturbed>>

MigrateRow(p) ==
    /\ pc[p] = "migrate"
    /\ \E i \in todo[p] :
          /\ \A j \in todo[p] : i <= j
          /\ \E S \in Migrated(work[p], Legacy[i]) : work' = [work EXCEPT ![p] = S]
          /\ todo' = [todo EXCEPT ![p] = @ \ {i}]
    /\ UNCHANGED <<db, schemaVars, reserved, pc, left, seen, disturbed>>

-----------------------------------------------------------------------------
(***************************************************************************)
(* _verify_sqlite_conn: the rows of each linked collection in a statement, *)
(* then the heads, then the standalone rows, with no transaction around.   *)
(***************************************************************************)
BeginVerify(p) ==
    /\ pc[p] = "idle"
    /\ Goto(p, "rows")
    /\ todo' = [todo EXCEPT ![p] = Linked]
    /\ UNCHANGED <<db, schemaVars, reserved, txnVars, seen, disturbed>>

VerifyRows(p) ==
    /\ pc[p] = "rows"
    /\ \E c \in todo[p] :
          /\ \A d \in todo[p] : c <= d
          /\ seen' = [seen EXCEPT ![p] = @ \cup Group(db.rows, c)]
          /\ todo' = [todo EXCEPT ![p] = IF @ = {c} THEN Linked ELSE @ \ {c}]
          /\ Goto(p, IF todo[p] = {c} THEN "heads" ELSE "rows")
    /\ UNCHANGED <<db, schemaVars, reserved, txnVars, disturbed>>

\* A head that was read is compared; one whose collection had no rows must be
\* the head of an empty chain.
HeadFits(p, c) == ValidLinkedGroup(seen[p], c, db.heads[c])

VerifyHead(p) ==
    /\ pc[p] = "heads"
    /\ \E c \in todo[p] :
          /\ HeadFits(p, c)
          /\ todo' = [todo EXCEPT ![p] = @ \ {c}]
          /\ Goto(p, IF todo[p] = {c} THEN "standalone" ELSE "heads")
    /\ UNCHANGED <<db, schemaVars, reserved, txnVars, seen, disturbed>>

VerifyStandalone(p) ==
    /\ pc[p] = "standalone" /\ \A c \in Mutable : ValidStandalone(db.rows, c)
    /\ Goto(p, "idle")
    /\ UNCHANGED <<db, schemaVars>>
    /\ Ended(p)

\* LedgerIntegrityError.
VerifyRaises(p) ==
    /\ \/ pc[p] = "heads" /\ \E c \in todo[p] : ~HeadFits(p, c)
       \/ pc[p] = "standalone" /\ \E c \in Mutable : ~ValidStandalone(db.rows, c)
    /\ Goto(p, "idle")
    /\ UNCHANGED <<db, schemaVars>>
    /\ Ended(p)

Next ==
    \E p \in Processes :
        \/ FindVersion(p) \/ DropIndex(p) \/ CreateIndex(p) \/ RecordVersion(p)
        \/ BeginTransaction(p) \/ Call(p) \/ Commit(p) \/ Rollback(p) \/ Crash(p)
        \/ BeginMigration(p) \/ MigrateRow(p)
        \/ BeginVerify(p) \/ VerifyRows(p) \/ VerifyHead(p) \/ VerifyStandalone(p)
        \/ VerifyRaises(p)

Spec == Init /\ [][Next]_vars

-----------------------------------------------------------------------------
\* The types of the variables.
TypeOK ==
    /\ db \in State
    /\ index \in {"none", "old", "events"} /\ recorded \in BOOLEAN
    /\ reserved \in Processes \cup {NoProcess}
    /\ pc \in [Processes -> {"closed", "drop", "create", "record", "idle", "open", "migrate",
                            "rows", "heads", "standalone"}]
    /\ work \in [Processes -> State]
    /\ left \in [Processes -> Nat]
    /\ todo \in [Processes -> SUBSET Nat]
    /\ \A p \in Processes : todo[p] \subseteq (IF pc[p] = "migrate" THEN DOMAIN Legacy ELSE Linked)
    /\ seen \in [Processes -> SUBSET Row]
    /\ disturbed \in [Processes -> BOOLEAN]

(***************************************************************************)
(* Verifying raises LedgerIntegrityError only if a writer committed while  *)
(* it read: what is committed always verifies, with or without the index.  *)
(***************************************************************************)
AlarmsNeedAWriter ==
    [][\A p \in Processes : VerifyRaises(p) => disturbed[p]]_vars

(***************************************************************************)
(* The legacy rows are moved all or not at all: never some of them without *)
(* the others, though rows of the same keys may be appended, the migration *)
(* repeated, or the process killed at any statement (ADR-020, 9).          *)
(***************************************************************************)
LegacyMovedWhole ==
    [][\A p \in Processes : pc[p] = "migrate" =>
          \/ db' = db
          \/ \A i \in DOMAIN Legacy :
                \E r \in At(db'.rows, Legacy[i].coll, Legacy[i].key) :
                    r.payload = Legacy[i].payload]_db

(***************************************************************************)
(* No commit takes back what another one left: a row stays, or is replaced *)
(* by a later version in the same place (ADR-020, 8).                      *)
(***************************************************************************)
NoLostUpdate ==
    [][\A r \in db.rows : \E s \in db'.rows :
          /\ SameKey(r, s)
          /\ s = r \/ (r.coll \in Mutable /\ s.version > r.version /\ s.seq = r.seq)]_db

(***************************************************************************)
(* The engine implements the abstract ledger: whoever has the file's write *)
(* lock claims every chain.                                                *)
(***************************************************************************)
Abstract == INSTANCE LedgerCommit WITH
    Workers <- Processes,
    log <- [c \in Linked |-> db.heads[c].hash],
    claimed <- [p \in Processes |-> IF reserved = p THEN Linked ELSE {}],
    draft <- [p \in Processes |-> [c \in Linked |-> work[p].heads[c].hash]]

ImplementsLedgerCommit == Abstract!Spec
=============================================================================
