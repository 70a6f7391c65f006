--------------------------- MODULE SchemaMigrations ---------------------------
(***************************************************************************)
(* The versioned PostgreSQL schema of the scoped ledger                    *)
(* (core_v3/postgres_migrations.py).  Every process that opens the ledger  *)
(* applies what is missing: it takes a transaction-scoped advisory lock,   *)
(* reads which versions are recorded, runs the others in order, verifies   *)
(* the result and commits.                                                 *)
(*                                                                         *)
(* Version 1 creates the tables and the unique index on the chain          *)
(* sequences; version 2 rebuilds that index to cover gateway events too.   *)
(***************************************************************************)
EXTENDS Naturals, FiniteSets

CONSTANTS
    Processes,
    NoProcess

ASSUME ProcessesAssumption == NoProcess \notin Processes

VARIABLES
    schema,     \* the committed schema
    migrating,  \* the holder of the migration advisory lock
    phase,      \* where each process is
    pending,    \* the versions a process found unrecorded
    goal        \* the phase a process goes on to once the ledger is open

schemaVars == <<schema, migrating, pending>>

Versions == {1, 2}                      \* ORDERED_POSTGRES_MIGRATIONS

Schema == [tables : {"none", "ok", "other"},         \* "other": columns or keys differ
           index : {"none", "v1", "v2"},             \* what the partial index covers
           recorded : [Versions -> {"no", "ours", "other"}]]   \* by their checksums

Unrecorded(s) == {v \in Versions : s.recorded[v] = "no"}
ChecksumMismatch(s) == \E v \in Versions : s.recorded[v] = "other"

\* 001: everything IF NOT EXISTS.
AfterV1(s) ==
    [tables |-> IF s.tables = "none" THEN "ok" ELSE s.tables,
     index |-> IF s.index = "none" THEN "v1" ELSE s.index,
     recorded |-> [s.recorded EXCEPT ![1] = "ours"]]

\* 002: the index is dropped and created anew.
AfterV2(s) == [s EXCEPT !.index = "v2", !.recorded[2] = "ours"]

Upgraded(s, V) ==
    LET first == IF 1 \in V THEN AfterV1(s) ELSE s
    IN  IF 2 \in V THEN AfterV2(first) ELSE first

\* verify_postgres_schema: tables, columns, keys, checksums and the partial index.
SchemaVerifies(s) ==
    /\ s.tables = "ok"
    /\ Unrecorded(s) = {} /\ ~ChecksumMismatch(s)
    /\ s.index = "v2"

\* The new version row is refused by the primary key if it is there by now.
Applies(s, V) ==
    /\ V \subseteq Unrecorded(s)
    /\ SchemaVerifies(Upgraded(s, V))

-----------------------------------------------------------------------------
LockMigrations(p) ==
    /\ phase[p] = "opening"
    /\ migrating = NoProcess
    /\ migrating' = p
    /\ phase' = [phase EXCEPT ![p] = "locked"]
    /\ UNCHANGED <<schema, pending, goal>>

\* Mutant: the versions are read first, and the lock is only taken to write.
FindPendingFirst(p) ==
    /\ phase[p] \in {"opening", "locked"}
    /\ pending' = [pending EXCEPT ![p] = Unrecorded(schema)]
    /\ phase' = [phase EXCEPT ![p] = "found"]
    /\ migrating' = IF migrating = p THEN NoProcess ELSE migrating
    /\ UNCHANGED <<schema, goal>>

FindPending(p) ==
    /\ phase[p] = "locked"
    /\ pending' = [pending EXCEPT ![p] = Unrecorded(schema)]
    /\ phase' = [phase EXCEPT ![p] = "found"]
    /\ UNCHANGED <<schema, migrating, goal>>

\* The end of the transaction releases the lock.
Unlocked(p) == IF migrating = p THEN NoProcess ELSE migrating

CommitMigrations(p) ==
    /\ phase[p] = "found"
    /\ ~ChecksumMismatch(schema) /\ Applies(schema, pending[p])
    /\ schema' = Upgraded(schema, pending[p])
    /\ migrating' = Unlocked(p)
    /\ pending' = [pending EXCEPT ![p] = {}]
    /\ phase' = [phase EXCEPT ![p] = goal[p]]
    /\ UNCHANGED goal

\* TransactionUnavailable: the transaction is rolled back.
MigrationsRaise(p) ==
    /\ phase[p] = "found"
    /\ ChecksumMismatch(schema) \/ ~Applies(schema, pending[p])
    /\ migrating' = Unlocked(p)
    /\ pending' = [pending EXCEPT ![p] = {}]
    /\ UNCHANGED schema
=============================================================================
