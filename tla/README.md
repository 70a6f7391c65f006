# PhiGraph: a TLA+ verification of its ledgers, GRDI and the services around them

PhiGraph keeps an audit trail of decisions. Whatever it verifies, authorises,
plans, simulates or replays becomes a record in a ledger whose collections are
hash chains, and the rest of the system trusts that ledger. This directory
models the scoped ledger on its three backends, the decision pipeline (GRDI)
that is kept in it, the migration to it, the core service with its own ledger,
and the platform's job queue; checks the models with TLC; and proves the
central results with TLAPS. Paths below are relative to `src/phigraph/`.

## 1. The system

| Component | State | Operations | Interacts with |
|---|---|---|---|
| Scoped ledger (`core_v3/scoped_ledger.py`, `postgres_scoped.py`, `transactions.py`, `postgres_advisory.py`) | rows and one chain head per tenant, project and collection | `append_scoped(_once)`, `compare_and_set_scoped`, `get/list_scoped`, `run_scoped_transaction`, `verify_scoped_chain`, legacy migrations | one engine per backend: JSON (a file, an RLock), SQLite (`BEGIN IMMEDIATE`), PostgreSQL (advisory locks, row locks) |
| GRDI (`grdi/service.py`, `ledger_ops.py`) | none of its own: envelopes, authority decisions, plans, gateway decisions and events, receipts, outcomes are scoped rows | register, authorise, plan, simulate, record outcome | every operation is one scoped transaction on locks declared in `ledger_ops.py` |
| GRDI replay (`grdi/replay.py`) | replay reports, historical comparisons (scoped rows) | build, persist, validate, compare | reads the records of a plan in a transaction, verifies the chains on a second connection |
| GRDI migration (`grdi/migration.py`, `scripts/grdi_rc8_cutover.py`) | backfilled gateway events, a report | apply, verify, check-only | runs beside live operations |
| Schema migrations (`core_v3/postgres_migrations.py`) | version and checksum table | apply, verify | engine start, the cut-over |
| Core ledger (`core_v3/ledger.py`, `backends.py`) | one document of collections, each a chain | register, verify, rechain, snapshot | reads and rewrites the whole ledger under one lock |
| Core service (`core_v3/service.py`, `runtime.py`, `policy.py`, `integrations.py`) | audit and shadow files mirrored from the ledger | claims, evidence, verifications, runtime runs | the core ledger, executors |
| HTTP API (`core_v3/api.py`, `auth_deps.py`, `grdi/api.py`, `hav/api.py`) | none | principals, roles, writing routes | idempotency store, core service, GRDI, HAV |
| Idempotency store (`core_v3/idempotency.py`) | responses by key | `run` | the HTTP APIs |
| Execution sandbox (`core_v3/sandbox.py`, `execution/`) | a file of receipts | execute, rollback | approvals, policy, connectors, a child process |
| HAV (`hav/`) | none | evaluate claims against project facts, decide | records everything in the core ledger |
| Platform (`platform/`, `deployment/platform_app.py`, `worker.py`) | jobs, registry, audit, in one SQLite database | enqueue, claim, finish, fail, register, promote | worker processes, servers |
| Governance, reliability, shadow and meta stores | small or none | gates, counters | their callers |
| Analysis, kernels, agents, benchmark, domain packs, demos, apps | none shared | numerical analysis, presentation | - |

**What is hard.** Workers on different machines write one chain at the same
time; a transaction holds advisory locks, row locks and index entries at once;
a statement at READ COMMITTED, or outside a SQLite transaction, sees what was
committed before that *statement*; a verification runs on a connection of its
own beside the transaction that called it; nodes start, migrate and serve at
once; a process dies between two steps of a write; callers retry. The full list,
each at its line, is `hazards` in `PROJECT.json`.

**What makes each component correct.** The scoped ledger: every committed state
verifies; chains only grow; a transaction is published whole or not at all; one
row per canonical key and per record id; no lost update; no deadlock; every
transaction ends. The readers: what a replay records is one state of the
ledger, and a valid ledger is not reported broken. GRDI: nothing is planned
without an authority decision or simulated without a plan, a receipt and its
event come together, retries change nothing. The cut-over: GO is said only of a
ledger that was moved whole. The core ledger: its chains verify although claims
change in the middle of them, and a claim is what its verifications made of it.
Idempotency and execution: one effect per key, none without a recorded
decision. The job queue: a queued job is taken, and attempts are accounted for.

## 2. Modules

| Module | Models |
|---|---|
| `ScopedRows` | the data shared by all engines: rows, hashes, unique indexes, chain validation, lock references and their order |
| `LedgerCommit` | the abstract specification: logs that only grow, exclusive writers, atomic publication |
| `PgScopedLedger` | the PostgreSQL engine: any number of workers, statement by statement |
| `PgReplayReads` | `verify_scoped_chain` and replay reads beside GRDI transactions (extends `PgScopedLedger`) |
| `JsonScopedLedger` | the JSON engine: threads, engines, the temporary file, crashes |
| `SqliteScopedLedger` | the SQLite engine: processes on one file, schema start-up, legacy migration, verification, crashes |
| `ScopedRowsProofs` | lemmas about rows and chains, for every engine |
| `PgScopedLedgerProofs` | the theorems about `PgScopedLedger` and `PgReplayReads` |
| `JsonScopedLedgerProofs` | the theorems about `JsonScopedLedger` |
| `SqliteScopedLedgerProofs` | the theorems about `SqliteScopedLedger` |
| `GrdiDecisions` | what GRDI decides from records alone: authorization, eligibility, the state of an outcome |
| `DecisionPipeline` | the abstract specification: a plan is planned, simulated, observed, in this order |
| `GrdiPipeline` | the operations of `grdi/service.py` and the backfill, by concurrent workers, on the ledger taken at its promise |
| `GrdiPipelineProofs` | the theorems about `GrdiPipeline` and `GrdiReplay` |
| `GrdiReplay` | replay reports and comparisons beside those operations (extends `GrdiPipeline`) |
| `SchemaMigrations` | PostgreSQL schema versions, applied and verified by processes that start together |
| `GrdiCutover` | the cut-over script, its migration, backfill, verification and verdict, beside nodes and plans (extends `SchemaMigrations`) |
| `GrdiCutoverProofs` | the theorems about `GrdiCutover` and `SchemaMigrations` |
| `HavVerification` | how HAV evaluates claims and decides, as operators |
| `CoreAccess` | principals, roles and permissions, as operators |
| `CoreLedger` | a process of the core service: ledger, idempotency store, runtime, sandbox, HAV, mirror files and the routes of GRDI (extends the two above) |
| `CoreLedgerProofs` | the theorems about `CoreLedger` |
| `Platform` | jobs, workers, registry and audit on the platform database |
| `PlatformProofs` | the theorems about `Platform` |
| `MC...` | instances for TLC |

The modules stack: `PgScopedLedger`, `JsonScopedLedger` and `SqliteScopedLedger`
implement `LedgerCommit`; `GrdiPipeline` and `GrdiCutover` use a ledger that
behaves as `LedgerCommit` says; `GrdiPipeline` implements `DecisionPipeline`, and
`CoreLedger` takes a GRDI operation behind its HTTP route at that promise;
`PgReplayReads` shows that what a replay reads is one state of the ledger, and
`GrdiReplay` takes it as one step.

### Abstractions common to all

* **One tenant and project** below the HTTP API. Every key, index entry and lock
  key of the code starts with them, so scopes do not interact. `CoreLedger` has
  two scopes, because there the scope of a row is taken from its caller.
* **Storage answers.** A full disk, or a database that stays locked longer than
  the driver waits, is left out everywhere: an audit append of `Platform`, for
  example, fails only with its server. What programs bring along may fail: the
  callbacks of a transaction, job handlers, and the executors, verifiers and
  values of a run.
* **Collections and keys are numbers**, because the code sorts lock references;
  the chain lock of a collection is key 0, which makes `normalize_lock_refs`
  the lexicographic order (`Before`).
* **A payload is a value** equal to another exactly when their payload hashes
  are; `RecordId` maps it to its `*_id` field.
* **SHA-256 is its history**: `chain_record_hash(prev, payload)` is
  `Append(prev, payload)`. Two hashes are equal only if the chains behind them
  are, and the hash of a chain head *is* the abstract log of its collection.
* **Verification is a formula** (`ValidLinkedGroup`, `ValidStandalone`), applied
  to all committed states at once where the code checks one state at a time.

### PgScopedLedger and the code

| Variable | Code |
|---|---|
| `rows`, `heads` | committed `phigraph_scoped_ledger` and `phigraph_chain_heads` |
| `declared`, `held` | `lock_refs` after `normalize_lock_refs`; the advisory locks taken so far |
| `mine`, `touched`, `tip` | uncommitted rows; heads selected `FOR UPDATE`; those heads as the transaction sees them |
| `phase`, `call`, `left`, `built` | where the worker is in the operation, and its locals |

| Action | Code (`core_v3/postgres_scoped.py` unless named) |
|---|---|
| `Begin`, `AcquireLock`, `AllLocksHeld` | `run_scoped_transaction`, one `pg_advisory_xact_lock` after the other |
| `BeginStandalone` | an append or compare-and-set outside a transaction: implicit locks, one call |
| `Call` | a write of the callback whose locks are declared (`require_write_locks`) |
| `AppendExisting` | the key is there: the record is returned or `DuplicateCanonicalKey` raised |
| `AppendSelect` | the head is selected `FOR UPDATE` or inserted, or `MAX + 1` read; the row is built |
| `AppendInsert` | `INSERT ... ON CONFLICT DO NOTHING` in a savepoint; a conflict writes nothing, otherwise the head moves with the row |
| `CompareAndSet` | `compare_and_set_scoped`; a failed expectation writes nothing |
| `Commit`, `Rollback` | end of the transaction; `Rollback` is also a lost connection and a dead process |

Waiting is `Blocks`: for an advisory lock, for a head row, for the inserter of a
row one's INSERT conflicts with on *any* unique index, and for the updater of a
row. A worker that waits is simply not enabled; PostgreSQL's deadlock detector
is `Rollback`. A compare-and-set beyond `MaxVersion` behaves as a failed one.

### PgReplayReads and the code

`SourceLocks`, `SnapshotLocks`, `PersistLocks` and `ComparisonLocks` are the lock sets of
`ledger_ops.py` with all source collections treated alike. `VerifyRows` reads
the rows of one chain, `VerifyHead` compares one head with the rows read
before, each in its own snapshot. `owner` is the worker whose callback waits
for the verification, or `NoOne` for the unguarded callers (`get_replay_report`,
the cut-over script, an operator). The standalone rows, which are validated row
by row, cannot fail this way and are left to `PgScopedLedger`.

### JsonScopedLedger and the code

`copy` is `tls.active_json_state`; `disk` and `tmp` are the ledger file and its
temporary file; `fd` says what the file a thread has open is called by now,
because a rename by another thread gives the name away. `Call` and `SingleCall`
run `_json_append` or `_json_cas`; `OpenTmp`, `FillTmp` and `Rename` are
`_write_json_state`. `Crash` is the death of the process (not of the machine:
the code does not `fsync`). Unlike the two SQL backends the JSON engine has no
uniqueness of record ids, so that is no property here. `Engines` may have more
members than one, but what the engine promises then fails (see *Noticed*). Lock references only
restrict which calls a callback may make; the model lets it make any.

### SqliteScopedLedger and the code

| Variable | Code |
|---|---|
| `db` | committed `phigraph_scoped_ledger` and `phigraph_chain_heads` |
| `index`, `recorded` | the partial unique index on chain sequences; version 002 in the schema table |
| `reserved`, `work` | the file's write lock (`BEGIN IMMEDIATE`); the state as the open transaction sees it |
| `todo`, `seen`, `disturbed` | what a migration or a verification has still to do, what it has read, and whether somebody committed meanwhile (history) |

| Action | Code (`core_v3/scoped_ledger.py`) |
|---|---|
| `FindVersion`, `DropIndex`, `CreateIndex`, `RecordVersion` | `_ensure_sqlite_schema`: `executescript` commits statement by statement, and the version is inserted last; the second of two starts is refused by the primary key and fails |
| `BeginTransaction`, `Call`, `Commit`, `Rollback` | `run_scoped_transaction` and single writes: `_sqlite_append` with all three unique indexes, `_sqlite_cas` |
| `BeginMigration`, `MigrateRow` | `migrate_legacy_scoped_sqlite` (and `_json`): all rows in one transaction, rows already there skipped, a clash raised |
| `BeginVerify`, `VerifyRows`, `VerifyHead`, `VerifyStandalone`, `VerifyRaises` | `_verify_sqlite_conn`, one statement after the other in autocommit |
| `Crash` | the process dies; it may be started again |

### GrdiPipeline and the code

| Variable | Code |
|---|---|
| `rows` | the committed rows: collection, canonical key, record, place in the chain |
| `phase`, `op` | where a worker is in its call, its arguments and what it has read |
| `draft` | the records its callback appends, in order |

| Action | Code (`grdi/service.py` unless named) |
|---|---|
| `Register`, `Authorize`, `CreatePlan` | the call up to its transaction: parents are read, the decision is taken, the records are built |
| `Simulate`, `RecordOutcome`, `ViewPlan`, `Backfill` | the call and its first read |
| `Read` | the gateway events, then the receipt, each in its own snapshot (`get_execution_plan`, `record_shadow_outcome`, and the view that a simulation returns) |
| `Lock` | `run_scoped_transaction` has the locks of `ledger_ops.py` |
| `WritePrepared`, `SimulateCallback`, `OutcomeCallback`, `BackfillCallback` | the callback, on what is committed now |
| `Commit` | `append_scoped(_once)` for each record: skipped, appended, or `DuplicateCanonicalKey` and nothing at all |
| `Return`, `Abort` | the answer; a callback that raised, a dead process |

A transaction is one commit because `ImplementsLedgerCommit` holds, and its locks
are granted at once because `NoWaitCycle` does. Ids are opaque and never drawn
twice (`Fresh`; the code uses UUIDs), except an event's, which is a function of
its plan and type. A record keeps the fields that operations read; signatures
are taken to be valid and timestamps are left out, so an event is determined by
its key and source, as in the code, where `occurred_at` is copied from the source
record. A legacy ledger has plans with or without receipts and no outcomes;
`LegacyAssumption` says what is taken for granted of it: its decisions and
receipts were made by the rules of today, and no key has two rows. The gateway row's `simulated` is the mutable `simulation_state` that legacy rows
carry and rows written today do not.

### GrdiReplay and the code

| Action | Code (`grdi/service.py`, `grdi/replay.py`) |
|---|---|
| `Snapshot`, `Persist` | the two transactions of `create_replay_report`: what was built, then what is stored if the manifest is still the same |
| `GetReport`, `ListReports`, `ReadSources`, `CompareHeads` | `get_replay_report`, `list_replays_for_plan`: the two reads of `validate_report_against_sources`, the records first and the heads after them |
| `LoadPair`, `StoreComparison`, `GetComparison` | the two transactions of `compare_replays`, and `get_historical_comparison` |
| `Damage`, `Restore` | a row is changed in the database behind the program's back, and put back |

A hash is what it is computed from (`ManifestHash`), and the head of an
append-only chain is the number of its rows; with a damaged row
`verify_scoped_chain` fails for the whole project, and no chain has a head. The
policy and protocol versions of a report are those of the process that builds
it: an auditor may be on either version, as during a rolling deployment.

### SchemaMigrations, GrdiCutover and the code

`schema` is what the database has: tables as expected or not, which partial index,
and which versions are recorded under which checksum. `LockMigrations`,
`FindPending` and `CommitMigrations` are `bootstrap_postgres_scoped_schema`;
`MigrationsRaise` is each of its refusals. `GrdiCutover` extends that module: a
process is started for one job, the script with its arguments (`--apply`,
`--verify`, `--check-only`), a node, or a node that creates a plan.

| Action | Code (`scripts/grdi_rc8_cutover.py` unless named) |
|---|---|
| `Start` | `main` up to the refusals of arguments, confirmation and backup manifest |
| `Open`, `OpenFails` | `bootstrap_postgres_scoped_schema` |
| `NextCollection`, `SelectRow`, `AppendRow`, `MigrationConflicts`, `CommitMigration` | `migrate_legacy_scoped_postgres`: collection by collection, in whatever order a frozenset has, and row by row; a row that was not found is appended under the locks of its chain, taken at the first such row, and its key looked for again |
| `ListPlans`, `BackfillPlan`, `BackfillDone` | `backfill_gateway_decision_events` (`grdi/migration.py`): the first `MAX_LIST_LIMIT` plans, a transaction for each |
| `VerifyRows`, `VerifyHeads`, `VerifyRaises` | `verify_scoped_chain` |
| `Inventory`, `Count`, `Resolve` | `run_check_only`, `run_verify` and the three functions that turn checks into a verdict and an exit code |
| `LiveLock`, `LiveCommit` | `create_execution_plan` of a live node, its chains locked in the global order |
| `DeadlockDetected`, `Interrupt` | PostgreSQL's abort of a waiter in a cycle; a signal or a death, anywhere |

### CoreLedger, CoreAccess, HavVerification and the code

| Variable | Code |
|---|---|
| `ledger`, `ledgerLock` | what `EvidenceLedger`'s backend holds, and the RLock of the ledger |
| `kept`, `keyLock` | the idempotency file and the RLock of the store |
| `scoped` | the GRDI rows, by scope, each with the request that made it |
| `mirrors` | the audit file, the shadow file and the sandbox's receipts; `Torn` between truncation and write |
| `executed` | what executors and connectors have done in the world |
| `broken`, `raised`, `refused` | history: the requests that a crash ended; those that an executor or a write of the ledger ended; those refused by the backend |
| `left`, `copy`, `noted` | the steps a request has still to make, and what it last read |

A request is a sequence of steps (`Steps`): `RunAction`, `HavSteps`, `SandboxSteps`
and the `...Route` operators are the bodies of `runtime.py`, `hav/integration.py`,
`core_v3/sandbox.py` with `execution/`, and of the routes, as the writes they make
in order. Each write is then carried out by the actions below, between which
other threads run.

| Action | Code |
|---|---|
| `Receive` | authentication and roles (`CoreAccess`: `Principal`, `Permissions`), 403 without a step |
| `Look`, `Acquire`, `Recall`, `Answer` | `get` and `run` of the idempotency store: the stored answer, 409 for another body, or the operation under the lock |
| `ReadLedger`, `WriteLedger` | `_append` and `record_verification`: the whole ledger read, changed (and rechained) and rewritten under its lock; a refusal ends the request, and any write of a run may raise: what its program returned need not be what a file can hold |
| `ListCollection` | one `query` of `snapshot`, without the lock: the first `MaxQuery` rows of the caller's scope (`Page`) |
| `CommitDecision` | a GRDI operation as one atomic step |
| `Execute` | an executor or a connector acts; the executor of a run may raise, having acted or not, and ends the request |
| `ConsultReceipts`, `ReadMirror`, `TruncateMirror`, `FillMirror` | unlocked reads and rewrites of the mirror files |
| `Terminate` | the isolated sandbox child is killed on its timeout |
| `Crash` | the process dies and starts again; files stay as they are |

`Backend` is `"json"` or `"sqlite"`; `BackendTakes` is what the SQLite table refuses.
A hash is the sequence of records it commits to. `HavVerification` has the
verifier (`Evaluation`) and the fail-closed policy (`Decide`) over claims and
facts that are given; finding claims in prose is left out. A GRDI operation
is one step here because `GrdiPipeline` implements `DecisionPipeline`, whose
operations are.

### Platform and the code

`SelectJob` and `ClaimJob` are the two statements of `claim_next`, `ReadAttempts` and
`Settle` those of `fail`: Python's `sqlite3` opens no transaction for a SELECT, so
other processes commit in between. `RunHandler` returns or raises. `Register`,
`CreateJob` and `AppendEvent` are the routes of `platform_app.py`, whose audit entry
is a transaction of its own; `Promote` is the library call, which no route makes.
`ReadVersions` and `RecordVersion` are `MigrationRunner.apply`. Roles from headers
only reject requests and are left out.

## 3. Runs

| Run | Question | Bounds |
|---|---|---|
| `pg_chains` | Do concurrent transactions on chains keep every committed state verifiable, deadlock-free, ending, and an implementation of `LedgerCommit`? | 2 workers, 2 chains, 2 keys, 2 payloads, 2 calls per callback |
| `pg_mutable` | Are updates never lost and ids unique without chain locks? | 2 workers, 1 collection, 2 keys, 3 payloads (two versions of one record), versions to 3 |
| `pg_replay_reads` | Does a guarded replay read one state and never see a false failure? | 2 workers, 2 source chains plus reports and comparisons, 1 key |
| `json_one_engine` | Does the file survive crashes and threads, and implement `LedgerCommit`? | 2 threads, 2 chains and 1 mutable collection, 2 keys |
| `sqlite` | Does the SQLite file survive concurrent starts, writers, the legacy migration and crashes, implement `LedgerCommit`, and raise no alarm without a writer? | 2 processes, 2 chains and 1 mutable collection, 2 keys, 3 payloads, 2 calls, versions to 3, 4 legacy rows, one of them stored twice |
| `grdi_races` | Do overlapping operations, retries, aborts and the backfill keep receipts and events together, simulate only what was authorised, never conflict, and implement `DecisionPipeline`? | 2 workers, 1 envelope, 1 decision, 2 plans, listings of 3 rows; 4 forms of envelopes, 6 authorisers, 4 initial ledgers |
| `grdi_replay` | Is there one report per snapshot, current when stored and when returned, with a state its predecessors justify, and do comparisons answer what was asked? | 1 worker, 2 auditors, 2 plans in 3 ledgers, 2 reports, 1 comparison, 2 versions, 1 row that may be damaged |
| `grdi_cutover` | Do starts succeed, does the legacy ledger move whole, does GO mean a cut-over, does every process end? | 2 processes, 9 jobs, 6 schemas, 3 legacy ledgers, listings of 3 rows |
| `core_ledger` | Do threads of the core service keep chains, claims, answers, effects and HAV's decisions consistent, and does every request end? | 2 threads, 2 requests of 28 shapes, 1 crash, 2 scopes, queries of 2 rows |
| `platform` | Are attempts accounted for, does the audit tell the truth, are queued jobs taken? | 2 workers, 1 server, 2 jobs, 1 artifact, 1 death |
| `pg_verify_race` | **violated:** does an unguarded verification accept a ledger that is only appended to? | as `pg_replay_reads` |
| `core_sqlite` | **violated:** does the SQLite backend of the core ledger take every row of the protocol? | 2 threads, 3 requests |

Each takes from a few seconds to a few minutes.

**Why the bounds are enough.** A fork, a lost update and a deadlock each need two
actors; the theorems cover any number. Two chains are needed for a transaction
that spans collections and for lock order to matter; two keys for appends that
do not conflict on the key; two payloads for a duplicate key with another
record, and two keys with one payload for a record id conflict. Two calls
(`MaxCalls`) make a transaction continue its own head, or fail after a partial
success. The ledgers stay small because keys run out, not because a counter is
capped, except for `MaxVersion`, which bounds repeated compare-and-set; two
updates of a row are what a stale expectation needs. At most one verification
runs at a time in `pg_replay_reads`; verifications write nothing and cannot
influence one another. Symmetry is used over workers, threads, processes,
auditors, report and comparison ids, never in a run with a liveness property.

In `grdi_races` two plans write four events, and a listing shows three;
`MaxList` stands for `MAX_LIST_LIMIT`, and nothing there depends on its being
1000; what it means for replays is said in section 4. One envelope and one decision are enough for races, because operations never change
them; decisions about another envelope are covered by `Eligible`, which the
callback evaluates on the rows. `grdi_replay` starts from plans, since replays
can only begin there: an open plan beside a blocked one, or two plans that are
done and about the same or about different subjects. Two action constraints cut
what repeats itself: `WorkersRest` (no further writes once the open plan has its
outcome) and `RolloutComesLate` (processes of the second version only in the
ledgers that were done from the start). `grdi_cutover` has a schema for every
branch of the migrations and a legacy ledger for every branch of the copy.
In `core_ledger` two requests meet in every order of their steps, one of them may
be the retry of the other, and one crash is what a retry needs; the shapes are
one or more of every writing route, with the variations its branches tell apart.
`MaxQuery` stands for the 1000 rows at which `query` ends. With 2, a HAV request of
two facts fills a page, and evidence of the other scope is stored from the start,
so that a snapshot meets both reasons for not showing a row.
`platform` needs two workers for a double claim and a job with two attempts for
a stale failure; with one death, one of the two is left.

**Fairness.** `pg_chains` assumes that a running worker goes on
(`WF(Step)`: the code has no wait of its own and a callback is finite) and that
an advisory lock that is free again and again is obtained (`SF(AcquireLock)`:
PostgreSQL queues waiters). Nothing obliges a caller to begin, or a transaction
to roll back, so `TransactionsEnd` does not rest on the deadlock detector. For
mutable collections it is not claimed: without chain locks a row lock may go to
others again and again. `grdi_cutover` assumes `SF(Step(p))`, for the same reason, and its
`Step` includes the abort of a waiter in a cycle, which PostgreSQL promises and
which this order of locks needs; interruptions are not assumed to stop.
`core_ledger` assumes `WF(Serve(t))`: the two locks are
held for finite operations only, and a thread that waits for one is the only one
left in the end, since requests are finite. `platform` assumes that a worker that
is up loops; that a dead worker is started again is *not* assumed, because
`docker-compose.staging.yml` has no restart policy for it, and
`QueuedJobsAreTaken` allows for all workers being down.
Deadlock checking is on except in the runs whose requests, jobs and processes run
out by the bounds.

### What the violated runs show

1. `pg_verify_race`. The committed states are all valid (`pg_chains`,
   theorem `ChainsVerify`), yet `verify_scoped_chain` compares heads with rows
   read in an earlier snapshot and raises. Inside a replay this cannot happen,
   although the replay leaves the chain of `historical_comparisons` unlocked:
   comparisons also lock the chain of `replay_reports`, which replays hold.
   The mutant `ComparisonsChainOnly` shows that this is the only reason.
2. `core_sqlite`. The primary key of the SQLite backend is the first field whose
   name ends in `_id`. Rows are stored with sorted keys, so a verification that
   was read back is named by its `claim_id`. A second verification of the claim is
   accepted, because a new row is still named by its own id; the next write reads
   both back, finds them under one name, and fails, as does every later one.

### Noticed while modelling

Without a run of their own, because they are choices of the code, or because the
documents do not speak of them, or speak of them loosely:

*Scoped ledger.* `chain_sequence` of rows in a mutable collection is `MAX + 1` under
the lock of the key alone and may repeat, although ADR-020 gives it as unique;
two transactions on mutable collections with disjoint keys may wait for each
other's record ids. The RLock of the JSON engine belongs to the engine object:
two `EvidenceLedger`s on one file in one process lose each other's rows, although
ADR-020:134 speaks of a process-wide lock. Two nodes that start on one SQLite
file race, and the later one fails with `IntegrityError`; the start of one and
the crash of another can leave version 002 recorded without its index, which is
harmless, because `BEGIN IMMEDIATE` already serialises writers.

*GRDI.* `aggregate_outcome_state` answers `NOT_EVALUATED` before it looks for
`DEVIATED`, although ADR-018 lists the deviation first; a view read while a
simulation commits may show its receipt beside `NOT_SIMULATED` (the other way
round is excluded, `SimulatedViewHasReceipt`); `simulation_locks` do not lock the
envelope, which is harmless because envelopes never change. Events are listed
project-wide and cut off at 1000 before they are filtered by plan
(`service.py:609`): a plan simulated after that reads as `NOT_SIMULATED`, and its
outcome is refused. A plan that was shown as simulated stays so
(`SimulatedForGood`). A plan created over a decision about another envelope is
stored as blocked, and its replays are `INVALID`.

*Replay.* The earlier reports of a plan are looked for among the first 1000 of the
whole project (`replay.py:733`). In a project with more, a plan whose first report is
beyond them is never `DRIFTED`: every new snapshot of it reads `REPRODUCED`, while
`docs/protocol/GRDI_REPLAY_AUDIT_PROTOCOL_V1.md:32` says that a manifest which differs
from a prior replay is drift (with `MaxList = 1` and a third report id, TLC shows it
in seven steps; the theorem `Justified` states the bound). Every earlier report of a plan counts as prior, so the first complete
replay after an `INCOMPLETE` one is `DRIFTED` (`replay.py:668`). The heads of
the project's chains are left out of a report's identity but compared when it is
read (`replay.py:225`), and a difference is raised: a report can be read back
only until the next append to any of six chains, while ADR-020:241 calls a
changed head informational. `list_replays_for_plan` validates every report, so
once a plan has one from before its outcome, listing them fails. A report stored
as `INVALID` because some chain of the project was broken is returned for the same
records after the repair (`service.py:485`). Since a snapshot has one report, only a
report compared with itself is `EQUIVALENT`, and complete reports of one plan
differ only by their versions; `comparison_baseline_changed_during_persist` and its
like cannot happen.

*Cut-over.* `LedgerIntegrityError` is not caught by the script and ends as `ERROR`;
the backfill asks for one listing, of the first 1000 plans (`grdi/migration.py:157`),
and an apply says GO although plans beyond them have no events (with `MaxList = 1`
TLC shows it in 31 steps; the theorem `GoHolds` states the bound); the order in which collections are migrated is that of a frozenset, so the locks may
close a cycle with a live transaction; `--verify` says GO without looking at the
migration and the backfill; one branch of `resolve_check_only_outcome` for
`VERIFICATION_FAILED` is never reached, as a failed check is also an issue.

*Core service.* The audit and shadow files and the sandbox's receipts are read
and rewritten without a lock: threads lose each other's entries, and a crash, or
the timeout of an isolated sandbox, may leave a file that no longer parses, after
which requests that need it fail. A crash between a GRDI operation and the write
of its answer makes the retry create a second plan (`AnswersHold` allows exactly
that), although the protocol document calls the retry idempotent. A snapshot may
show an outcome without its action. It also shows claims without what judged
them, with no race at all: `snapshot` asks for 100000 rows but `query` returns at
most 1000 of each collection (`ledger.py:350`), and HAV writes a row of evidence for
every fact and a receipt, so evidence passes the limit first; and `record_verification`
takes claims and evidence of any scope, while a snapshot shows one. Without the
condition `Reach` in `SnapshotExplainsClaims` TLC finds both. An executor that raises
once it has acted, or an outcome that cannot be written, leaves an effect in the
world that no record tells of, and the service goes on; without `raised` in
`ExecutionAccountedFor` TLC finds it. HAV answers PASS when it
finds no claim. The sandbox is called with `"APPROVED"` and `"pilot_ready"`, which
the execution policy never accepts, so every run over HTTP is `blocked`. The dual
approval gate gives roles by position, and later approvals override the first: the
approvals (a, b, b) are refused although two people approved. The GRDI router is
built without token parameters and takes API keys only. `GET /ledger/{collection}`
is declared before `/ledger/snapshot` and shadows it.

*Platform.* Two workers may claim one job, and a stale `fail` puts a job with no
attempts left back in the queue, where it stays for ever; a late claim resurrects a
completed job; a dead worker leaves its job running. The registry takes the
stage `production` at creation, and `promote` asks no gate.

## 4. Proofs

Every theorem holds for every value of the constants that satisfies the named
assumptions of its modules; where a theorem needs more, the hypothesis is part of
its statement and said here. Most properties are not inductive, and each section
says what strengthens them.

### The PostgreSQL engine

`PgScopedLedgerProofs`, from `ScopedRowsAssumption` and
`PgScopedLedgerAssumption`:

| Theorem | Statement |
|---|---|
| `Typing` | `Spec => []TypeOK` |
| `LockOrder` | `Spec => []LocksTakenInOrder` |
| `ChainsVerify` | `Spec => []ChainVerifies` |
| `LinkedRowsStay` | `Spec => LinkedRowsAreImmutable` |
| `KeysUnique` | `Spec => []OneRowPerKeyAndRecord` |
| `UpdatesKept` | `Spec => NoLostUpdate` |
| `NoDeadlock` | `RecordIdsGuarded` and finitely many workers: `Spec => []NoWaitCycle` |
| `Refinement` | `Spec => ImplementsLedgerCommit` |

`ChainVerifies` speaks of committed rows only and is not inductive: a commit
publishes what a transaction built long before. The invariants, each proved from
those before it:

1. `TypeInv`: types, and the assumption-derived shape of calls.
2. `LockInv`: advisory locks are taken in order and held by one worker, and an
   idle worker has nothing left over (`IdleIsClean`).
3. `ChainInv`: only one worker has a chain's head (`HeadsExclusive`, from the row
   lock of the head, so it does not depend on which locks callers declare); the
   committed chains verify (`CommittedChains`); the chain *as each transaction
   sees it*, its rows over the committed ones with its own head, verifies too
   (`PrivateChains`); a worker has rows only in chains whose head it has
   (`RowsNeedTheirHead`); the row about to be inserted continues that head
   (`BuiltOnTip`); and no row of a transaction covers a committed one of a
   chain (`NothingHidden`), so commit is a union.
4. `KeyInv`, on types alone: neither the committed rows nor those of a
   transaction give a key or a record id twice; no two transactions have a row
   under the same one (`NothingShared`, by the waiting on index entries and
   updated rows); and a private row that covers a committed one is a later
   version of it, in its place (`LaterVersions`).
5. `WaitInv`: once its callback runs a worker has every lock it declared
   (`HoldsDeclared`), and the heads and rows it locked or wrote lie under them
   (`WorksUnderLocks`).

`PrivateChains` is the heart of `ChainsVerify`: `Commit` makes the private chain the
public one, and nobody else can have changed it meanwhile because of
`HeadsExclusive`. The lemma `ChainExtends` says that a valid chain with a row
built on its head is valid again; `AppendInsert` rests on it. `Refinement` maps
`touched` to claims and `tip` to drafts: `AppendSelect` is a claim,
`AppendInsert` extends a draft, `Commit` publishes, `Rollback` discards, everything
else stutters.

`NoDeadlock`: two callbacks that run have disjoint locks, so one can wait for the
other only at the unique index on the record id, in a collection without a chain
lock (`WaitsForARecordId`). Everybody in a circle therefore waits for an advisory
lock, held by somebody who waits for a later one; of finitely many, one waits for
the last (`WaitsEnd`, by the well-foundedness of `WaitLater`). **The hypothesis
`RecordIdsGuarded` is needed.** The locks order collections and keys, not record
ids: two transactions that each insert, into two such collections, a record the
other inserts under another key, would wait for one another. The callers of
`run_scoped_transaction` (`grdi/service.py`, `grdi/migration.py`) append to
chain-linked collections only and so satisfy it, as do the lock sets of
`pg_mutable`.

### Replay reads

`PgScopedLedgerProofs` again, from those two and `PgReplayReadsAssumption` and
`GrdiLocksAssumption` (the transactions are those of `grdi/ledger_ops.py`):

| Theorem | Statement |
|---|---|
| `ReplaysVerify` | `ReadersSpec => []ReplayVerifies` |
| `ManifestsAreOneState` | `ReadersSpec => []ManifestIsOneState` |

A step of the readers is a step of the engine or none, so `WaitInv` and `ChainInv`
hold here too. Every lock set of GRDI contains a chain that a replay locks, so
while the callback of a replay runs no other callback does (`ReaderAlone`), and
nobody commits but the replay itself (`ReadersFreezeTheLedger`), not even to the
comparisons, whose chain the replay has not locked. Its own uncommitted rows are
reports (`OwnReports`), so what it selects is what is committed
(`ReadsWhatIsThere`). The invariant is then that all it has read is still the
ledger (`SeenIsCurrent`), that so is all the verification it waits for has found
(`OwnerVerifies`), and that the ledger verifies.

### The JSON engine

`JsonScopedLedgerProofs`, from `ScopedRowsAssumption` and
`JsonScopedLedgerAssumption`. `OneEngine` says that all threads write through one
engine; with two on one file neither property holds:

| Theorem | Statement |
|---|---|
| `Typing` | `Spec => []TypeOK` |
| `FileVerifies` | `OneEngine => (Spec => []DiskVerifies)` |
| `Refinement` | `OneEngine => (Spec => ImplementsLedgerCommit)` |

`JsonInv`: who is not idle has the lock of the engine, the temporary file of
whoever is about to rename it holds exactly its copy (`Alone`), and the file and
every copy verify (`WholeFiles`). `DiskVerifies` alone is not inductive, because the
rename publishes what was written to the temporary file three steps before.
Every step enters, edits the copy, fills, leaves, or moves nothing (`StepKinds`).

### The SQLite engine

`SqliteScopedLedgerProofs`, from `ScopedRowsAssumption` and
`SqliteScopedLedgerAssumption`:

| Theorem | Statement |
|---|---|
| `Typing` | `Spec => []TypeOK` |
| `NothingLost` | `Spec => NoLostUpdate` |
| `MigrationIsWhole` | `Spec => LegacyMovedWhole` |
| `AlarmsAreTrue` | `Spec => AlarmsNeedAWriter` |
| `Refinement` | `Spec => ImplementsLedgerCommit` |

Every step starts, writes in, or ends the transaction of one process, or is
elsewhere (`StepKinds`), and every write leaves the state alone, extends a chain,
adds a standalone row or replaces mutable rows (`Written`, with its lemmas in
`ScopedRowsProofs`, for the JSON engine too). The invariants are that who
writes has the write lock (`Held`), that an open transaction has every committed row or
a later version of it (`KeepsCommitted`), that a migration has moved every row it has
passed (`MovedSoFar`), that the file and every open transaction verify (`AllVerify`, by
`ChainExtends` again), and that an undisturbed verification has read what is
committed (`SeenFits`). None of them needs the unique index on the chain sequences,
which a start of another process may have dropped: the write lock is enough.

### GRDI

`GrdiPipelineProofs`, for every listing limit as well. `LegacyAssumption` says what the ledger that is migrated
looks like: one row per key, receipts and events that match, records that rest on one
another and belong together (`LineageIntact`). `NoIdAssumption` says that `NoId` is
no id.

| Theorem | Statement |
|---|---|
| `Typing` | `Spec => [](TypeOK /\ OutcomesPrepared)` |
| `Authorized` | `Spec => []SimulatedMeansAuthorized` |
| `Matched` | `Spec => []EventsMatchReceipts` |
| `Retries` | `Spec => []RetriesNeverConflict` |
| `Views` | `Spec => []SimulatedViewHasReceipt` |
| `ShownForGood` | `Spec => SimulatedForGood` |
| `Backfills` | `Spec => []BackfillLeavesNothing` |
| `Implements` | `Spec => ImplementsPipeline` |

An operation prepares its records on what it reads and publishes them later, so
none of the properties is inductive. `OutcomesPrepared` says that an outcome has
its receipt by the time it is written. For `Authorized` the invariant
(`LedgerSound`) is that every row *and every prepared write* rests on rows that
are there (`Grounded`), which later rows cannot undo, and that no key has two
rows: the envelope a decision was made about is then the one its receipt names.
No lock is needed for this, since nothing it rests on ever changes. `Matched`
does need locks: two simulations of one plan could each see that there is no
receipt. `EventsInv` says that open transactions share no lock
(`LocksExclusive`), that a prepared receipt is for a plan without one and comes
with its event (`ReceiptPrepared`), and that a prepared event names the stored
receipt or the one prepared with it (`EventPrepared`). A commit of somebody else
could only disturb the first by publishing a receipt for the same plan, and then
both would hold the lock of its key (`CommitMatchesOthers`).

`Retries` rests on `RetryInv`: ids of new records are drawn apart (`IdsApart`), what
is about to be written under such an id, or for a receipt or an outcome, is not
in the ledger (`NewInLedger`, by the lock under which it was looked for), and under
the key of a first event only the very same event is (`CreatedNamesPlan`). `Views` and
`ShownForGood` rest on `ReadInv`: what a view has read of a plan's events stays
true, and a receipt is there with its event (`Matched`), so the read that comes
after finds it. `Backfills` rests on `BackfillInv`: the writes of a backfill about to
commit complete the plan, with what a simulation committed meanwhile.

`Implements` needs in addition that the records of a plan belong together,
whoever wrote them (`LineageInv`: a receipt repeats its request, a gateway decision
was made of the records its request names). A receipt is written by
`simulate_execution` only for an eligible plan, but what the pipeline promises is
that the plan was *stored* as eligible, in another transaction: that both
evaluate to the same thing is what lineage and the immutability of rows give. Every
commit then changes the stage of the plan of its operation alone, by one.

### GRDI replays

`GrdiPipelineProofs` again, from its assumptions and `ReplayAssumption`
(the migrated ledger is finite, `MaxList` is a natural
number, `NoId` is no id):

| Theorem | Statement |
|---|---|
| `OneReport` | `ReplaySpec => []OneReportPerSnapshot` |
| `Current` | `ReplaySpec => ReportsAreCurrent` |
| `Justified` | with at most `MaxList` report ids: `ReplaySpec => []StatesAreJustified` |
| `ComparisonsAnswered` | `ReplaySpec => ComparisonsAnswer` |

Auditors write nothing the services read, so the theorems of `GrdiPipeline` hold here
(`ServicesGoOn`), and the ledger stays finite, since a transaction writes at most
three rows (`LedgerIsFinite`). The invariant (`ReplayInv`) is that reports differ in
id, place and manifest (`ReportsApart`), that a comparison is of two reports and under
the key of the two (`ComparisonsApart`), that an auditor works with stored reports
(`AuditSound`), and that a report with heads is about a set of rows that were all
there, undamaged, and have only been added to since (`AboutLedger`). That last part is
what `Current` needs: `validate_report_against_sources` reads the records first and
the heads after them, so a record could be added, or damaged, between the two. But a
chain of which rows are only added has the same head only if it has the same rows
(`SameHeadsSameRows`), so equal heads vouch for the records read before them. For
`Justified`, a new report has a manifest no other has, so it is `REPRODUCED` only if
no earlier report of its plan was found; the hypothesis says that all of them are on
the page that is searched. **Without it the property is false**, see "Noticed while
modelling".

### The cut-over

`GrdiCutoverProofs`, from three assumptions. `ProcessesAssumption`: `NoProcess` is no
process. `LegacyAssumption`: a legacy row has a key and a payload, and its key is
not the id of a plan that is made now, since ids are drawn as fresh UUIDs.
`JobsAssumption`: `MaxList` is a natural number, and a job has one of the modes that
`build_parser` (with nodes and plans) knows, with or without a restricted scope. The
processes, the schemas found, the legacy rows (also repeated, or contradicting one
another) and the jobs are arbitrary.

| Theorem | Statement |
|---|---|
| `OpeningsSucceed` | `Spec => []StartsSucceed` |
| `LegacyMovesWhole` | `Spec => []LegacyMigratedWhole` |
| `GoHolds` | at most `MaxList` decisions at any time: `Spec => []GoMeansCutOver` |

1. `Serialised`: who has read what is missing has the migration lock, so it is still
   missing when the versions are written, and opening fails only for what the
   schema itself is. No step changes a schema that cannot be brought up to date, nor
   writes one that does not verify (`SchemaKept`).
2. `Kept`: the rows and drafts are chains of rows, and a process has the locks that its
   place in its work says: none before the migration and after its commit, only
   those of legacy collections within it, and for a plan those it has passed.
3. `Moved`: every legacy row that a migration has passed is in the ledger *as it sees
   it*, over its locked chains; a chain it has locked extends the committed one by
   such rows, in order (`Copying`, `Extends`). While it has the lock nobody else
   changes that chain (`Adds`), and elsewhere rows are only added. What is appended
   can only be missing while nothing was copied, so its order is right
   (`CopyingAppends`); and a live row repeats no key, because its id was not in the
   ledger before (`Unused`).
4. `Judged`: a check that says PASS for the schema stays true, and a run whose scope
   was restricted keeps a check that is not evaluated, so it cannot end with GO.
5. `CutOver`: after its own commit an apply knows that every legacy row is there;
   another migration then has nothing to add (`WholeAddsNothing`), the receipts and
   states of decisions do not change any more, and every decision has its events
   or is still on the list that is worked through (`Settled`). A plan that commits
   meanwhile is not on the list but brings its own event.

**Without the hypothesis of `GoHolds` the property is false**, see "Noticed while
modelling": `MAX_LIST_LIMIT` is 1000.

### The core service

`CoreLedgerProofs`, from three assumptions. `CoreLedgerAssumption`: `NoThread` is no
thread, the backend is one of the two, the bounds are naturals, `MaxQuery` among them. `RequestsAssumption`:
a request names one of the operations and has the fields that its route reads; a
route without them answers 422 before a step is made. `StoredAssumption`: what the
ledger holds at the start was written by an earlier run of the service, so it
has the properties that are proved of every later one. Requests, threads,
scopes and the stored rows are arbitrary.

| Theorem | Statement |
|---|---|
| `ServiceIsOrderly` | `Spec => []Orderly` |
| `LedgerVerifies` | `Spec => []ChainVerifies` |
| `StatusFollows` | `Spec => []StatusFollowsVerifications` |
| `AllowedIsSupported` | `Spec => []AllowedOutputIsSupported` |
| `AnswersAlwaysHold` | `Spec => []AnswersHold` |
| `ExecutionIsAccountedFor` | `Spec => []ExecutionAccountedFor` |
| `SnapshotsExplainClaims` | `Spec => []SnapshotExplainsClaims` |

A request is a plan of steps that is carried out from the front, while other
threads change what it works on; the invariants say what the steps behind it
have left, each layer on those before it:

1. `Orderly`: a thread that is not idle has the rest of the plan of its own request
   (`Serving`, and no two serve one number); who writes holds the lock and a copy
   that *is* the ledger, and who works under a key holds the lock of the keys, with
   no answer kept for it (`Locked`); every collection is a chain (`AreChained`). The
   chain property needs the copy: a write rechains the copy and stores it whole.
   Every step of the service is one of eight forms (`Moves`), by what it does to
   the files, so that the later layers look at those only.
2. `Explained`: claims follow their verifications and those their evidence. Only
   writes touch it, and a verification is recorded with its claim in one write.
3. `Traced`: what the steps behind a thread wrote is there (`Took`), and a record
   that carries the number of a request comes from a step which that request has
   made (`Owns`). Ids are drawn apart, so a decision and the action it is about are
   of one plan, and a decision to allow an output comes after the verifications its
   claims rest on: this is `AllowedIsSupported`.
4. `Answered`: a kept answer is of a request whose whole plan is behind it and which
   nobody serves (`Done`), and one key has one answer. `Rooted`: whoever wrote a GRDI
   row under a key is broken by a crash, is about to answer, or has its answer kept
   under that key. Two unbroken rows of a key would both be kept, under one number.
5. `Accounted`: an action that was carried out is allowed and has its outcome, or its
   request is still served, or is one that a crash, its executor or a refused write
   ended. The last covers both backends: on SQLite it also happens by itself (run
   `core_sqlite`).
6. `Snapshots`: what explains the claims that a snapshot has listed is in what it has
   listed after them, or is in the ledger and not beyond the reach of the query
   that is still to come. It needs two facts about pages: an append adds
   nothing to a page but its own row (`PageAfter`), so what a later page has of an
   older record an earlier page has too; and a record keeps its scope.

Which of several records is the last, and how long a chain is from which a row
was taken, are questions of induction over sequences. They are asked here of
the least or the greatest index with a property (`LeastElement`,
`GreatestElement`, from the well-foundedness of the naturals), and `Chained` is
written in closed form, as the function of all prefixes, not by recursion.

### The platform

`PlatformProofs`, from `PlatformAssumption` (the workers are finitely many, and a
worker is no server):

| Theorem | Statement |
|---|---|
| `Typing` | `Spec => []TypeOK` |
| `AttemptsCounted` | `Spec => []AttemptsAccountedFor` |
| `AuditIsTrue` | `Spec => []AuditTellsTheTruth` |

`claim_next` reads and then writes, so the bound on a job's attempts rests on who
read before. The invariant (`Counted`) counts them: the attempts of a job and the
workers that have selected and not yet claimed it are together at most its
`max_attempts` and one less than there are workers (`ClaimsBounded`); a selection
finds the attempts below `max_attempts`, and not more than all workers can have
selected. Likewise its runs and the workers that have claimed and not yet run it
are at most its attempts (`RunsCounted`), and what a worker is about to write is
true of the job now, since runs and attempts never fall (`AboutToEnd`). `AuditKept` says
that a server between its two transactions is about to tell of something stored,
and that the others have nothing to tell.

### What is not proved

Every safety invariant, action property and refinement that a passing run checks
is a theorem, with the hypotheses that its section states. **Only model-checked** are `TransactionsEnd`, `RunsEnd`, `RequestsEnd` and
`QueuedJobsAreTaken`: liveness under fairness is out of the prover's reach. The finite
bounds of the models (`MaxCalls`, `MaxVersion`, `MaxJobs`, `MaxRecords`, `MaxDeaths`) are
constants, and the theorems hold for all of them.

## 5. Plan

The modules above and the theorems about them are done. What would come next:

1. *The core ledger by several processes*, which lose each other's rows, and the
   order in which PostgreSQL returns its rows.
2. *The engines and GRDI together*: the cut-over and the services use a ledger at its
   promise, and each engine is shown to keep it; a composition in which the
   migration runs on `PgScopedLedger` itself would show the locks statement by
   statement.

**Not modelled:** the numerical analysis (graphs, kernels, agents, benchmarks),
which is single-threaded and without protocol; governance consensus, one
function with floating-point weights; the circuit breaker, the retry helper and
the rate limiter, small classes over the wall clock; the shadow and meta stores,
files of single-threaded commands; read-only HTTP routes, the code benchmark's
routes and the refresh of key sets; several processes on one core ledger and its
PostgreSQL backend; library callers of the sandbox that choose their own keys, and the
rollback of a receipt; formatting and signing (a signature is taken to verify
exactly what was signed).
