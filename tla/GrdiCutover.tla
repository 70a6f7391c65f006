----------------------------- MODULE GrdiCutover -----------------------------
(***************************************************************************)
(* The cut-over of a PostgreSQL ledger (scripts/grdi_rc8_cutover.py): an   *)
(* operator's apply, verify and check-only, beside other operators, nodes  *)
(* that start and live transactions.  An apply migrates the schema, copies *)
(* the legacy rows into the scoped ledger in one transaction, backfills    *)
(* the gateway events plan by plan and verifies the result.                *)
(*                                                                         *)
(* One tenant and project.  The scoped ledger is taken at its promise      *)
(* (LedgerCommit), so a chain is the sequence of its rows; the advisory    *)
(* lock of a chain stands for those of its keys.                           *)
(***************************************************************************)
EXTENDS SchemaMigrations, SequencesExt

CONSTANTS
    Schemas,        \* the schemas a database can have before
    LegacyLedgers,  \* the rows of phigraph_core_ledger, by collection
    Jobs,           \* what processes are started for
    MaxList         \* MAX_LIST_LIMIT: how many rows one listing returns

\* Collections are numbered in lock order; the events have no legacy rows.
Requests == 1   Events == 2   Decisions == 3   Receipts == 4
Collections == 1..4
Migratable == {Requests, Decisions, Receipts}

RowOf(k, p) == [key |-> k, payload |-> p]
LegacyRows == UNION {ToSet(l[c]) : l \in LegacyLedgers, c \in Migratable}

\* Ids are drawn at random, so that of a plan made now is none of the old ones; a
\* process stands for the id of the plan it makes.
ASSUME LegacyAssumption ==
    /\ LegacyLedgers \subseteq [Migratable -> Seq(LegacyRows)]
    /\ \A r \in LegacyRows : r = RowOf(r.key, r.payload) /\ r.key \notin Processes

ASSUME JobsAssumption ==
    /\ MaxList \in Nat
    /\ \A j \in Jobs :
          /\ j.mode \in {"apply", "verify", "check", "start", "plan"}
          /\ j.partial \in BOOLEAN

VARIABLES
    legacy,  \* phigraph_core_ledger, which the cut-over only reads
    rows,    \* the committed scoped rows of each collection, in chain order
    chain,   \* who has the advisory lock of each chain
    draft,   \* the chains as a transaction will leave them
    job,     \* what a process does
    todo,    \* what it has still to go through
    at,      \* and where it is in the legacy rows of the first of that
    seen,    \* the rows its verification has read
    checks, issues,   \* its report so far
    report   \* its outcome

ledgerVars == <<legacy, rows, chain, draft>>
vars == <<schemaVars, phase, goal, ledgerVars, job, todo, at, seen, checks, issues, report>>

HasKey(s, k) == \E r \in ToSet(s) : r.key = k
Clashes(s, r) == \E q \in ToSet(s) : q.key = r.key /\ q.payload # r.payload

\* append_scoped(_once): a row that is there is left alone.
AppendOnce(s, r) == IF HasKey(s, r.key) THEN s ELSE Append(s, r)

Checks == [schema |-> "NOT_EVALUATED", chains |-> "NOT_EVALUATED",
           counts |-> "NOT_APPLICABLE", scope |-> "NOT_APPLICABLE"]
NoReport == [state |-> "none", final |-> "none", exit |-> 0]
NoJob == [mode |-> "none", partial |-> FALSE]

Init ==
    /\ schema \in Schemas
    /\ legacy \in LegacyLedgers
    /\ rows = [c \in Collections |-> << >>]
    /\ chain = [c \in Collections |-> NoProcess]
    /\ draft = [p \in Processes |-> [c \in Collections |-> << >>]]
    /\ migrating = NoProcess
    /\ phase = [p \in Processes |-> "idle"]
    /\ goal = [p \in Processes |-> "done"]
    /\ pending = [p \in Processes |-> {}]
    /\ job = [p \in Processes |-> NoJob]
    /\ todo = [p \in Processes |-> << >>]
    /\ at = [p \in Processes |-> 1]
    /\ seen = [p \in Processes |-> [c \in Collections |-> 0]]
    /\ checks = [p \in Processes |-> Checks]
    /\ issues = [p \in Processes |-> {}]
    /\ report = [p \in Processes |-> NoReport]

-----------------------------------------------------------------------------
(***************************************************************************)
(* The decisions of the script.                                            *)
(***************************************************************************)
Go(state) == [state |-> state, final |-> "GO", exit |-> 0]
NoGo(state, code) == [state |-> state, final |-> "NO_GO", exit |-> code]

\* What stands in the way of an apply, and the exit code for it: a digest that
\* differs is a conflict, everything else a precondition that is not met.
Refusal(a) ==
    IF \/ a.partial \/ ~a.confirmed \/ ~a.acknowledged
       \/ a.backup \in {"no manifest", "placeholder", "other database", "no file", "empty", "stale"}
    THEN 2
    ELSE IF a.backup = "other digest" THEN 3
    ELSE IF a.backup = "not a custom dump" THEN 2 ELSE 0

Verdicts(k) == {k.schema, k.chains, k.counts, k.scope}
NotEvaluated(k) == "NOT_EVALUATED" \in Verdicts(k)
AllWell(k) == Verdicts(k) \subseteq {"PASS", "NOT_APPLICABLE"}

CheckOnlyOutcome(k, found) ==
    IF found # {} THEN NoGo("CONFLICT", 3)
    ELSE IF k.schema = "NOT_EVALUATED" /\ k.scope = "NOT_APPLICABLE"
         THEN NoGo("READY_FOR_CUTOVER", 2)
    ELSE IF NotEvaluated(k) THEN NoGo("INCOMPLETE", 4)
    ELSE IF AllWell(k) THEN Go("VALIDATED") ELSE NoGo("NOT_READY", 2)

VerifyOutcome(k, found) ==
    IF "checksum" \in found THEN NoGo("CONFLICT", 3)
    ELSE IF found # {} THEN NoGo("VERIFICATION_FAILED", 4)
    ELSE IF NotEvaluated(k) THEN NoGo("INCOMPLETE", 4)
    ELSE IF AllWell(k) THEN Go("VALIDATED") ELSE NoGo("VERIFICATION_FAILED", 4)

ApplyOutcome(k, found) ==
    IF found # {} THEN NoGo("VERIFICATION_FAILED", 4)
    ELSE IF NotEvaluated(k) THEN NoGo("INCOMPLETE", 4)
    ELSE IF AllWell(k) THEN Go("VALIDATED") ELSE NoGo("VERIFICATION_FAILED", 4)

Outcome(p, k, found) ==
    CASE job[p].mode = "check" -> CheckOnlyOutcome(k, found)
      [] job[p].mode = "verify" -> VerifyOutcome(k, found)
      [] job[p].mode = "apply" -> ApplyOutcome(k, found)
      [] OTHER -> NoReport

Ended(p) ==
    /\ phase' = [phase EXCEPT ![p] = "done"]
    /\ chain' = [c \in Collections |-> IF chain[c] = p THEN NoProcess ELSE chain[c]]
    /\ draft' = [draft EXCEPT ![p] = [c \in Collections |-> << >>]]
    /\ todo' = [todo EXCEPT ![p] = << >>]
    /\ at' = [at EXCEPT ![p] = 1]

\* The transaction is rolled back and the connection closed; main reports NO_GO.
Failed(p, state) ==
    /\ Ended(p)
    /\ report' = [report EXCEPT ![p] =
                     IF job[p].mode \in {"start", "plan"} THEN [NoReport EXCEPT !.state = state]
                     ELSE NoGo(state, 4)]
    /\ UNCHANGED <<legacy, rows, goal, job, seen, checks, issues>>

-----------------------------------------------------------------------------
(***************************************************************************)
(* Starting: the script with its arguments, a node that opens the ledger,  *)
(* a node that opens it and creates a plan.                                *)
(***************************************************************************)
FirstGoal(mode) ==
    CASE mode = "start" -> "done" [] mode = "plan" -> "live" [] OTHER -> "migrate"

\* The collections to migrate are a frozenset, which has any order; the locks of a
\* plan are sorted.
Tasks(mode) ==
    CASE mode = "apply" -> {s \in [1..3 -> Migratable] : ToSet(s) = Migratable}
      [] mode = "plan" -> {<<Requests, Events, Decisions>>}
      [] OTHER -> {<< >>}

Start(p) ==
    /\ phase[p] = "idle"
    /\ \E j \in Jobs :
          /\ job' = [job EXCEPT ![p] = j]
          /\ goal' = [goal EXCEPT ![p] = FirstGoal(j.mode)]
          /\ phase' = [phase EXCEPT ![p] =
                CASE j.mode \in {"verify", "check"} -> "inventory"
                  [] j.mode = "apply" /\ Refusal(j) # 0 -> "done"
                  [] OTHER -> "opening"]
          /\ report' = [report EXCEPT ![p] =
                IF j.mode = "apply" /\ Refusal(j) # 0 THEN NoGo("refused", Refusal(j)) ELSE @]
          /\ checks' = [checks EXCEPT ![p].scope =
                IF j.mode \in {"verify", "check"} /\ j.partial THEN "NOT_EVALUATED" ELSE @]
          /\ \E tasks \in Tasks(j.mode) : todo' = [todo EXCEPT ![p] = tasks]
    /\ UNCHANGED <<schemaVars, ledgerVars, at, seen, issues>>

Open(p) ==
    /\ LockMigrations(p) \/ FindPending(p) \/ CommitMigrations(p)
    /\ UNCHANGED <<ledgerVars, job, todo, at, seen, checks, issues, report>>

OpenFails(p) == MigrationsRaise(p) /\ Failed(p, "TransactionUnavailable")

-----------------------------------------------------------------------------
(***************************************************************************)
(* migrate_legacy_scoped_postgres: one transaction over all collections,   *)
(* row by row; a row that is missing is appended under the locks of its    *)
(* chain, which are taken when the first of them is met.                   *)
(***************************************************************************)
View(p, c) == IF chain[c] = p THEN draft[p][c] ELSE rows[c]

Passed(c, i) == SubSeq(legacy[c], 1, i - 1)
MayTake(p, c) == chain[c] \in {p, NoProcess}

NextCollection(p) ==
    /\ phase[p] = "migrate" /\ todo[p] # << >>
    /\ at[p] > Len(legacy[Head(todo[p])])
    /\ todo' = [todo EXCEPT ![p] = Tail(@)]
    /\ at' = [at EXCEPT ![p] = 1]
    /\ UNCHANGED <<schemaVars, phase, goal, ledgerVars, job, seen, checks, issues, report>>

\* The row at hand, and whether DuplicateCanonicalKey is raised for it: it differs
\* from one passed before under its key, or from the one that is there.
AtRow(p) == todo[p] # << >> /\ at[p] <= Len(legacy[Head(todo[p])])
Row(p) == legacy[Head(todo[p])][at[p]]

Known(p) ==
    LET c == Head(todo[p])
    IN  HasKey(Passed(c, at[p]), Row(p).key) \/ HasKey(View(p, c), Row(p).key)

Conflicting(p) ==
    LET c == Head(todo[p])
    IN  IF HasKey(Passed(c, at[p]), Row(p).key)
        THEN Clashes(Passed(c, at[p]), Row(p)) ELSE Clashes(View(p, c), Row(p))

SelectRow(p) ==
    /\ phase[p] = "migrate" /\ AtRow(p) /\ ~Conflicting(p)
    /\ IF Known(p)
       THEN at' = [at EXCEPT ![p] = @ + 1] /\ UNCHANGED phase
       ELSE phase' = [phase EXCEPT ![p] = "append"] /\ UNCHANGED at
    /\ UNCHANGED <<schemaVars, goal, ledgerVars, job, todo, seen, checks, issues, report>>

\* The locks, and _append_on_conn, which looks for the key again.
AppendRow(p) ==
    /\ phase[p] = "append"
    /\ LET c == Head(todo[p])
       IN  /\ MayTake(p, c) /\ ~Conflicting(p)
           /\ chain' = [chain EXCEPT ![c] = p]
           /\ draft' = [draft EXCEPT ![p][c] = AppendOnce(View(p, c), Row(p))]
    /\ phase' = [phase EXCEPT ![p] = "migrate"]
    /\ at' = [at EXCEPT ![p] = @ + 1]
    /\ UNCHANGED <<schemaVars, goal, legacy, rows, job, todo, seen, checks, issues, report>>

\* DuplicateCanonicalKey.
MigrationConflicts(p) ==
    /\ \/ phase[p] = "migrate" /\ AtRow(p)
       \/ phase[p] = "append" /\ MayTake(p, Head(todo[p]))
    /\ Conflicting(p)
    /\ Failed(p, "VERIFICATION_FAILED")
    /\ UNCHANGED schemaVars

\* Mutant: the locks are those of the session, not of the transaction.
ReleasedRowsOnly(p) ==
    /\ draft' = [draft EXCEPT ![p] = [c \in Collections |-> << >>]]
    /\ UNCHANGED chain

Published(p) == [c \in Collections |-> View(p, c)]
Released(p) ==
    /\ chain' = [c \in Collections |-> IF chain[c] = p THEN NoProcess ELSE chain[c]]
    /\ draft' = [draft EXCEPT ![p] = [c \in Collections |-> << >>]]

\* Mutant: every collection is committed as soon as it is done.
CommitCollection(p) ==
    /\ phase[p] = "migrate"
    /\ rows' = Published(p)
    /\ Released(p)
    /\ phase' = [phase EXCEPT ![p] = IF todo[p] = << >> THEN "list" ELSE @]
    /\ UNCHANGED <<schemaVars, goal, legacy, job, todo, at, seen, checks, issues, report>>

CommitMigration(p) ==
    /\ phase[p] = "migrate" /\ todo[p] = << >>
    /\ rows' = Published(p)
    /\ Released(p)
    /\ phase' = [phase EXCEPT ![p] = "list"]
    /\ UNCHANGED <<schemaVars, goal, legacy, job, todo, at, seen, checks, issues, report>>

-----------------------------------------------------------------------------
(***************************************************************************)
(* backfill_gateway_decision_events: one listing, then one transaction for *)
(* each plan of it, and a verification of the chains at the end.           *)
(***************************************************************************)
CreatedRow(k) == RowOf(<<k, "GATEWAY_DECISION_CREATED">>, "event")
SimulatedRow(k) == RowOf(<<k, "SIMULATION_RECORDED">>, "event")

\* The mutable state of a legacy decision, and its receipt.
Simulated(row, R) == row.payload = "SIMULATED" /\ HasKey(R[Receipts], row.key)

EventsOf(row, R) ==
    {CreatedRow(row.key)} \cup (IF Simulated(row, R) THEN {SimulatedRow(row.key)} ELSE {})

Backfilled(row, R) ==
    LET created == AppendOnce(R[Events], CreatedRow(row.key))
    IN  IF Simulated(row, R) THEN AppendOnce(created, SimulatedRow(row.key)) ELSE created

FirstPage(s) == IF Len(s) <= MaxList THEN s ELSE SubSeq(s, 1, MaxList)

ListPlans(p) ==
    /\ phase[p] = "list"
    /\ todo' = [todo EXCEPT ![p] = FirstPage(rows[Decisions])]
    /\ phase' = [phase EXCEPT ![p] = "backfill"]
    /\ UNCHANGED <<schemaVars, goal, ledgerVars, job, at, seen, checks, issues, report>>

\* Mutant: a plan whose creation event is there is taken to be done.
BackfillPlanOnce(p) ==
    /\ phase[p] = "backfill" /\ todo[p] # << >>
    /\ chain[Events] = NoProcess
    /\ rows' = [rows EXCEPT ![Events] =
                   IF HasKey(@, CreatedRow(Head(todo[p]).key).key) THEN @
                   ELSE Append(@, CreatedRow(Head(todo[p]).key))]
    /\ todo' = [todo EXCEPT ![p] = Tail(@)]
    /\ UNCHANGED <<schemaVars, phase, goal, legacy, chain, draft, job, at, seen, checks, issues, report>>

BackfillPlan(p) ==
    /\ phase[p] = "backfill" /\ todo[p] # << >>
    /\ chain[Events] = NoProcess
    /\ rows' = [rows EXCEPT ![Events] = Backfilled(Head(todo[p]), rows)]
    /\ todo' = [todo EXCEPT ![p] = Tail(@)]
    /\ UNCHANGED <<schemaVars, phase, goal, legacy, chain, draft, job, at, seen, checks, issues, report>>

BackfillDone(p) ==
    /\ phase[p] = "backfill" /\ todo[p] = << >>
    /\ phase' = [phase EXCEPT ![p] = "rows"]
    /\ UNCHANGED <<schemaVars, goal, ledgerVars, job, todo, at, seen, checks, issues, report>>

(***************************************************************************)
(* verify_scoped_chain reads rows and heads in snapshots of their own      *)
(* (PgReplayReads has the statements one by one): a chain that grew in     *)
(* between raises LedgerIntegrityError, which the script does not catch    *)
(* (it expects TransactionUnavailable) and main reports as an ERROR.       *)
(***************************************************************************)
VerifyRows(p) ==
    /\ phase[p] = "rows"
    /\ seen' = [seen EXCEPT ![p] = [c \in Collections |-> Len(rows[c])]]
    /\ phase' = [phase EXCEPT ![p] = "heads"]
    /\ UNCHANGED <<schemaVars, goal, ledgerVars, job, todo, at, checks, issues, report>>

HeadsMatch(p) == \A c \in Collections : seen[p][c] = Len(rows[c])

\* After the backfill of an apply comes run_verify.
VerifyHeads(p) ==
    /\ phase[p] = "heads" /\ HeadsMatch(p)
    /\ IF goal[p] = "migrate"
       THEN phase' = [phase EXCEPT ![p] = "inventory"] /\ UNCHANGED checks
       ELSE /\ phase' = [phase EXCEPT ![p] = "counts"]
            /\ checks' = [checks EXCEPT ![p].chains = "PASS"]
    /\ UNCHANGED <<schemaVars, goal, ledgerVars, job, todo, at, seen, issues, report>>

VerifyRaises(p) ==
    /\ phase[p] = "heads" /\ ~HeadsMatch(p)
    /\ Failed(p, "ERROR")
    /\ UNCHANGED schemaVars

-----------------------------------------------------------------------------
(***************************************************************************)
(* run_check_only and run_verify, which an apply runs last.  Check-only    *)
(* verifies the schema only if version 2 is recorded.                      *)
(***************************************************************************)
Blockers(p) ==
    (IF ChecksumMismatch(schema) THEN {"checksum"} ELSE {})
    \cup (IF job[p].mode # "check" /\ 2 \in Unrecorded(schema) THEN {"missing"} ELSE {})

SchemaVerdict(p) ==
    IF job[p].mode = "check" /\ schema.recorded[2] # "ours" THEN "NOT_EVALUATED"
    ELSE IF SchemaVerifies(schema) THEN "PASS" ELSE "FAIL"

Inventory(p) ==
    /\ phase[p] = "inventory"
    /\ LET verdict == SchemaVerdict(p)
       IN  /\ checks' = [checks EXCEPT ![p].schema = verdict,
                            ![p].counts = IF job[p].mode = "check" THEN @ ELSE "NOT_EVALUATED"]
           /\ issues' = [issues EXCEPT ![p] = Blockers(p) \cup
                            (IF verdict = "FAIL" THEN {"schema"} ELSE {})]
           /\ phase' = [phase EXCEPT ![p] = IF verdict = "PASS" THEN "opening" ELSE "resolve"]
    /\ goal' = [goal EXCEPT ![p] = "rows"]
    /\ UNCHANGED <<schemaVars, ledgerVars, job, todo, at, seen, report>>

Count(p) ==
    /\ phase[p] = "counts"
    /\ checks' = [checks EXCEPT ![p].counts = IF job[p].mode = "check" THEN @ ELSE "PASS"]
    /\ phase' = [phase EXCEPT ![p] = "resolve"]
    /\ UNCHANGED <<schemaVars, goal, ledgerVars, job, todo, at, seen, issues, report>>

\* run_verify ends by passing the scope it was not asked to restrict.
Resolve(p) ==
    /\ phase[p] = "resolve"
    /\ LET k == [checks[p] EXCEPT !.scope =
                    IF job[p].mode # "check" /\ ~job[p].partial THEN "PASS" ELSE @]
       IN  report' = [report EXCEPT ![p] = Outcome(p, k, issues[p])]
    /\ phase' = [phase EXCEPT ![p] = "done"]
    /\ UNCHANGED <<schemaVars, goal, ledgerVars, job, todo, at, seen, checks, issues>>

-----------------------------------------------------------------------------
(***************************************************************************)
(* A live create_execution_plan, its chains locked in the global order.    *)
(***************************************************************************)
LiveLock(p) ==
    /\ phase[p] = "live" /\ todo[p] # << >>
    /\ chain[Head(todo[p])] = NoProcess
    /\ chain' = [chain EXCEPT ![Head(todo[p])] = p]
    /\ todo' = [todo EXCEPT ![p] = Tail(@)]
    /\ UNCHANGED <<schemaVars, phase, goal, legacy, rows, draft, job, at, seen, checks, issues, report>>

LiveRow(c, p) ==
    CASE c = Requests -> RowOf(p, "request")
      [] c = Events -> CreatedRow(p)
      [] c = Decisions -> RowOf(p, "NOT_SIMULATED")

LiveCommit(p) ==
    /\ phase[p] = "live" /\ todo[p] = << >>
    /\ rows' = [c \in Collections |->
                   IF chain[c] = p THEN Append(rows[c], LiveRow(c, p)) ELSE rows[c]]
    /\ Ended(p)
    /\ UNCHANGED <<schemaVars, goal, legacy, job, seen, checks, issues, report>>

(***************************************************************************)
(* Waiting.  PostgreSQL ends a cycle of waits by aborting one of them; an  *)
(* interrupt or a death ends a process anywhere.                           *)
(***************************************************************************)
Wants(p) ==
    IF phase[p] = "append" \/ (phase[p] = "live" /\ todo[p] # << >>) THEN {Head(todo[p])} ELSE {}

WaitsFor(p) == {chain[c] : c \in Wants(p)} \ {p, NoProcess}

InWaitCycle(p) ==
    \E S \in SUBSET Processes : p \in S /\ \A q \in S : WaitsFor(q) \cap S # {}

DeadlockDetected(p) ==
    /\ InWaitCycle(p)
    /\ Failed(p, "ERROR")
    /\ UNCHANGED schemaVars

Interrupt(p) ==
    /\ phase[p] \notin {"idle", "done"}
    /\ Failed(p, "INTERRUPTED")
    /\ migrating' = Unlocked(p)
    /\ pending' = [pending EXCEPT ![p] = {}]
    /\ UNCHANGED schema

Step(p) ==
    \/ Open(p) \/ OpenFails(p)
    \/ NextCollection(p) \/ SelectRow(p) \/ AppendRow(p) \/ MigrationConflicts(p)
    \/ CommitMigration(p)
    \/ ListPlans(p) \/ BackfillPlan(p) \/ BackfillDone(p)
    \/ VerifyRows(p) \/ VerifyHeads(p) \/ VerifyRaises(p)
    \/ Inventory(p) \/ Count(p) \/ Resolve(p)
    \/ LiveLock(p) \/ LiveCommit(p)
    \/ DeadlockDetected(p)

Next == \E p \in Processes : Start(p) \/ Step(p) \/ Interrupt(p)

Spec == Init /\ [][Next]_vars

-----------------------------------------------------------------------------
(***************************************************************************)
(* "Serialize scoped schema migrations across concurrent startup nodes":   *)
(* opening the ledger fails only on a schema that cannot be brought up to  *)
(* date, whoever else is opening it (postgres_migrations.py:277).          *)
(***************************************************************************)
StartsSucceed ==
    \A p \in Processes :
        report[p].state = "TransactionUnavailable" =>
            ChecksumMismatch(schema) \/ ~Applies(schema, Unrecorded(schema))

(***************************************************************************)
(* The legacy rows are in the scoped ledger all or not at all, each once   *)
(* and in their old order, whatever is interrupted, repeated or written    *)
(* beside them.                                                            *)
(***************************************************************************)
NothingCopied == \A c \in Migratable : \A r \in ToSet(rows[c]) : ~HasKey(legacy[c], r.key)

\* Of two rows of a chain, the later does not repeat the key of the earlier, and if
\* it is a legacy row the earlier is one that comes before it there, or is new.
InOldOrder(c, chained) ==
    \A m, n \in DOMAIN chained : m < n =>
        /\ chained[m].key # chained[n].key
        /\ \A j \in DOMAIN legacy[c] :
              legacy[c][j].key = chained[n].key /\ HasKey(legacy[c], chained[m].key)
              => HasKey(Passed(c, j), chained[m].key)

LegacyMigratedWhole ==
    \/ NothingCopied
    \/ \A c \in Migratable :
          ToSet(legacy[c]) \subseteq ToSet(rows[c]) /\ InOldOrder(c, rows[c])

(***************************************************************************)
(* The script says GO only for a complete schema and for the whole         *)
(* database; GO from an apply means that every legacy row was copied and   *)
(* every gateway decision has the events its records call for.             *)
(***************************************************************************)
GoMeansCutOver ==
    \A p \in Processes : report[p].final = "GO" =>
        /\ SchemaVerifies(schema) /\ ~job[p].partial
        /\ job[p].mode = "apply" =>
              /\ \A c \in Migratable : ToSet(legacy[c]) \subseteq ToSet(rows[c])
              /\ \A r \in ToSet(rows[Decisions]) :
                    EventsOf(r, rows) \subseteq ToSet(rows[Events])

(***************************************************************************)
(* A process that keeps running comes to an end: waits are short, and      *)
(* where the order of the locks lets them close a cycle, PostgreSQL aborts *)
(* one of the waiters.                                                     *)
(***************************************************************************)
FairSpec == Spec /\ \A p \in Processes : SF_vars(Step(p))

RunsEnd == \A p \in Processes : phase[p] # "idle" ~> phase[p] = "done"
=============================================================================
