-------------------------- MODULE GrdiCutoverProofs --------------------------
(***************************************************************************)
(* What TLAPS proves of GrdiCutover for every set of processes, every      *)
(* schema a database can have before, every legacy ledger that obeys       *)
(* LegacyAssumption and all jobs.                                          *)
(***************************************************************************)
EXTENDS GrdiCutover, SequenceTheorems, TLAPS

Openings == {"opening", "locked", "found"}

\* What every process has, whatever it is.
Shaped ==
    /\ phase = [p \in Processes |-> phase[p]] /\ goal = [p \in Processes |-> goal[p]]
    /\ pending = [p \in Processes |-> pending[p]] /\ job = [p \in Processes |-> job[p]]
    /\ todo = [p \in Processes |-> todo[p]] /\ at = [p \in Processes |-> at[p]]
    /\ seen = [p \in Processes |-> seen[p]] /\ checks = [p \in Processes |-> checks[p]]
    /\ issues = [p \in Processes |-> issues[p]] /\ report = [p \in Processes |-> report[p]]
    /\ draft = [p \in Processes |-> draft[p]]
    /\ chain = [c \in Collections |-> chain[c]] /\ rows = [c \in Collections |-> rows[c]]

\* The other processes stay where they are.
Alone(p) ==
    \A q \in Processes \ {p} :
        /\ phase'[q] = phase[q] /\ goal'[q] = goal[q] /\ pending'[q] = pending[q]
        /\ job'[q] = job[q] /\ todo'[q] = todo[q] /\ at'[q] = at[q] /\ draft'[q] = draft[q]
        /\ checks'[q] = checks[q] /\ issues'[q] = issues[q] /\ report'[q] = report[q]

Acts(p) == Start(p) \/ Step(p) \/ Interrupt(p)

\* The steps that end a process early.
Fails(p, state) ==
    \/ state = "TransactionUnavailable" /\ OpenFails(p)
    \/ state = "VERIFICATION_FAILED" /\ MigrationConflicts(p)
    \/ state = "ERROR" /\ (VerifyRaises(p) \/ DeadlockDetected(p))
    \/ state = "INTERRUPTED" /\ Interrupt(p)

LEMMA FailsLikeThis ==
    ASSUME NEW p \in Processes, NEW state, Fails(p, state)
    PROVE  /\ Failed(p, state) /\ schema' = schema /\ phase[p] \notin {"idle", "done"}
           /\ \/ migrating' = migrating /\ pending' = pending
              \/ migrating' = Unlocked(p) /\ pending' = [pending EXCEPT ![p] = {}]
           /\ phase[p] \in {"locked", "found"} => migrating' = Unlocked(p)
<1>1. CASE DeadlockDetected(p)
  <2>1. Wants(p) # {}
    BY <1>1 DEF DeadlockDetected, InWaitCycle, WaitsFor
  <2>2. phase[p] \in {"append", "live"}
    BY <2>1 DEF Wants
  <2> QED
    BY <1>1, <2>2 DEF Fails, DeadlockDetected, schemaVars, OpenFails, MigrationsRaise,
                      MigrationConflicts, VerifyRaises, Interrupt
<1>2. CASE ~DeadlockDetected(p)
  BY <1>2 DEF Fails, OpenFails, MigrationsRaise, Interrupt, MigrationConflicts, VerifyRaises,
              schemaVars
<1> QED
  BY <1>1, <1>2

LEMMA OthersStay ==
    ASSUME Shaped, NEW p \in Processes, Acts(p)
    PROVE  Shaped' /\ Alone(p)
<1> USE DEF Shaped, Alone
<1>1. CASE Start(p)
  BY <1>1 DEF Start, schemaVars, ledgerVars
<1>2. CASE Open(p)
  BY <1>2 DEF Open, schemaVars, ledgerVars, LockMigrations, FindPending, CommitMigrations
<1>3. CASE \E state : Fails(p, state)
  <2>1. PICK state : Fails(p, state)
    BY <1>3
  <2>2. Failed(p, state) /\ (pending' = pending \/ pending' = [pending EXCEPT ![p] = {}])
    BY <2>1, FailsLikeThis
  <2> QED
    BY <2>2 DEF Failed, Ended
<1>4. CASE NextCollection(p) \/ SelectRow(p)
  BY <1>4 DEF NextCollection, SelectRow, schemaVars, ledgerVars
<1>5. CASE AppendRow(p)
  BY <1>5 DEF AppendRow, schemaVars
<1>6. CASE CommitMigration(p)
  BY <1>6 DEF CommitMigration, Published, Released, schemaVars
<1>7. CASE ListPlans(p) \/ BackfillPlan(p) \/ BackfillDone(p)
  BY <1>7 DEF ListPlans, BackfillPlan, BackfillDone, schemaVars, ledgerVars
<1>8. CASE VerifyRows(p) \/ VerifyHeads(p) \/ Count(p) \/ Resolve(p)
  BY <1>8 DEF VerifyRows, VerifyHeads, Count, Resolve, schemaVars, ledgerVars
<1>9. CASE Inventory(p)
  BY <1>9 DEF Inventory, schemaVars, ledgerVars
<1>10. CASE LiveLock(p) \/ LiveCommit(p)
  BY <1>10 DEF LiveLock, LiveCommit, Ended, schemaVars, ledgerVars
<1> QED
  BY <1>1, <1>2, <1>3, <1>4, <1>5, <1>6, <1>7, <1>8, <1>9, <1>10 DEF Acts, Step, Fails

LEMMA ShapedInductive ==
    /\ Init => Shaped
    /\ Shaped /\ [Next]_vars => Shaped'
<1>1. Init => Shaped
  BY DEF Init, Shaped
<1>2. Shaped /\ UNCHANGED vars => Shaped'
  BY DEF Shaped, vars, ledgerVars, schemaVars
<1> QED
  BY <1>1, <1>2, OthersStay DEF Next, Acts

(***************************************************************************)
(* The schema.  Who has read what is missing has the lock, so that it is   *)
(* still missing when the versions are written.                            *)
(***************************************************************************)
Serialised ==
    \A p \in Processes :
        /\ goal[p] \in {"done", "live", "migrate", "rows"}
        /\ phase[p] \in {"locked", "found"} => migrating = p
        /\ phase[p] = "found" => pending[p] = Unrecorded(schema)

Broken(s) == ChecksumMismatch(s) \/ ~Applies(s, Unrecorded(s))

\* No step repairs a schema, or writes one that does not verify.
LEMMA SchemaKept ==
    ASSUME Serialised, [Next]_vars
    PROVE  /\ Broken(schema) => schema' = schema
           /\ schema' = schema \/ SchemaVerifies(schema')
<1>1. ASSUME NEW p \in Processes, CommitMigrations(p)
      PROVE  ~Broken(schema) /\ SchemaVerifies(schema')
  BY <1>1 DEF CommitMigrations, Serialised, Broken, Applies
<1>2. ASSUME NEW p \in Processes, Acts(p), ~CommitMigrations(p)
      PROVE  schema' = schema
  BY <1>2 DEF Acts, Start, Interrupt, Step, Open, OpenFails, LockMigrations, FindPending,
              MigrationsRaise, NextCollection, SelectRow, AppendRow, MigrationConflicts,
              CommitMigration, ListPlans, BackfillPlan, BackfillDone, VerifyRows, VerifyHeads,
              VerifyRaises, Inventory, Count, Resolve, LiveLock, LiveCommit, DeadlockDetected,
              schemaVars
<1> QED
  BY <1>1, <1>2 DEF Next, Acts, vars, schemaVars

\* The steps that leave the migrations alone.
Elsewhere(p) ==
    /\ UNCHANGED schemaVars
    /\ phase'[p] \notin {"locked", "found"}
    /\ phase[p] \notin {"locked", "found"}
    /\ goal'[p] \in {goal[p], "done", "live", "migrate", "rows"}

LEMMA StepsElsewhere ==
    ASSUME Shaped, NEW p \in Processes, Acts(p), ~Open(p), \A state : ~Fails(p, state)
    PROVE  Elsewhere(p)
<1> USE DEF Shaped, Elsewhere
<1>1. CASE Start(p)
  BY <1>1 DEF Start, FirstGoal
<1>2. CASE NextCollection(p) \/ SelectRow(p) \/ AppendRow(p) \/ CommitMigration(p)
  BY <1>2 DEF NextCollection, SelectRow, AppendRow, CommitMigration
<1>3. CASE ListPlans(p) \/ BackfillPlan(p) \/ BackfillDone(p)
  BY <1>3 DEF ListPlans, BackfillPlan, BackfillDone
<1>4. CASE VerifyRows(p) \/ VerifyHeads(p) \/ Inventory(p) \/ Count(p) \/ Resolve(p)
  BY <1>4 DEF VerifyRows, VerifyHeads, Inventory, Count, Resolve
<1>5. CASE LiveLock(p) \/ LiveCommit(p)
  BY <1>5 DEF LiveLock, LiveCommit, Ended
<1> QED
  BY <1>1, <1>2, <1>3, <1>4, <1>5 DEF Acts, Step, Fails

LEMMA SerialisedInductive ==
    /\ Init => Serialised
    /\ Shaped /\ Serialised /\ [Next]_vars => Serialised'
<1>1. Init => Serialised
  BY DEF Init, Serialised
<1>2. Serialised /\ UNCHANGED vars => Serialised'
  BY DEF Serialised, vars, schemaVars
<1>3. ASSUME Shaped, Serialised, NEW p \in Processes, Acts(p)
      PROVE  Serialised'
  <2>1. Shaped' /\ Alone(p)
    BY <1>3, OthersStay
  <2>2. CASE LockMigrations(p)
    BY <1>3, <2>1, <2>2, ProcessesAssumption DEF LockMigrations, Serialised, Alone, Shaped
  <2>3. CASE FindPending(p)
    BY <1>3, <2>1, <2>3 DEF FindPending, Serialised, Alone, Shaped
  <2>4. CASE CommitMigrations(p)
    <3>1. phase[p] = "found" /\ phase'[p] = goal[p] /\ goal' = goal
      BY <1>3, <2>4 DEF CommitMigrations, Shaped
    <3>2. migrating = p /\ goal[p] \notin {"locked", "found"}
      BY <1>3, <3>1 DEF Serialised
    <3>3. ASSUME NEW q \in Processes
          PROVE  phase'[q] \notin {"locked", "found"}
      <4>1. CASE q = p
        BY <3>1, <3>2, <4>1
      <4>2. CASE q # p
        BY <1>3, <2>1, <3>2, <4>2 DEF Serialised, Alone
      <4> QED
        BY <4>1, <4>2
    <3> QED
      BY <1>3, <3>1, <3>3 DEF Serialised
  <2>5. CASE Elsewhere(p)
    BY <1>3, <2>1, <2>5 DEF Elsewhere, Serialised, Alone, Shaped, schemaVars
  <2>6. ASSUME NEW state, Fails(p, state)
        PROVE  Serialised'
    <3>1. Failed(p, state) /\ schema' = schema
      BY <2>6, FailsLikeThis
    <3>2. phase'[p] = "done"
      BY <1>3, <3>1 DEF Failed, Ended, Shaped
    <3>3. migrating' = migrating \/ migrating' = Unlocked(p)
      BY <2>6, FailsLikeThis
    <3>4. goal' = goal
      BY <3>1 DEF Failed
    <3> QED
      BY <1>3, <2>1, <3>1, <3>2, <3>3, <3>4 DEF Serialised, Alone, Unlocked
  <2> QED
    BY <1>3, <2>2, <2>3, <2>4, <2>5, <2>6, StepsElsewhere DEF Open
<1> QED
  BY <1>1, <1>2, <1>3 DEF Next, Acts

\* The outcomes that the script can report.
LEMMA Outcomes ==
    ASSUME NEW p, NEW k, NEW found
    PROVE  \/ Outcome(p, k, found) = NoReport
           \/ \E state \in {"CONFLICT", "READY_FOR_CUTOVER", "INCOMPLETE", "NOT_READY",
                            "VERIFICATION_FAILED"} :
                 \E code \in 2..4 : Outcome(p, k, found) = NoGo(state, code)
           \/ /\ Outcome(p, k, found) = Go("VALIDATED")
              /\ job[p].mode \in {"check", "verify", "apply"}
              /\ found = {} /\ ~NotEvaluated(k) /\ AllWell(k)
<1>1. CASE job[p].mode = "check"
  BY <1>1 DEF Outcome, CheckOnlyOutcome
<1>2. CASE job[p].mode = "verify"
  BY <1>2 DEF Outcome, VerifyOutcome
<1>3. CASE job[p].mode = "apply"
  BY <1>3 DEF Outcome, ApplyOutcome
<1>4. CASE job[p].mode \notin {"check", "verify", "apply"}
  BY <1>4 DEF Outcome
<1> QED
  BY <1>1, <1>2, <1>3, <1>4

\* What a step reports: a refusal, a failure, the outcome of the checks, or nothing.
LEMMA Reported ==
    ASSUME Shaped, NEW p \in Processes, Acts(p)
    PROVE  \/ report' = report
           \/ \E code : Start(p) /\ report'[p] = NoGo("refused", code)
           \/ \E state : /\ Fails(p, state) /\ report'[p].state = state
                         /\ report'[p].final \in {"none", "NO_GO"}
           \/ Resolve(p)
<1> USE DEF Shaped
<1>1. CASE Start(p)
  <2>1. PICK j \in Jobs :
            report' = [report EXCEPT ![p] =
                          IF j.mode = "apply" /\ Refusal(j) # 0 THEN NoGo("refused", Refusal(j)) ELSE @]
    BY <1>1 DEF Start
  <2>2. CASE j.mode = "apply" /\ Refusal(j) # 0
    <3>1. report'[p] = NoGo("refused", Refusal(j))
      BY <2>1, <2>2
    <3> QED
      BY <1>1, <3>1
  <2>3. CASE ~(j.mode = "apply" /\ Refusal(j) # 0)
    <3>1. report' = report
      BY <2>1, <2>3
    <3> QED
      BY <3>1
  <2> QED
    BY <2>2, <2>3
<1>2. CASE Open(p)
  BY <1>2 DEF Open
<1>3. ASSUME NEW state, Fails(p, state)
      PROVE  report'[p].state = state /\ report'[p].final \in {"none", "NO_GO"}
  <2>1. Failed(p, state)
    BY <1>3, FailsLikeThis
  <2>2. report'[p] = [NoReport EXCEPT !.state = state] \/ report'[p] = NoGo(state, 4)
    BY <2>1 DEF Failed
  <2> QED
    BY <2>2 DEF NoReport, NoGo
<1>4. CASE NextCollection(p) \/ SelectRow(p) \/ AppendRow(p) \/ CommitMigration(p)
  BY <1>4 DEF NextCollection, SelectRow, AppendRow, CommitMigration
<1>5. CASE ListPlans(p) \/ BackfillPlan(p) \/ BackfillDone(p)
  BY <1>5 DEF ListPlans, BackfillPlan, BackfillDone
<1>6. CASE VerifyRows(p) \/ VerifyHeads(p) \/ Inventory(p) \/ Count(p)
  BY <1>6 DEF VerifyRows, VerifyHeads, Inventory, Count
<1>7. CASE LiveLock(p) \/ LiveCommit(p)
  BY <1>7 DEF LiveLock, LiveCommit
<1> QED
  BY <1>1, <1>2, <1>3, <1>4, <1>5, <1>6, <1>7 DEF Acts, Step, Fails

(***************************************************************************)
(* Whoever starts beside whom, the ledger is opened unless its schema      *)
(* cannot be brought up to date (postgres_migrations.py:277).              *)
(***************************************************************************)
THEOREM OpeningsSucceed == Spec => []StartsSucceed
<1>1. Init => Shaped /\ Serialised /\ StartsSucceed
  BY ShapedInductive, SerialisedInductive DEF Init, StartsSucceed, NoReport
<1>2. ASSUME Shaped, Serialised, StartsSucceed, [Next]_vars
      PROVE  Shaped' /\ Serialised' /\ StartsSucceed'
  <2>1. Shaped' /\ Serialised'
    BY <1>2, ShapedInductive, SerialisedInductive
  <2>2. SUFFICES ASSUME NEW q \in Processes, report'[q].state = "TransactionUnavailable"
                 PROVE  Broken(schema')
    BY <2>1 DEF StartsSucceed, Broken
  <2>3. CASE report'[q] = report[q]
    BY <1>2, <2>2, <2>3, SchemaKept DEF StartsSucceed, Broken
  <2>4. CASE report'[q] # report[q]
    <3>1. Acts(q)
      BY <1>2, <2>4, OthersStay DEF Next, Acts, vars, Alone
    <3>2. CASE Resolve(q)
      <4>1. \E k : report'[q] = Outcome(q, k, issues[q])
        BY <1>2, <3>2 DEF Resolve, Shaped
      <4>2. PICK k : report'[q] = Outcome(q, k, issues[q])
        BY <4>1
      <4> QED
        BY <2>2, <4>2, Outcomes DEF NoReport, NoGo, Go
    <3>3. CASE \E code : report'[q] = NoGo("refused", code)
      BY <2>2, <3>3 DEF NoGo
    <3>4. ASSUME NEW state, Fails(q, state), report'[q].state = state
          PROVE  Broken(schema')
      <4>1. OpenFails(q) /\ schema' = schema
        BY <2>2, <3>4, FailsLikeThis DEF Fails
      <4>2. Broken(schema)
        BY <1>2, <4>1 DEF OpenFails, MigrationsRaise, Serialised, Broken
      <4> QED
        BY <4>1, <4>2
    <3> QED
      BY <1>2, <2>4, <3>1, <3>2, <3>3, <3>4, Reported
  <2> QED
    BY <2>3, <2>4
<1> QED
  BY <1>1, <1>2, PTL DEF Spec

(***************************************************************************)
(* Chains of rows.                                                         *)
(***************************************************************************)
Keys == {r.key : r \in LegacyRows} \cup Processes
OldRow == [key : Keys, payload : {r.payload : r \in LegacyRows} \cup {"request", "NOT_SIMULATED"}]
EventRow == [key : Keys \X {"GATEWAY_DECISION_CREATED", "SIMULATION_RECORDED"}, payload : {"event"}]
RowsOf(c) == IF c = Events THEN EventRow ELSE OldRow

\* A chain is only added to.
Grown(s, t) == Len(s) <= Len(t) /\ \A n \in 1..Len(s) : t[n] = s[n]

LEMMA GrownKeeps ==
    ASSUME NEW S, NEW s \in Seq(S), NEW t \in Seq(S), Grown(s, t)
    PROVE  ToSet(s) \subseteq ToSet(t) /\ \A k : HasKey(s, k) => HasKey(t, k)
<1>1. DOMAIN s = 1..Len(s) /\ DOMAIN t = 1..Len(t) /\ Len(s) \in Nat /\ Len(t) \in Nat
  OBVIOUS
<1>2. ToSet(s) \subseteq ToSet(t)
  BY <1>1 DEF ToSet, Grown
<1> QED
  BY <1>2 DEF HasKey

LEMMA GrownOn ==
    ASSUME NEW S, NEW s \in Seq(S), NEW t \in Seq(S), NEW u \in Seq(S), Grown(s, t), Grown(t, u)
    PROVE  Grown(s, u)
BY DEF Grown

LEMMA GrownSame ==
    ASSUME NEW S, NEW s \in Seq(S)
    PROVE  Grown(s, s)
BY DEF Grown

LEMMA Added ==
    ASSUME NEW S, NEW s \in Seq(S), NEW r \in S
    PROVE  /\ Append(s, r) \in Seq(S) /\ Grown(s, Append(s, r))
           /\ ToSet(Append(s, r)) = ToSet(s) \cup {r}
<1> DEFINE t == Append(s, r)
<1>1. /\ t \in Seq(S) /\ Len(t) = Len(s) + 1 /\ t[Len(s) + 1] = r /\ Len(s) \in Nat
      /\ \A n \in 1..Len(s) : t[n] = s[n]
      /\ DOMAIN t = 1..(Len(s) + 1) /\ DOMAIN s = 1..Len(s)
  OBVIOUS
<1>2. ToSet(t) = ToSet(s) \cup {r}
  BY <1>1 DEF ToSet
<1> QED
  BY <1>1, <1>2 DEF Grown

LEMMA AddedOnce ==
    ASSUME NEW S, NEW s \in Seq(S), NEW r \in S
    PROVE  /\ AppendOnce(s, r) \in Seq(S) /\ Grown(s, AppendOnce(s, r))
           /\ ToSet(AppendOnce(s, r)) \subseteq ToSet(s) \cup {r}
           /\ HasKey(AppendOnce(s, r), r.key)
<1>1. CASE HasKey(s, r.key)
  BY <1>1, GrownSame DEF AppendOnce
<1>2. CASE ~HasKey(s, r.key)
  <2>1. AppendOnce(s, r) = Append(s, r)
    BY <1>2 DEF AppendOnce
  <2>2. HasKey(Append(s, r), r.key)
    BY Added DEF HasKey
  <2> QED
    BY <2>1, <2>2, Added
<1> QED
  BY <1>1, <1>2

\* The legacy rows, and those passed before the i-th.
LEMMA Legacy ==
    ASSUME legacy \in LegacyLedgers, NEW c \in Migratable
    PROVE  /\ legacy[c] \in Seq(OldRow) /\ DOMAIN legacy[c] = 1..Len(legacy[c])
           /\ Len(legacy[c]) \in Nat
           /\ \A i \in 1..Len(legacy[c]) : legacy[c][i].key \notin Processes
<1>1. legacy[c] \in Seq(LegacyRows)
  BY LegacyAssumption
<1>2. LegacyRows \subseteq OldRow
  <2>1. \A r \in LegacyRows : r = [key |-> r.key, payload |-> r.payload]
    BY LegacyAssumption DEF RowOf
  <2> QED
    BY <2>1 DEF OldRow, Keys
<1>3. legacy[c] \in Seq(OldRow)
  BY <1>1, <1>2
<1>4. \A i \in 1..Len(legacy[c]) : legacy[c][i] \in LegacyRows
  BY <1>1
<1> QED
  BY <1>3, <1>4, LegacyAssumption

LEMMA PassedRows ==
    ASSUME legacy \in LegacyLedgers, NEW c \in Migratable, NEW i \in 1..Len(legacy[c])
    PROVE  ToSet(Passed(c, i)) = {legacy[c][j] : j \in 1..(i - 1)}
<1>1. legacy[c] \in Seq(OldRow) /\ Len(legacy[c]) \in Nat
  BY Legacy
<1>2. /\ Passed(c, i) \in Seq(OldRow) /\ Len(Passed(c, i)) = i - 1
      /\ \A j \in 1..(i - 1) : Passed(c, i)[j] = legacy[c][j]
  BY <1>1 DEF Passed
<1>3. DOMAIN Passed(c, i) = 1..(i - 1)
  BY <1>2
<1> QED
  BY <1>2, <1>3 DEF ToSet

(***************************************************************************)
(* What is kept of the ledger, and where a process is: what it has to go   *)
(* through, and which chains it has locked.                                *)
(***************************************************************************)
HoldsNothing(p) == \A c \in Collections : chain[c] # p

Staged(p) ==
    /\ phase[p] \in Openings \cup {"idle", "done", "migrate", "append", "list", "backfill", "rows",
                                   "heads", "inventory", "counts", "resolve", "live"}
    /\ phase[p] \notin {"migrate", "append", "live"} => HoldsNothing(p)
    /\ phase[p] = "idle" => at[p] = 1
    /\ phase[p] \in Openings /\ goal[p] = "migrate" =>
          todo[p] \in [1..3 -> Migratable] /\ ToSet(todo[p]) = Migratable /\ at[p] = 1
    /\ phase[p] \in Openings /\ goal[p] = "live" => todo[p] = <<Requests, Events, Decisions>>
    /\ phase[p] \in {"migrate", "append"} =>
          /\ todo[p] \in Seq(Migratable) /\ at[p] \in Nat \ {0}
          /\ \A m, n \in DOMAIN todo[p] : todo[p][m] = todo[p][n] => m = n
          /\ \A c \in Collections : chain[c] = p => c \in Migratable
    /\ phase[p] = "append" => AtRow(p)
    /\ phase[p] = "live" =>
          /\ todo[p] \in {<<Requests, Events, Decisions>>, <<Events, Decisions>>, <<Decisions>>, << >>}
          /\ \A c \in Collections : chain[c] = p <=> c # Receipts /\ c \notin ToSet(todo[p])
    /\ phase[p] = "backfill" => todo[p] \in Seq(OldRow)

Typed ==
    /\ legacy \in LegacyLedgers
    /\ \A c \in Collections : rows[c] \in Seq(RowsOf(c))
    /\ \A c \in Collections : chain[c] \in Processes \cup {NoProcess}
    /\ \A p \in Processes :
          /\ draft[p] = [c \in Collections |-> draft[p][c]]
          /\ \A c \in Collections : draft[p][c] \in Seq(RowsOf(c))

Kept == Shaped /\ Serialised /\ Typed /\ \A p \in Processes : Staged(p)

LEMMA KeptInit == Init => Kept
<1> SUFFICES ASSUME Init PROVE Kept
  OBVIOUS
<1>1. Shaped /\ Serialised
  BY ShapedInductive, SerialisedInductive
<1>2. Typed
  BY DEF Init, Typed
<1>3. \A p \in Processes : Staged(p)
  BY ProcessesAssumption DEF Init, Staged, HoldsNothing, Openings
<1> QED
  BY <1>1, <1>2, <1>3 DEF Kept

\* The locks of the others are left alone.
Hands(p) ==
    /\ legacy' = legacy
    /\ \A c \in Collections :
          chain'[c] = chain[c] \/ (chain[c] \in {p, NoProcess} /\ chain'[c] \in {p, NoProcess})

LEMMA StagedElse ==
    ASSUME Kept, NEW p \in Processes, Alone(p), Hands(p), NEW q \in Processes, q # p
    PROVE  Staged(q)'
<1>1. \A c \in Collections : chain'[c] = q <=> chain[c] = q
  BY ProcessesAssumption DEF Hands
<1>2. /\ phase'[q] = phase[q] /\ goal'[q] = goal[q] /\ todo'[q] = todo[q] /\ at'[q] = at[q]
      /\ legacy' = legacy
  BY DEF Alone, Hands
<1>3. Staged(q)
  BY DEF Kept
<1>4. AtRow(q)' = AtRow(q)
  BY <1>2 DEF AtRow
<1>5. HoldsNothing(q) => HoldsNothing(q)'
  BY <1>1 DEF HoldsNothing
<1> QED
  BY <1>1, <1>2, <1>3, <1>4, <1>5 DEF Staged

\* Steps that leave the ledger alone.
Quiet == UNCHANGED ledgerVars

LEMMA QuietSteps ==
    ASSUME NEW p \in Processes,
           Start(p) \/ Open(p) \/ NextCollection(p) \/ SelectRow(p) \/ ListPlans(p)
           \/ BackfillDone(p) \/ VerifyRows(p) \/ VerifyHeads(p) \/ Inventory(p) \/ Count(p)
           \/ Resolve(p)
    PROVE  Quiet
BY DEF Quiet, ledgerVars, Start, Open, NextCollection, SelectRow, ListPlans, BackfillDone,
       VerifyRows, VerifyHeads, Inventory, Count, Resolve

LEMMA QuietTyped ==
    ASSUME Typed, Quiet, NEW p \in Processes
    PROVE  Typed' /\ Hands(p) /\ (HoldsNothing(p) => HoldsNothing(p)')
BY DEF Typed, Quiet, Hands, HoldsNothing, ledgerVars

LEMMA StagedOpen ==
    ASSUME Kept, NEW p \in Processes, Start(p) \/ Open(p)
    PROVE  Staged(p)'
<1>1. Staged(p) /\ Shaped /\ goal[p] \in {"done", "live", "migrate", "rows"} /\ legacy' = legacy
  BY DEF Kept, Serialised, Start, Open, ledgerVars
<1>2. HoldsNothing(p) => HoldsNothing(p)'
  BY QuietSteps, QuietTyped DEF Kept
<1>3. CASE Start(p)
  <2>1. PICK j \in Jobs : /\ phase'[p] \in {"inventory", "done", "opening"}
                          /\ phase'[p] = "opening" => j.mode \notin {"verify", "check"}
                          /\ goal'[p] = FirstGoal(j.mode)
                          /\ \E tasks \in Tasks(j.mode) : todo'[p] = tasks
    BY <1>1, <1>3 DEF Start, Shaped
  <2>2. j.mode \in {"apply", "verify", "check", "start", "plan"}
    BY JobsAssumption
  <2>3. HoldsNothing(p)' /\ at'[p] = 1
    BY <1>1, <1>2, <1>3 DEF Start, Staged, Shaped
  <2>4. ASSUME phase'[p] \in Openings, goal'[p] = "migrate"
        PROVE  todo'[p] \in [1..3 -> Migratable] /\ ToSet(todo'[p]) = Migratable
    <3>1. j.mode = "apply"
      BY <2>1, <2>2, <2>4 DEF FirstGoal, Openings
    <3> QED
      BY <2>1, <3>1 DEF Tasks
  <2>5. ASSUME phase'[p] \in Openings, goal'[p] = "live"
        PROVE  todo'[p] = <<Requests, Events, Decisions>>
    <3>1. j.mode = "plan"
      BY <2>1, <2>2, <2>5 DEF FirstGoal
    <3> QED
      BY <2>1, <3>1 DEF Tasks
  <2> QED
    BY <2>1, <2>3, <2>4, <2>5 DEF Staged, Openings
<1>4. CASE Open(p) /\ (LockMigrations(p) \/ FindPending(p))
  <2>1. phase'[p] \in {"locked", "found"} /\ phase[p] \in {"opening", "locked"}
        /\ goal' = goal /\ todo' = todo /\ at' = at
    BY <1>1, <1>4 DEF LockMigrations, FindPending, Shaped, Open
  <2> QED
    BY <1>1, <1>2, <2>1 DEF Staged, Openings
<1>5. CASE Open(p) /\ CommitMigrations(p)
  <2>1. phase[p] = "found" /\ phase'[p] = goal[p] /\ goal' = goal /\ todo' = todo /\ at' = at
    BY <1>1, <1>5 DEF CommitMigrations, Shaped, Open
  <2>2. HoldsNothing(p)'
    BY <1>1, <1>2, <2>1 DEF Staged
  <2>3. ASSUME goal[p] = "migrate"
        PROVE  /\ todo'[p] \in Seq(Migratable) /\ at'[p] \in Nat \ {0}
               /\ \A m, n \in DOMAIN todo'[p] : todo'[p][m] = todo'[p][n] => m = n
    <3> DEFINE s == todo[p]
    <3>1. s \in [1..3 -> Migratable] /\ ToSet(s) = Migratable /\ at[p] = 1
      BY <1>1, <2>1, <2>3 DEF Staged, Openings
    <3>2. \A c \in Migratable : \E n \in 1..3 : s[n] = c
      BY <3>1 DEF ToSet
    <3> HIDE DEF s
    <3>3. \A m, n \in 1..3 : s[m] = s[n] => m = n
      <4>1. PICK a \in 1..3 : s[a] = Requests
        BY <3>2 DEF Migratable
      <4>2. PICK b \in 1..3 : s[b] = Decisions
        BY <3>2 DEF Migratable
      <4>3. PICK c \in 1..3 : s[c] = Receipts
        BY <3>2 DEF Migratable
      <4>4. s[a] # s[b] /\ s[a] # s[c] /\ s[b] # s[c]
        BY <4>1, <4>2, <4>3 DEF Requests, Decisions, Receipts
      <4>5. a # b /\ a # c /\ b # c
        BY <4>4
      <4>6. \A n \in 1..3 : n = a \/ n = b \/ n = c
        BY <4>5
      <4> QED
        BY <4>4, <4>6
    <3>4. s \in Seq(Migratable) /\ DOMAIN s = 1..3
      <4>1. Seq(Migratable) = UNION {[1..n -> Migratable] : n \in Nat}
        BY SeqDef
      <4>2. s \in Seq(Migratable)
        BY <3>1, <4>1, Zenon
      <4> QED
        BY <3>1, <4>2
    <3> QED
      BY <2>1, <3>1, <3>3, <3>4 DEF s
  <2>4. ASSUME goal[p] = "live"
        PROVE  /\ todo'[p] = <<Requests, Events, Decisions>>
               /\ \A c \in Collections : chain'[c] = p <=> c # Receipts /\ c \notin ToSet(todo'[p])
    <3>1. todo'[p] = <<Requests, Events, Decisions>>
      BY <1>1, <2>1, <2>4 DEF Staged, Openings
    <3>2. ToSet(todo'[p]) = {Requests, Events, Decisions}
      BY <3>1 DEF ToSet
    <3> QED
      BY <2>2, <3>1, <3>2 DEF HoldsNothing, Collections, Requests, Events, Decisions, Receipts
  <2> QED
    BY <1>1, <2>1, <2>2, <2>3, <2>4 DEF Staged, Openings, HoldsNothing
<1> QED
  BY <1>3, <1>4, <1>5 DEF Open

LEMMA StagedQuiet ==
    ASSUME Kept, NEW p \in Processes,
           NextCollection(p) \/ SelectRow(p) \/ ListPlans(p) \/ BackfillDone(p) \/ VerifyRows(p)
           \/ VerifyHeads(p) \/ Inventory(p) \/ Count(p) \/ Resolve(p)
    PROVE  Staged(p)'
<1>1. Staged(p) /\ Shaped /\ Typed
  BY DEF Kept
<1>2. Quiet /\ (HoldsNothing(p) => HoldsNothing(p)')
  BY <1>1, QuietSteps, QuietTyped
<1>3. CASE NextCollection(p)
  <2> DEFINE s == todo[p]
  <2>1. /\ phase' = phase /\ phase[p] = "migrate" /\ todo'[p] = Tail(s) /\ at'[p] = 1 /\ s # << >>
    BY <1>1, <1>3 DEF NextCollection, Shaped
  <2>2. s \in Seq(Migratable) /\ \A m, n \in DOMAIN s : s[m] = s[n] => m = n
    BY <1>1, <2>1 DEF Staged
  <2>3. Tail(s) \in Seq(Migratable) /\ DOMAIN s = 1..Len(s) /\ Len(s) \in Nat \ {0}
        /\ DOMAIN Tail(s) = 1..(Len(s) - 1) /\ \A n \in 1..(Len(s) - 1) : Tail(s)[n] = s[n + 1]
    BY <2>1, <2>2
  <2> DEFINE t == Tail(s)
  <2> HIDE DEF s, t
  <2>4. \A m, n \in DOMAIN t : t[m] = t[n] => m = n
    BY <2>2, <2>3 DEF t
  <2>5. \A c \in Collections : chain'[c] = p => c \in Migratable
    BY <1>1, <1>2, <2>1 DEF Staged, Quiet, ledgerVars
  <2> QED
    BY <2>1, <2>3, <2>4, <2>5 DEF Staged, Openings, t
<1>4. CASE SelectRow(p)
  <2>1. /\ phase[p] = "migrate" /\ phase'[p] \in {"migrate", "append"} /\ todo' = todo
        /\ at'[p] \in {at[p], at[p] + 1} /\ legacy' = legacy
        /\ phase'[p] = "append" => AtRow(p)'
    BY <1>1, <1>4 DEF SelectRow, Shaped, ledgerVars, AtRow
  <2>2. \A c \in Collections : chain'[c] = p => c \in Migratable
    BY <1>1, <1>2, <2>1 DEF Staged, Quiet, ledgerVars
  <2> QED
    BY <1>1, <2>1, <2>2 DEF Staged, Openings
<1>5. CASE ListPlans(p)
  <2>1. phase[p] = "list" /\ phase'[p] = "backfill" /\ todo'[p] = FirstPage(rows[Decisions])
    BY <1>1, <1>5 DEF ListPlans, Shaped
  <2>2. rows[Decisions] \in Seq(OldRow)
    BY <1>1 DEF Typed, RowsOf, Collections, Decisions, Events
  <2>3. FirstPage(rows[Decisions]) \in Seq(OldRow)
    BY <2>2, JobsAssumption DEF FirstPage
  <2> QED
    BY <1>1, <1>2, <2>1, <2>3 DEF Staged, Openings
<1>6. CASE Inventory(p)
  <2>1. phase[p] = "inventory" /\ phase'[p] \in {"opening", "resolve"} /\ goal'[p] = "rows"
    BY <1>1, <1>6 DEF Inventory, Shaped
  <2> QED
    BY <1>1, <1>2, <2>1 DEF Staged, Openings
<1>7. CASE BackfillDone(p) \/ VerifyRows(p) \/ VerifyHeads(p) \/ Count(p) \/ Resolve(p)
  <2>1. /\ phase[p] \in {"backfill", "rows", "heads", "counts", "resolve"}
        /\ phase'[p] \in {"rows", "heads", "inventory", "counts", "resolve", "done"}
    BY <1>1, <1>7 DEF BackfillDone, VerifyRows, VerifyHeads, Count, Resolve, Shaped
  <2> QED
    BY <1>1, <1>2, <2>1 DEF Staged, Openings
<1> QED
  BY <1>3, <1>4, <1>5, <1>6, <1>7

\* The drafts stay chains when one of them changes.
LEMMA DraftsTyped ==
    ASSUME Typed, NEW p \in Processes, NEW d,
           \A q \in Processes \ {p} : draft'[q] = draft[q],
           draft'[p] = [c \in Collections |-> d[c]], \A c \in Collections : d[c] \in Seq(RowsOf(c))
    PROVE  \A q \in Processes :
              /\ draft'[q] = [c \in Collections |-> draft'[q][c]]
              /\ \A c \in Collections : draft'[q][c] \in Seq(RowsOf(c))
<1> TAKE q \in Processes
<1>1. CASE q = p
  BY <1>1
<1>2. CASE q # p
  <2>1. draft'[q] = draft[q]
    BY <1>2
  <2>2. /\ draft[q] = [c \in Collections |-> draft[q][c]]
        /\ \A c \in Collections : draft[q][c] \in Seq(RowsOf(c))
    BY DEF Typed
  <2> QED
    BY <2>1, <2>2
<1> QED
  BY <1>1, <1>2

\* A process that ends, whether it has committed or failed.
LEMMA EndedKeeps ==
    ASSUME Kept, NEW p \in Processes, Ended(p), legacy' = legacy,
           \A c \in Collections : rows'[c] \in Seq(RowsOf(c))
    PROVE  Typed' /\ Hands(p) /\ Staged(p)'
<1>1. Shaped /\ Typed
  BY DEF Kept
<1>2. \A c \in Collections : chain'[c] = IF chain[c] = p THEN NoProcess ELSE chain[c]
  BY DEF Ended
<1>3. /\ draft'[p] = [c \in Collections |-> << >>]
      /\ \A q \in Processes \ {p} : draft'[q] = draft[q]
  BY <1>1 DEF Ended, Shaped
<1>4. \A c \in Collections : << >> \in Seq(RowsOf(c))
  OBVIOUS
<1> DEFINE none == [c \in Collections |-> << >>]
<1>9. /\ draft'[p] = [c \in Collections |-> none[c]]
      /\ \A c \in Collections : none[c] \in Seq(RowsOf(c))
  BY <1>3, <1>4
<1> HIDE DEF none
<1>10. \A q \in Processes :
          /\ draft'[q] = [c \in Collections |-> draft'[q][c]]
          /\ \A c \in Collections : draft'[q][c] \in Seq(RowsOf(c))
  BY <1>1, <1>3, <1>9, DraftsTyped
<1>5. Typed'
  BY <1>1, <1>2, <1>10 DEF Typed
<1>6. Hands(p)
  BY <1>1, <1>2 DEF Hands
<1>7. phase'[p] = "done"
  BY <1>1 DEF Ended, Shaped
<1>8. HoldsNothing(p)'
  BY <1>2, ProcessesAssumption DEF HoldsNothing
<1> QED
  BY <1>5, <1>6, <1>7, <1>8 DEF Staged, Openings

LEMMA RowKept ==
    ASSUME Kept, NEW p \in Processes, phase[p] \in {"migrate", "append"}, AtRow(p)
    PROVE  /\ Head(todo[p]) \in Migratable /\ Row(p) = legacy[Head(todo[p])][at[p]]
           /\ at[p] \in 1..Len(legacy[Head(todo[p])])
           /\ Row(p) \in OldRow /\ Row(p).key \notin Processes
<1>1. /\ todo[p] \in Seq(Migratable) /\ at[p] \in Nat \ {0} /\ todo[p] # << >>
      /\ at[p] <= Len(legacy[Head(todo[p])])
  BY DEF Kept, Staged, AtRow
<1>2. Head(todo[p]) \in Migratable
  BY <1>1
<1>3. /\ legacy[Head(todo[p])] \in Seq(OldRow) /\ Len(legacy[Head(todo[p])]) \in Nat
      /\ \A i \in 1..Len(legacy[Head(todo[p])]) : legacy[Head(todo[p])][i].key \notin Processes
  BY <1>2, Legacy DEF Kept, Typed
<1>4. at[p] \in 1..Len(legacy[Head(todo[p])])
  BY <1>1, <1>3
<1> QED
  BY <1>2, <1>3, <1>4 DEF Row

LEMMA ViewTyped ==
    ASSUME Typed, NEW p \in Processes, NEW c \in Collections
    PROVE  View(p, c) \in Seq(RowsOf(c))
BY DEF Typed, View

LEMMA OldCollections ==
    /\ Migratable \subseteq Collections /\ Events \in Collections /\ Events \notin Migratable
    /\ \A c \in Collections : c # Events => RowsOf(c) = OldRow
    /\ \A c \in Migratable : RowsOf(c) = OldRow
    /\ RowsOf(Events) = EventRow
BY DEF Migratable, Collections, Requests, Events, Decisions, Receipts, RowsOf

LEMMA AppendKeeps ==
    ASSUME Kept, NEW p \in Processes, AppendRow(p)
    PROVE  Typed' /\ Hands(p) /\ Staged(p)'
<1> DEFINE d == Head(todo[p])
<1> DEFINE new == AppendOnce(View(p, d), Row(p))
<1>1. Shaped /\ Typed /\ Staged(p) /\ phase[p] = "append" /\ AtRow(p)
  BY DEF Kept, AppendRow, Staged
<1>2. d \in Migratable /\ Row(p) \in OldRow
  BY <1>1, RowKept
<1>3. new \in Seq(RowsOf(d))
  <2>1. View(p, d) \in Seq(RowsOf(d)) /\ RowsOf(d) = OldRow
    BY <1>1, <1>2, ViewTyped, OldCollections
  <2> QED
    BY <1>2, <2>1, AddedOnce
<1> HIDE DEF new
<1>4. /\ chain[d] \in {p, NoProcess}
      /\ chain' = [chain EXCEPT ![d] = p] /\ draft' = [draft EXCEPT ![p][d] = new]
      /\ rows' = rows /\ legacy' = legacy
      /\ phase' = [phase EXCEPT ![p] = "migrate"] /\ at' = [at EXCEPT ![p] = @ + 1] /\ todo' = todo
  BY DEF AppendRow, MayTake, new
<1> HIDE DEF d
<1>5. \A c \in Collections : chain'[c] = IF c = d THEN p ELSE chain[c]
  BY <1>1, <1>4 DEF Shaped
<1>6. /\ \A q \in Processes \ {p} : draft'[q] = draft[q]
      /\ draft'[p] = [c \in Collections |-> IF c = d THEN new ELSE draft[p][c]]
  BY <1>1, <1>4 DEF Shaped, Typed
<1> DEFINE drafts == [c \in Collections |-> IF c = d THEN new ELSE draft[p][c]]
<1>10. /\ draft'[p] = [c \in Collections |-> drafts[c]]
       /\ \A c \in Collections : drafts[c] \in Seq(RowsOf(c))
  BY <1>1, <1>3, <1>6 DEF Typed
<1> HIDE DEF drafts
<1>11. \A q \in Processes :
          /\ draft'[q] = [c \in Collections |-> draft'[q][c]]
          /\ \A c \in Collections : draft'[q][c] \in Seq(RowsOf(c))
  BY <1>1, <1>6, <1>10, DraftsTyped
<1>7. Typed'
  BY <1>1, <1>4, <1>5, <1>11 DEF Typed
<1>8. Hands(p)
  BY <1>4, <1>5 DEF Hands
<1>9. phase'[p] = "migrate" /\ at'[p] = at[p] + 1 /\ todo'[p] = todo[p]
  BY <1>1, <1>4 DEF Shaped
<1> QED
  BY <1>1, <1>2, <1>5, <1>7, <1>8, <1>9 DEF Staged, Openings

LEMMA CommitKeeps ==
    ASSUME Kept, NEW p \in Processes, CommitMigration(p)
    PROVE  Typed' /\ Hands(p) /\ Staged(p)'
<1>1. Shaped /\ Typed
  BY DEF Kept
<1>2. /\ rows' = [c \in Collections |-> View(p, c)] /\ legacy' = legacy
      /\ chain' = [c \in Collections |-> IF chain[c] = p THEN NoProcess ELSE chain[c]]
      /\ draft' = [draft EXCEPT ![p] = [c \in Collections |-> << >>]]
      /\ phase' = [phase EXCEPT ![p] = "list"]
  BY DEF CommitMigration, Published, Released
<1>3. \A c \in Collections : rows'[c] \in Seq(RowsOf(c)) /\ << >> \in Seq(RowsOf(c))
  BY <1>1, <1>2, ViewTyped
<1>4. /\ draft'[p] = [c \in Collections |-> << >>]
      /\ \A q \in Processes \ {p} : draft'[q] = draft[q]
  BY <1>1, <1>2 DEF Shaped
<1>5. Typed'
  BY <1>1, <1>2, <1>3, <1>4 DEF Typed
<1>6. Hands(p)
  BY <1>1, <1>2 DEF Hands
<1>7. phase'[p] = "list" /\ HoldsNothing(p)'
  BY <1>1, <1>2, ProcessesAssumption DEF Shaped, HoldsNothing
<1> QED
  BY <1>5, <1>6, <1>7 DEF Staged, Openings

\* Gateway events are told by their keys.
LEMMA EventsThere ==
    ASSUME NEW s \in Seq(EventRow), NEW e \in EventRow
    PROVE  /\ HasKey(s, e.key) => e \in ToSet(s)
           /\ AppendOnce(s, e) \in Seq(EventRow) /\ Grown(s, AppendOnce(s, e))
           /\ e \in ToSet(AppendOnce(s, e))
<1>1. \A t \in Seq(EventRow) : HasKey(t, e.key) => e \in ToSet(t)
  <2> SUFFICES ASSUME NEW t \in Seq(EventRow), HasKey(t, e.key)
               PROVE  e \in ToSet(t)
    OBVIOUS
  <2>1. PICK r \in ToSet(t) : r.key = e.key
    BY DEF HasKey
  <2>2. r \in EventRow
    BY DEF ToSet
  <2>3. r = e
    BY <2>1, <2>2 DEF EventRow
  <2> QED
    BY <2>3
<1> QED
  BY <1>1, AddedOnce

LEMMA BackfilledRows ==
    ASSUME Typed, NEW row \in OldRow
    PROVE  /\ Backfilled(row, rows) \in Seq(EventRow)
           /\ Grown(rows[Events], Backfilled(row, rows))
           /\ EventsOf(row, rows) \subseteq ToSet(Backfilled(row, rows))
<1> DEFINE s == rows[Events]  c == CreatedRow(row.key)  m == SimulatedRow(row.key)
<1> DEFINE t == AppendOnce(s, c)
<1>1. s \in Seq(EventRow)
  BY OldCollections DEF Typed
<1>2. c \in EventRow /\ m \in EventRow
  <2>1. row.key \in Keys
    BY DEF OldRow
  <2> QED
    BY <2>1 DEF CreatedRow, SimulatedRow, RowOf, EventRow
<1> HIDE DEF c, m
<1>3. t \in Seq(EventRow) /\ Grown(s, t) /\ c \in ToSet(t)
  BY <1>1, <1>2, EventsThere
<1> HIDE DEF t
<1>4. AppendOnce(t, m) \in Seq(EventRow) /\ Grown(t, AppendOnce(t, m)) /\ m \in ToSet(AppendOnce(t, m))
  BY <1>2, <1>3, EventsThere
<1>5. c \in ToSet(AppendOnce(t, m))
  BY <1>3, <1>4, GrownKeeps
<1>6. Grown(s, AppendOnce(t, m))
  BY <1>1, <1>3, <1>4, GrownOn
<1>7. Backfilled(row, rows) = IF Simulated(row, rows) THEN AppendOnce(t, m) ELSE t
  BY DEF Backfilled, t, s, c, m
<1>8. EventsOf(row, rows) = {c} \cup (IF Simulated(row, rows) THEN {m} ELSE {})
  BY DEF EventsOf, c, m
<1> QED
  BY <1>3, <1>4, <1>5, <1>6, <1>7, <1>8 DEF s

LEMMA BackfillKeeps ==
    ASSUME Kept, NEW p \in Processes, BackfillPlan(p)
    PROVE  /\ Typed' /\ Hands(p) /\ Staged(p)' /\ Head(todo[p]) \in OldRow
           /\ rows' = [rows EXCEPT ![Events] = Backfilled(Head(todo[p]), rows)]
<1>1. Shaped /\ Typed /\ Staged(p) /\ phase[p] = "backfill" /\ todo[p] # << >>
  BY DEF Kept, BackfillPlan
<1>2. todo[p] \in Seq(OldRow)
  BY <1>1 DEF Staged
<1>3. Head(todo[p]) \in OldRow /\ Tail(todo[p]) \in Seq(OldRow)
  BY <1>1, <1>2
<1>4. /\ rows' = [rows EXCEPT ![Events] = Backfilled(Head(todo[p]), rows)]
      /\ legacy' = legacy /\ chain' = chain /\ draft' = draft /\ phase' = phase
      /\ todo'[p] = Tail(todo[p])
  BY <1>1 DEF BackfillPlan, Shaped
<1>5. Backfilled(Head(todo[p]), rows) \in Seq(RowsOf(Events))
  BY <1>1, <1>3, BackfilledRows, OldCollections
<1>6. Typed'
  BY <1>1, <1>4, <1>5 DEF Typed, Shaped
<1>7. Hands(p)
  BY <1>4 DEF Hands
<1>8. HoldsNothing(p)'
  BY <1>1, <1>4 DEF Staged, HoldsNothing
<1> QED
  BY <1>1, <1>3, <1>4, <1>6, <1>7, <1>8 DEF Staged, Openings

LEMMA LiveLockKeeps ==
    ASSUME Kept, NEW p \in Processes, LiveLock(p)
    PROVE  Typed' /\ Hands(p) /\ Staged(p)'
<1> DEFINE s == todo[p]
<1>1. Shaped /\ Typed /\ Staged(p) /\ phase[p] = "live" /\ s # << >> /\ chain[Head(s)] = NoProcess
  BY DEF Kept, LiveLock
<1>2. /\ chain' = [chain EXCEPT ![Head(s)] = p] /\ todo'[p] = Tail(s) /\ phase' = phase
      /\ rows' = rows /\ draft' = draft /\ legacy' = legacy
  BY <1>1 DEF LiveLock, Shaped
<1>3. /\ s \in {<<Requests, Events, Decisions>>, <<Events, Decisions>>, <<Decisions>>}
      /\ \A c \in Collections : chain[c] = p <=> c # Receipts /\ c \notin ToSet(s)
  BY <1>1 DEF Staged
<1> HIDE DEF s
<1>4. /\ Tail(s) \in {<<Requests, Events, Decisions>>, <<Events, Decisions>>, <<Decisions>>, << >>}
      /\ Head(s) \in {Requests, Events, Decisions} /\ Head(s) \notin ToSet(Tail(s))
      /\ ToSet(s) = {Head(s)} \cup ToSet(Tail(s))
  <2>1. CASE s = <<Requests, Events, Decisions>>
    <3>1. Tail(s) = <<Events, Decisions>> /\ Head(s) = Requests
      BY <2>1
    <3>2. ToSet(s) = {Requests, Events, Decisions} /\ ToSet(Tail(s)) = {Events, Decisions}
      BY <2>1, <3>1 DEF ToSet
    <3> QED
      BY <3>1, <3>2 DEF Requests, Events, Decisions
  <2>2. CASE s = <<Events, Decisions>>
    <3>1. Tail(s) = <<Decisions>> /\ Head(s) = Events
      BY <2>2
    <3>2. ToSet(s) = {Events, Decisions} /\ ToSet(Tail(s)) = {Decisions}
      BY <2>2, <3>1 DEF ToSet
    <3> QED
      BY <3>1, <3>2 DEF Requests, Events, Decisions
  <2>3. CASE s = <<Decisions>>
    <3>1. Tail(s) = << >> /\ Head(s) = Decisions
      BY <2>3
    <3>2. ToSet(s) = {Decisions} /\ ToSet(Tail(s)) = {}
      BY <2>3, <3>1 DEF ToSet
    <3> QED
      BY <3>1, <3>2
  <2> QED
    BY <1>3, <2>1, <2>2, <2>3
<1>5. \A c \in Collections : chain'[c] = IF c = Head(s) THEN p ELSE chain[c]
  BY <1>1, <1>2 DEF Shaped
<1>6. Typed'
  BY <1>1, <1>2, <1>5 DEF Typed
<1>7. Hands(p)
  BY <1>1, <1>2, <1>5 DEF Hands, s
<1>8. \A c \in Collections : chain'[c] = p <=> c # Receipts /\ c \notin ToSet(Tail(s))
  BY <1>3, <1>4, <1>5 DEF Requests, Events, Decisions, Receipts
<1> QED
  BY <1>1, <1>2, <1>4, <1>6, <1>7, <1>8 DEF Staged, Openings

\* What a live plan commits.
LEMMA LiveRows ==
    ASSUME Kept, NEW p \in Processes, LiveCommit(p)
    PROVE  /\ rows'[Requests] = Append(rows[Requests], RowOf(p, "request"))
           /\ rows'[Events] = Append(rows[Events], CreatedRow(p))
           /\ rows'[Decisions] = Append(rows[Decisions], RowOf(p, "NOT_SIMULATED"))
           /\ rows'[Receipts] = rows[Receipts]
           /\ RowOf(p, "request") \in OldRow /\ RowOf(p, "NOT_SIMULATED") \in OldRow
           /\ CreatedRow(p) \in EventRow /\ Ended(p) /\ legacy' = legacy
<1>1. Staged(p) /\ phase[p] = "live" /\ todo[p] = << >>
  BY DEF Kept, LiveCommit
<1>2. ToSet(todo[p]) = {}
  BY <1>1 DEF ToSet
<1>3. \A c \in Collections : chain[c] = p <=> c # Receipts
  BY <1>1, <1>2 DEF Staged
<1>4. /\ rows' = [c \in Collections |->
                    IF chain[c] = p THEN Append(rows[c], LiveRow(c, p)) ELSE rows[c]]
      /\ Ended(p) /\ legacy' = legacy
  BY DEF LiveCommit
<1>5. /\ LiveRow(Requests, p) = RowOf(p, "request") /\ LiveRow(Events, p) = CreatedRow(p)
      /\ LiveRow(Decisions, p) = RowOf(p, "NOT_SIMULATED")
  BY DEF LiveRow, Requests, Events, Decisions
<1>6. p \in Keys
  BY DEF Keys
<1>7. /\ RowOf(p, "request") \in OldRow /\ RowOf(p, "NOT_SIMULATED") \in OldRow
      /\ CreatedRow(p) \in EventRow
  BY <1>6 DEF RowOf, CreatedRow, OldRow, EventRow
<1>8. \A c \in Collections :
          rows'[c] = IF c # Receipts THEN Append(rows[c], LiveRow(c, p)) ELSE rows[c]
  BY <1>3, <1>4
<1>9. /\ Collections = {Requests, Events, Decisions, Receipts}
      /\ Receipts \notin {Requests, Events, Decisions}
  BY DEF Collections, Requests, Events, Decisions, Receipts
<1> QED
  BY <1>4, <1>5, <1>7, <1>8, <1>9

LEMMA LiveCommitKeeps ==
    ASSUME Kept, NEW p \in Processes, LiveCommit(p)
    PROVE  Typed' /\ Hands(p) /\ Staged(p)'
<1>1. /\ rows'[Requests] = Append(rows[Requests], RowOf(p, "request"))
      /\ rows'[Events] = Append(rows[Events], CreatedRow(p))
      /\ rows'[Decisions] = Append(rows[Decisions], RowOf(p, "NOT_SIMULATED"))
      /\ rows'[Receipts] = rows[Receipts]
      /\ RowOf(p, "request") \in OldRow /\ RowOf(p, "NOT_SIMULATED") \in OldRow
      /\ CreatedRow(p) \in EventRow /\ Ended(p) /\ legacy' = legacy
  BY LiveRows
<1>2. /\ rows[Requests] \in Seq(OldRow) /\ rows[Decisions] \in Seq(OldRow)
      /\ rows[Receipts] \in Seq(OldRow) /\ rows[Events] \in Seq(EventRow)
  BY DEF Kept, Typed, RowsOf, Collections, Requests, Events, Decisions, Receipts
<1>3. /\ rows'[Requests] \in Seq(OldRow) /\ rows'[Decisions] \in Seq(OldRow)
      /\ rows'[Receipts] \in Seq(OldRow) /\ rows'[Events] \in Seq(EventRow)
  BY <1>1, <1>2, Added
<1>4. \A c \in Collections : rows'[c] \in Seq(RowsOf(c))
  BY <1>3 DEF RowsOf, Collections, Requests, Events, Decisions, Receipts
<1> QED
  BY <1>1, <1>4, EndedKeeps

\* Every step, by any process,
LEMMA ActsKeep ==
    ASSUME Kept, NEW p \in Processes, Acts(p)
    PROVE  Shaped' /\ Alone(p) /\ Typed' /\ Hands(p) /\ Staged(p)' /\ phase[p] # "done"
<1>1. Shaped' /\ Alone(p)
  BY OthersStay DEF Kept
<1>2. Typed' /\ Hands(p) /\ Staged(p)'
  <2>1. CASE Start(p) \/ Open(p)
    BY <2>1, QuietSteps, QuietTyped, StagedOpen DEF Kept
  <2>2. CASE NextCollection(p) \/ SelectRow(p) \/ ListPlans(p) \/ BackfillDone(p) \/ VerifyRows(p)
             \/ VerifyHeads(p) \/ Inventory(p) \/ Count(p) \/ Resolve(p)
    BY <2>2, QuietSteps, QuietTyped, StagedQuiet DEF Kept
  <2>3. CASE \E state : Fails(p, state)
    <3>1. Ended(p) /\ legacy' = legacy /\ rows' = rows
      BY <2>3, FailsLikeThis DEF Failed
    <3> QED
      BY <3>1, EndedKeeps DEF Kept, Typed
  <2> QED
    BY <2>1, <2>2, <2>3, AppendKeeps, CommitKeeps, BackfillKeeps, LiveLockKeeps, LiveCommitKeeps
    DEF Acts, Step, Fails
<1>3. phase[p] # "done"
  BY FailsLikeThis
  DEF Acts, Step, Fails, Start, Open, LockMigrations, FindPending, CommitMigrations, NextCollection,
      SelectRow, AppendRow, CommitMigration, ListPlans, BackfillPlan, BackfillDone, VerifyRows,
      VerifyHeads, Inventory, Count, Resolve, LiveLock, LiveCommit
<1> QED
  BY <1>1, <1>2, <1>3

\* and what only those three change.
LEMMA RowsStay ==
    ASSUME NEW p \in Processes, Acts(p), ~CommitMigration(p), ~BackfillPlan(p), ~LiveCommit(p)
    PROVE  rows' = rows
<1>1. CASE \E state : Fails(p, state)
  BY <1>1, FailsLikeThis DEF Failed
<1>2. CASE \A state : ~Fails(p, state)
  BY <1>2, QuietSteps DEF Acts, Step, Fails, Quiet, ledgerVars, AppendRow, LiveLock
<1> QED
  BY <1>1, <1>2

LEMMA KeptInductive ==
    /\ Init => Kept
    /\ Kept /\ [Next]_vars => Kept'
<1>1. Kept /\ UNCHANGED vars => Kept'
  <2> SUFFICES ASSUME Kept, UNCHANGED vars PROVE Kept'
    OBVIOUS
  <2>1. Shaped' /\ Serialised'
    BY ShapedInductive, SerialisedInductive DEF Kept
  <2>2. Typed'
    BY DEF Kept, Typed, vars, ledgerVars
  <2>3. \A p \in Processes : Staged(p)'
    BY DEF Kept, Staged, HoldsNothing, AtRow, vars, ledgerVars, schemaVars
  <2> QED
    BY <2>1, <2>2, <2>3 DEF Kept
<1>2. ASSUME Kept, NEW p \in Processes, Acts(p)
      PROVE  Kept'
  BY <1>2, ActsKeep, SerialisedInductive, StagedElse DEF Kept, Next, Acts
<1> QED
  BY <1>1, <1>2, KeptInit DEF Next, Acts

(***************************************************************************)
(* The migration.  What it has passed is in the ledger as it sees it; what *)
(* it adds to a chain are rows it has passed, in their order.              *)
(***************************************************************************)
Behind(p, c) ==
    {i \in 1..Len(legacy[c]) : c \in ToSet(todo[p]) => c = Head(todo[p]) /\ i < at[p]}

Extends(p, c) ==
    /\ Grown(rows[c], draft[p][c]) /\ InOldOrder(c, draft[p][c])
    /\ \A n \in 1..Len(draft[p][c]) :
          n > Len(rows[c]) => \E i \in Behind(p, c) : draft[p][c][n] = legacy[c][i]

Copying(p) ==
    /\ \A c \in Migratable : \A i \in Behind(p, c) : legacy[c][i] \in ToSet(View(p, c))
    /\ \A c \in Migratable : chain[c] = p => Extends(p, c)
    /\ phase[p] = "append" => ~HasKey(Passed(Head(todo[p]), at[p]), Row(p).key)

Ordered == \A c \in Migratable : InOldOrder(c, rows[c])
Whole == \A c \in Migratable : ToSet(legacy[c]) \subseteq ToSet(rows[c])

\* The id of a plan is in the ledger only once the plan is.
Unused(p) == \A c \in Migratable : ~HasKey(rows[c], p)

Moved ==
    /\ Ordered /\ (NothingCopied \/ Whole)
    /\ \A p \in Processes :
          /\ phase[p] \in {"migrate", "append"} => Copying(p)
          /\ phase[p] # "done" => Unused(p)

LEMMA MovedInit == Init => Moved
<1> SUFFICES ASSUME Init PROVE Moved
  OBVIOUS
<1>1. \A c \in Migratable : rows[c] = << >>
  BY OldCollections DEF Init
<1>2. \A c \in Migratable : ToSet(rows[c]) = {} /\ DOMAIN rows[c] = {}
  BY <1>1 DEF ToSet
<1> QED
  BY <1>1, <1>2 DEF Init, Moved, Ordered, InOldOrder, NothingCopied, Unused, HasKey

\* The order of a chain to which a row is added.
LEMMA AppendInOrder ==
    ASSUME legacy \in LegacyLedgers, NEW c \in Migratable, NEW s \in Seq(OldRow), NEW r \in OldRow,
           InOldOrder(c, s), ~HasKey(s, r.key),
           \A n \in 1..Len(s) : \A j \in 1..Len(legacy[c]) :
              legacy[c][j].key = r.key /\ HasKey(legacy[c], s[n].key) => HasKey(Passed(c, j), s[n].key)
    PROVE  InOldOrder(c, Append(s, r))
<1> DEFINE t == Append(s, r)
<1>1. /\ DOMAIN s = 1..Len(s) /\ DOMAIN t = 1..(Len(s) + 1) /\ Len(s) \in Nat
      /\ t[Len(s) + 1] = r /\ \A n \in 1..Len(s) : t[n] = s[n]
      /\ DOMAIN legacy[c] = 1..Len(legacy[c])
  BY Legacy
<1>2. \A n \in 1..Len(s) : s[n].key # r.key
  BY <1>1 DEF HasKey, ToSet
<1> HIDE DEF t
<1> SUFFICES ASSUME NEW m \in 1..(Len(s) + 1), NEW n \in 1..(Len(s) + 1), m < n
             PROVE  /\ t[m].key # t[n].key
                    /\ \A j \in 1..Len(legacy[c]) :
                          legacy[c][j].key = t[n].key /\ HasKey(legacy[c], t[m].key)
                          => HasKey(Passed(c, j), t[m].key)
  BY <1>1 DEF InOldOrder, t
<1>3. m \in 1..Len(s) /\ t[m] = s[m]
  BY <1>1
<1>4. CASE n = Len(s) + 1
  <2>1. t[n] = r
    BY <1>1, <1>4
  <2> QED
    BY <1>2, <1>3, <2>1
<1>5. CASE n # Len(s) + 1
  <2>1. n \in 1..Len(s) /\ t[n] = s[n]
    BY <1>1, <1>5
  <2> QED
    BY <1>1, <1>3, <2>1 DEF InOldOrder
<1> QED
  BY <1>4, <1>5

\* The chains that a step adds to are its own.
Adds(p) ==
    \A c \in Migratable :
        \/ rows'[c] = rows[c]
        \/ chain[c] = p /\ rows'[c] \in Seq(OldRow) /\ Grown(rows[c], rows'[c])

LEMMA CopyingElse ==
    ASSUME Kept, NEW p \in Processes, Alone(p), Hands(p), Adds(p),
           NEW q \in Processes, q # p, Copying(q)
    PROVE  Copying(q)'
<1>1. /\ \A c \in Collections : chain'[c] = q <=> chain[c] = q
      /\ todo'[q] = todo[q] /\ at'[q] = at[q] /\ draft'[q] = draft[q] /\ phase'[q] = phase[q]
      /\ legacy' = legacy
  BY ProcessesAssumption DEF Hands, Alone
<1>2. \A c : Behind(q, c)' = Behind(q, c)
  BY <1>1 DEF Behind
<1>3. \A c \in Migratable : chain[c] = q => rows'[c] = rows[c]
  BY DEF Adds
<1>4. ASSUME NEW c \in Migratable
      PROVE  ToSet(View(q, c)) \subseteq ToSet(View(q, c))'
  <2>1. c \in Collections
    BY OldCollections
  <2>2. CASE chain[c] = q
    BY <1>1, <1>3, <2>1, <2>2 DEF View
  <2>3. CASE chain[c] # q
    <3>1. View(q, c) = rows[c] /\ View(q, c)' = rows'[c]
      BY <1>1, <2>1, <2>3 DEF View
    <3>2. rows[c] \in Seq(OldRow)
      BY <2>1, OldCollections DEF Kept, Typed
    <3> QED
      BY <3>1, <3>2, GrownKeeps DEF Adds
  <2> QED
    BY <2>2, <2>3
<1>5. \A c \in Migratable : \A i \in Behind(q, c)' : legacy'[c][i] \in ToSet(View(q, c))'
  BY <1>1, <1>2, <1>4 DEF Copying
<1>6. ASSUME NEW c \in Migratable, chain'[c] = q
      PROVE  Extends(q, c)'
  <2>1. Extends(q, c) /\ rows'[c] = rows[c]
    BY <1>1, <1>3, <1>6, OldCollections DEF Copying
  <2> QED
    BY <1>1, <1>2, <2>1 DEF Extends, InOldOrder, Passed
<1>7. phase'[q] = "append" => ~HasKey(Passed(Head(todo[q]), at[q]), Row(q).key)'
  BY <1>1 DEF Copying, Passed, Row
<1> QED
  BY <1>5, <1>6, <1>7 DEF Copying

\* A row that is known and raises no conflict is in the ledger.
LEMMA KnownIsThere ==
    ASSUME NEW S, NEW r, r \in OldRow, S \subseteq OldRow,
           \E q \in S : q.key = r.key, ~\E q \in S : q.key = r.key /\ q.payload # r.payload
    PROVE  r \in S
<1>1. PICK q \in S : q.key = r.key /\ q.payload = r.payload
  OBVIOUS
<1>2. q = r
  BY <1>1 DEF OldRow
<1> QED
  BY <1>1, <1>2

\* The first step into the migration has nothing behind it,
LEMMA CopyingStarts ==
    ASSUME Kept, NEW p \in Processes, Open(p), phase'[p] = "migrate"
    PROVE  Copying(p)'
<1>1. Shaped /\ Staged(p) /\ Typed /\ HoldsNothing(p)'
  <2>1. phase[p] \in Openings
    BY DEF Open, LockMigrations, FindPending, CommitMigrations, Openings
  <2>2. HoldsNothing(p)
    BY <2>1 DEF Kept, Staged, Openings
  <2> QED
    BY <2>2, QuietSteps, QuietTyped DEF Kept
<1>2. phase[p] = "found" /\ goal[p] = "migrate" /\ todo' = todo /\ at' = at /\ legacy' = legacy
  BY <1>1 DEF Open, LockMigrations, FindPending, CommitMigrations, Shaped, ledgerVars
<1>3. ToSet(todo[p]) = Migratable /\ at[p] = 1
  BY <1>1, <1>2 DEF Staged, Openings
<1>4. \A c \in Migratable : Behind(p, c)' = {}
  <2> TAKE c \in Migratable
  <2>1. Len(legacy[c]) \in Nat
    BY <1>1, Legacy DEF Typed
  <2> QED
    BY <1>2, <1>3, <2>1 DEF Behind
<1> QED
  BY <1>1, <1>4, OldCollections DEF Copying, HoldsNothing

\* the next collection none of its own,
LEMMA CopyingNext ==
    ASSUME Kept, NEW p \in Processes, NextCollection(p), Copying(p)
    PROVE  Copying(p)'
<1> DEFINE s == todo[p]
<1>1. /\ Shaped /\ Typed /\ phase[p] = "migrate" /\ s # << >> /\ at[p] > Len(legacy[Head(s)])
      /\ s \in Seq(Migratable) /\ at[p] \in Nat
      /\ \A m, n \in DOMAIN s : s[m] = s[n] => m = n
  BY DEF Kept, Staged, NextCollection
<1>2. todo'[p] = Tail(s) /\ at'[p] = 1 /\ phase' = phase /\ UNCHANGED <<legacy, rows, chain, draft>>
  BY <1>1 DEF NextCollection, Shaped, ledgerVars
<1>3. /\ Len(s) \in Nat \ {0} /\ DOMAIN s = 1..Len(s) /\ Head(s) = s[1] /\ Head(s) \in Migratable
      /\ DOMAIN Tail(s) = 1..(Len(s) - 1) /\ \A n \in 1..(Len(s) - 1) : Tail(s)[n] = s[n + 1]
  BY <1>1
<1> DEFINE t == Tail(s)
<1> HIDE DEF s, t
<1>4. ToSet(s) = {Head(s)} \cup ToSet(t)
  <2>1. \A n \in 2..Len(s) : n - 1 \in 1..(Len(s) - 1) /\ s[n] = t[n - 1]
    BY <1>3 DEF t
  <2>2. \A n \in 1..(Len(s) - 1) : t[n] = s[n + 1] /\ n + 1 \in 1..Len(s)
    BY <1>3 DEF t
  <2>3. DOMAIN t = 1..(Len(s) - 1) /\ ToSet(t) = {t[n] : n \in 1..(Len(s) - 1)}
    BY <1>3 DEF ToSet, t
  <2>4. ASSUME NEW n \in 1..Len(s)
        PROVE  s[n] \in {Head(s)} \cup ToSet(t)
    <3>1. n = 1 \/ n \in 2..Len(s)
      BY <1>3
    <3> QED
      BY <1>3, <2>1, <2>3, <3>1
  <2>5. ToSet(s) = {s[n] : n \in 1..Len(s)}
    BY <1>3 DEF ToSet
  <2>6. Head(s) \in ToSet(s) /\ \A n \in 1..(Len(s) - 1) : t[n] \in ToSet(s)
    BY <1>3, <2>2, <2>5
  <2> QED
    BY <2>3, <2>4, <2>5, <2>6
<1>5. Head(s) \notin ToSet(t)
  <2> SUFFICES ASSUME NEW n \in 1..(Len(s) - 1), t[n] = s[1]
               PROVE  FALSE
    BY <1>3 DEF ToSet, t
  <2>1. s[n + 1] = s[1] /\ n + 1 \in 1..Len(s) /\ 1 \in 1..Len(s)
    BY <1>3 DEF t
  <2> QED
    BY <1>1, <1>3, <2>1
<1>6. ASSUME NEW c \in Migratable
      PROVE  Behind(p, c)' = Behind(p, c)
  <2>1. Len(legacy[c]) \in Nat
    BY <1>1, Legacy DEF Typed
  <2>2. Behind(p, c) = {i \in 1..Len(legacy[c]) : c \in ToSet(s) => c = Head(s) /\ i < at[p]}
    BY DEF Behind, s
  <2>3. Behind(p, c)' = {i \in 1..Len(legacy[c]) : c \in ToSet(t) => c = Head(t) /\ i < 1}
    BY <1>2 DEF Behind, t
  <2>4. CASE c = Head(s)
    BY <1>1, <1>5, <2>1, <2>2, <2>3, <2>4 DEF s
  <2>5. CASE c # Head(s) /\ c \in ToSet(t)
    BY <1>4, <2>1, <2>2, <2>3, <2>5
  <2>6. CASE c # Head(s) /\ c \notin ToSet(t)
    BY <1>4, <2>2, <2>3, <2>6
  <2> QED
    BY <2>4, <2>5, <2>6
<1>7. \A c \in Migratable : View(p, c)' = View(p, c) /\ (Extends(p, c) => Extends(p, c)')
  BY <1>2, <1>6 DEF View, Extends, InOldOrder, Passed
<1> QED
  BY <1>1, <1>2, <1>6, <1>7 DEF Copying

\* and a row that is passed is there.
LEMMA CopyingSelects ==
    ASSUME Kept, NEW p \in Processes, SelectRow(p), Copying(p)
    PROVE  Copying(p)'
<1> DEFINE d == Head(todo[p])
<1>1. Shaped /\ Typed /\ phase[p] = "migrate" /\ AtRow(p) /\ ~Conflicting(p)
  BY DEF Kept, SelectRow
<1>2. /\ d \in Migratable /\ Row(p) = legacy[d][at[p]] /\ at[p] \in 1..Len(legacy[d])
      /\ Row(p) \in OldRow
  BY <1>1, RowKept
<1>3. UNCHANGED <<legacy, rows, chain, draft, todo>>
  BY DEF SelectRow, ledgerVars
<1>4. CASE ~Known(p)
  <2>1. phase'[p] = "append" /\ at' = at
    BY <1>1, <1>4 DEF SelectRow, Shaped
  <2>2. \A c \in Migratable : Behind(p, c)' = Behind(p, c)
    BY <1>3, <2>1 DEF Behind
  <2>3. ~HasKey(Passed(d, at[p]), Row(p).key)'
    BY <1>3, <1>4, <2>1 DEF Known, Passed, Row
  <2> QED
    BY <1>3, <2>1, <2>2, <2>3 DEF Copying, View, Extends, InOldOrder, Passed
<1>5. CASE Known(p)
  <2>1. at'[p] = at[p] + 1 /\ phase' = phase
    BY <1>1, <1>5 DEF SelectRow, Shaped
  <2>2. Row(p) \in ToSet(View(p, d))
    <3>1. View(p, d) \in Seq(OldRow)
      BY <1>1, <1>2, ViewTyped, OldCollections
    <3>2. CASE HasKey(Passed(d, at[p]), Row(p).key)
      <4>1. ToSet(Passed(d, at[p])) = {legacy[d][j] : j \in 1..(at[p] - 1)}
        BY <1>1, <1>2, PassedRows DEF Typed
      <4>2. \A j \in 1..(at[p] - 1) : j \in Behind(p, d) /\ legacy[d][j] \in OldRow
        BY <1>1, <1>2, Legacy DEF Behind, Typed
      <4>3. Row(p) \in ToSet(Passed(d, at[p]))
        BY <1>1, <1>2, <3>2, <4>1, <4>2, KnownIsThere DEF Conflicting, HasKey, Clashes
      <4> QED
        BY <1>2, <4>1, <4>2, <4>3 DEF Copying
    <3>3. CASE ~HasKey(Passed(d, at[p]), Row(p).key)
      <4>1. ToSet(View(p, d)) \subseteq OldRow
        BY <3>1 DEF ToSet
      <4> QED
        BY <1>1, <1>2, <1>5, <3>3, <4>1, KnownIsThere DEF Conflicting, Known, HasKey, Clashes
    <3> QED
      BY <3>2, <3>3
  <2> HIDE DEF d
  <2>3. ASSUME NEW c \in Migratable
        PROVE  Behind(p, c)' \subseteq Behind(p, c) \cup (IF c = d THEN {at[p]} ELSE {})
    BY <1>2, <1>3, <2>1 DEF Behind, d
  <2>4. ASSUME NEW c \in Migratable
        PROVE  Behind(p, c) \subseteq Behind(p, c)'
    BY <1>2, <1>3, <2>1 DEF Behind
  <2>5. \A c \in Migratable : \A i \in Behind(p, c)' : legacy'[c][i] \in ToSet(View(p, c))'
    BY <1>2, <1>3, <2>2, <2>3 DEF Copying, View
  <2>6. \A c \in Migratable : Extends(p, c) => Extends(p, c)'
    BY <1>3, <2>4 DEF Extends, InOldOrder, Passed
  <2> QED
    BY <1>1, <1>3, <2>1, <2>5, <2>6 DEF Copying
<1> QED
  BY <1>4, <1>5

\* What a process sees of a chain extends what is committed of it.
LEMMA SeenExtends ==
    ASSUME Kept, Ordered, NEW p \in Processes, Copying(p), NEW c \in Migratable
    PROVE  /\ View(p, c) \in Seq(OldRow) /\ rows[c] \in Seq(OldRow)
           /\ Grown(rows[c], View(p, c)) /\ InOldOrder(c, View(p, c))
           /\ \A n \in 1..Len(View(p, c)) :
                 n > Len(rows[c]) => \E i \in Behind(p, c) : View(p, c)[n] = legacy[c][i]
<1>1. c \in Collections /\ View(p, c) \in Seq(OldRow) /\ rows[c] \in Seq(OldRow)
  BY ViewTyped, OldCollections DEF Kept, Typed
<1>2. CASE chain[c] = p
  BY <1>1, <1>2 DEF View, Copying, Extends
<1>3. CASE chain[c] # p
  BY <1>1, <1>3, GrownSame DEF View, Ordered
<1> QED
  BY <1>1, <1>2, <1>3

\* A row that is appended comes after the legacy rows that are there.
LEMMA CopyingAppends ==
    ASSUME Kept, Moved, NEW p \in Processes, AppendRow(p), Copying(p)
    PROVE  Copying(p)'
<1> DEFINE d == Head(todo[p])  r == Row(p)  v == View(p, d)  w == AppendOnce(v, r)
<1>1. Shaped /\ Typed /\ phase[p] = "append" /\ AtRow(p) /\ ~Conflicting(p)
  BY DEF Kept, Staged, AppendRow
<1>2. /\ d \in Migratable /\ d \in Collections /\ r = legacy[d][at[p]] /\ at[p] \in 1..Len(legacy[d])
      /\ r \in OldRow /\ DOMAIN legacy[d] = 1..Len(legacy[d]) /\ Len(legacy[d]) \in Nat
      /\ d \in ToSet(todo[p])
  <2>1. /\ d \in Migratable /\ r = legacy[d][at[p]] /\ at[p] \in 1..Len(legacy[d]) /\ r \in OldRow
    BY <1>1, RowKept
  <2>2. todo[p] \in Seq(Migratable) /\ todo[p] # << >>
    BY <1>1 DEF Kept, Staged, AtRow
  <2>3. d \in ToSet(todo[p])
    BY <2>2 DEF ToSet
  <2> QED
    BY <1>1, <2>1, <2>3, Legacy, OldCollections DEF Typed
<1>3. /\ v \in Seq(OldRow) /\ rows[d] \in Seq(OldRow) /\ Grown(rows[d], v) /\ InOldOrder(d, v)
      /\ \A n \in 1..Len(v) : n > Len(rows[d]) => \E i \in Behind(p, d) : v[n] = legacy[d][i]
  BY <1>2, SeenExtends DEF Moved
<1>4. ~HasKey(Passed(d, at[p]), r.key) /\ ~Clashes(v, r)
  BY <1>1 DEF Copying, Conflicting
<1>5. /\ UNCHANGED <<legacy, rows, todo>> /\ at'[p] = at[p] + 1 /\ phase'[p] = "migrate"
      /\ \A c \in Collections : chain'[c] = IF c = d THEN p ELSE chain[c]
      /\ \A c \in Collections : draft'[p][c] = IF c = d THEN w ELSE draft[p][c]
  BY <1>1, <1>2 DEF AppendRow, Shaped, Typed
<1>6. \A c \in Migratable : Behind(p, c)' = Behind(p, c) \cup (IF c = d THEN {at[p]} ELSE {})
  <2> TAKE c \in Migratable
  <2>1. /\ Behind(p, c) = {i \in 1..Len(legacy[c]) : c \in ToSet(todo[p]) => c = d /\ i < at[p]}
        /\ Behind(p, c)' = {i \in 1..Len(legacy[c]) : c \in ToSet(todo[p]) => c = d /\ i < at[p] + 1}
    BY <1>5 DEF Behind
  <2> HIDE DEF d
  <2>2. CASE c = d
    BY <1>2, <2>1, <2>2
  <2>3. CASE c # d
    BY <2>1, <2>3
  <2> QED
    BY <2>2, <2>3
<1>7. \A i \in Behind(p, d) : i \in 1..Len(legacy[d]) /\ i < at[p]
  BY <1>2 DEF Behind
<1>8. w \in Seq(OldRow) /\ Grown(v, w) /\ r \in ToSet(w) /\ ToSet(v) \subseteq ToSet(w)
  <2>1. w \in Seq(OldRow) /\ Grown(v, w)
    BY <1>2, <1>3, AddedOnce
  <2>2. CASE HasKey(v, r.key)
    <3>1. ToSet(v) \subseteq OldRow
      BY <1>3 DEF ToSet
    <3>2. r \in ToSet(v) /\ w = v
      BY <1>2, <1>4, <2>2, <3>1, KnownIsThere DEF HasKey, Clashes, AppendOnce
    <3> QED
      BY <2>1, <3>2
  <2>3. CASE ~HasKey(v, r.key)
    BY <1>2, <1>3, <2>1, <2>3, Added DEF AppendOnce
  <2> QED
    BY <2>2, <2>3
<1>9. /\ InOldOrder(d, w)
      /\ \A n \in 1..Len(w) : n > Len(rows[d]) => \E i \in Behind(p, d) \cup {at[p]} : w[n] = legacy[d][i]
  <2>1. CASE HasKey(v, r.key)
    BY <1>3, <2>1 DEF AppendOnce
  <2>2. CASE ~HasKey(v, r.key)
    <3>1. NothingCopied
      <4>1. SUFFICES ASSUME Whole PROVE FALSE
        BY DEF Moved
      <4>2. r \in ToSet(rows[d])
        BY <1>2, <4>1 DEF Whole, ToSet
      <4>3. r \in ToSet(v)
        BY <1>3, <4>2, GrownKeeps
      <4> QED
        BY <2>2, <4>3 DEF HasKey
    <3>2. w = Append(v, r) /\ Len(w) = Len(v) + 1 /\ Len(v) \in Nat
          /\ w[Len(v) + 1] = r /\ \A n \in 1..Len(v) : w[n] = v[n]
      BY <1>2, <1>3, <2>2 DEF AppendOnce
    <3> HIDE DEF w, v, r, d
    <3>3. ASSUME NEW n \in 1..Len(v), NEW j \in 1..Len(legacy[d]), legacy[d][j].key = r.key,
                 HasKey(legacy[d], v[n].key)
          PROVE  HasKey(Passed(d, j), v[n].key)
      <4>1. n > Len(rows[d])
        <5> SUFFICES ASSUME n <= Len(rows[d]) PROVE FALSE
          BY <1>3, <3>2
        <5>1. n \in 1..Len(rows[d]) /\ v[n] = rows[d][n]
          BY <1>3, <3>2 DEF Grown
        <5>2. v[n] \in ToSet(rows[d])
          BY <1>3, <5>1 DEF ToSet
        <5> QED
          BY <1>2, <3>1, <3>3, <5>2 DEF NothingCopied
      <4>2. PICK i \in Behind(p, d) : v[n] = legacy[d][i]
        BY <1>3, <4>1
      <4>3. i \in 1..Len(legacy[d]) /\ i < at[p]
        BY <1>7
      <4>4. at[p] <= j
        <5> SUFFICES ASSUME j < at[p] PROVE FALSE
          BY <1>2
        <5>1. legacy[d][j] \in ToSet(Passed(d, at[p]))
          BY <1>1, <1>2, PassedRows DEF Typed
        <5> QED
          BY <1>4, <3>3, <5>1 DEF HasKey
      <4>5. i \in 1..(j - 1)
        BY <1>2, <4>3, <4>4
      <4>6. legacy[d][i] \in ToSet(Passed(d, j))
        BY <1>1, <1>2, <4>5, PassedRows DEF Typed
      <4> QED
        BY <4>2, <4>6 DEF HasKey
    <3>4. InOldOrder(d, w)
      BY <1>1, <1>2, <1>3, <2>2, <3>2, <3>3, AppendInOrder DEF Typed
    <3>5. ASSUME NEW n \in 1..Len(w), n > Len(rows[d])
          PROVE  \E i \in Behind(p, d) \cup {at[p]} : w[n] = legacy[d][i]
      <4>1. CASE n \in 1..Len(v)
        BY <1>3, <3>2, <3>5, <4>1
      <4>2. CASE n = Len(v) + 1
        BY <1>2, <3>2, <4>2
      <4> QED
        BY <3>2, <4>1, <4>2
    <3> QED
      BY <3>4, <3>5
  <2> QED
    BY <2>1, <2>2
<1>10. Grown(rows[d], w)
  BY <1>3, <1>8, GrownOn
<1> HIDE DEF w, v, r, d
<1>11. \A c \in Migratable : View(p, c)' = IF c = d THEN w ELSE View(p, c)
  BY <1>2, <1>5, OldCollections DEF View
<1>12. \A c \in Migratable : \A i \in Behind(p, c)' : legacy'[c][i] \in ToSet(View(p, c))'
  <2> TAKE c \in Migratable
  <2>1. CASE c = d
    <3>1. \A i \in Behind(p, d) : legacy[d][i] \in ToSet(v)
      BY <1>2 DEF Copying, v
    <3>2. View(p, c)' = w /\ Behind(p, c)' = Behind(p, d) \cup {at[p]} /\ legacy'[c] = legacy[d]
      BY <1>5, <1>6, <1>11, <2>1
    <3> QED
      BY <1>2, <1>8, <3>1, <3>2
  <2>2. CASE c # d
    BY <1>5, <1>6, <1>11, <2>2 DEF Copying
  <2> QED
    BY <2>1, <2>2
<1>13. ASSUME NEW c \in Migratable, chain'[c] = p
       PROVE  Extends(p, c)'
  <2>1. CASE c = d
    <3>1. draft'[p][c] = w /\ rows'[c] = rows[d] /\ Behind(p, c)' = Behind(p, d) \cup {at[p]} /\ legacy' = legacy
      BY <1>2, <1>5, <1>6, <2>1
    <3> QED
      BY <1>9, <1>10, <2>1, <3>1 DEF Extends, InOldOrder, Passed
  <2>2. CASE c # d
    <3>1. Extends(p, c) /\ draft'[p][c] = draft[p][c] /\ rows' = rows /\ Behind(p, c)' = Behind(p, c) /\ legacy' = legacy
      BY <1>5, <1>6, <1>13, <2>2, OldCollections DEF Copying
    <3> QED
      BY <3>1 DEF Extends, InOldOrder, Passed
  <2> QED
    BY <2>1, <2>2
<1> QED
  BY <1>5, <1>12, <1>13 DEF Copying

\* The chains after each of the steps that add to them.
Chained(p) ==
    /\ Adds(p) /\ Ordered' /\ (NothingCopied' \/ Whole')
    /\ \A q \in Processes : phase'[q] # "done" => Unused(q)'

LEMMA CommitChained ==
    ASSUME Kept, Moved, NEW p \in Processes, CommitMigration(p), Alone(p)
    PROVE  Chained(p) /\ Whole'
<1>1. phase[p] = "migrate" /\ todo[p] = << >> /\ Copying(p) /\ Typed /\ legacy' = legacy
  BY DEF CommitMigration, Moved, Kept
<1>2. ASSUME NEW c \in Migratable
      PROVE  /\ rows'[c] = View(p, c) /\ View(p, c) \in Seq(OldRow) /\ rows[c] \in Seq(OldRow)
             /\ Grown(rows[c], rows'[c]) /\ InOldOrder(c, View(p, c))
             /\ chain[c] # p => rows'[c] = rows[c]
             /\ \A n \in 1..Len(View(p, c)) :
                   n > Len(rows[c]) => \E i \in Behind(p, c) : View(p, c)[n] = legacy[c][i]
  <2>1. rows'[c] = View(p, c)
    BY OldCollections DEF CommitMigration, Published
  <2> QED
    BY <1>1, <2>1, SeenExtends DEF Moved, View
<1>3. Adds(p)
  <2> SUFFICES ASSUME NEW c \in Migratable
               PROVE  \/ rows'[c] = rows[c]
                      \/ chain[c] = p /\ rows'[c] \in Seq(OldRow) /\ Grown(rows[c], rows'[c])
    BY DEF Adds
  <2>1. /\ rows'[c] = View(p, c) /\ View(p, c) \in Seq(OldRow)
        /\ Grown(rows[c], rows'[c])
        /\ chain[c] # p => rows'[c] = rows[c]
    BY <1>2
  <2> HIDE DEF View
  <2>2. rows'[c] \in Seq(OldRow)
    BY <2>1
  <2> QED
    BY <2>1, <2>2
<1>4. Ordered'
  <2> SUFFICES ASSUME NEW c \in Migratable PROVE InOldOrder(c, rows[c])'
    BY DEF Ordered
  <2>1. InOldOrder(c, rows'[c])
    BY <1>2
  <2> QED
    BY <1>1, <2>1 DEF InOldOrder, Passed
<1>5. Whole'
  <2> SUFFICES ASSUME NEW c \in Migratable
               PROVE  ToSet(legacy[c]) \subseteq ToSet(View(p, c))
    BY <1>1, <1>2 DEF Whole
  <2>1. ToSet(todo[p]) = {}
    BY <1>1 DEF ToSet
  <2>2. Behind(p, c) = 1..Len(legacy[c])
    BY <2>1 DEF Behind
  <2>3. \A i \in 1..Len(legacy[c]) : legacy[c][i] \in ToSet(View(p, c))
    BY <1>1, <2>2 DEF Copying
  <2>4. DOMAIN legacy[c] = 1..Len(legacy[c])
    BY <1>1, Legacy DEF Typed
  <2> QED
    BY <2>3, <2>4 DEF ToSet
<1>6. ASSUME NEW q \in Processes, phase'[q] # "done"
      PROVE  Unused(q)'
  <2>1. Unused(q)
    <3>1. phase[q] # "done"
      BY <1>1, <1>6 DEF Alone
    <3> QED
      BY <3>1 DEF Moved
  <2> SUFFICES ASSUME NEW c \in Migratable, NEW n \in 1..Len(View(p, c)), View(p, c)[n].key = q
               PROVE  FALSE
    BY <1>2 DEF Unused, HasKey, ToSet
  <2> DEFINE v == View(p, c)
  <2>5. /\ v \in Seq(OldRow) /\ rows[c] \in Seq(OldRow) /\ Grown(rows[c], v)
        /\ \A m \in 1..Len(v) : m > Len(rows[c]) => \E i \in Behind(p, c) : v[m] = legacy[c][i]
    <3>1. rows'[c] = v
      BY <1>2
    <3> QED
      BY <1>2, <3>1
  <2>2. /\ Len(v) \in Nat /\ Len(rows[c]) \in Nat /\ DOMAIN rows[c] = 1..Len(rows[c])
        /\ \A m \in 1..Len(rows[c]) : v[m] = rows[c][m]
        /\ \A m \in 1..Len(v) : m > Len(rows[c]) => \E i \in Behind(p, c) : v[m] = legacy[c][i]
    BY <2>5 DEF Grown
  <2> HIDE DEF v
  <2>3. CASE n <= Len(rows[c])
    <3>1. n \in 1..Len(rows[c]) /\ v[n] = rows[c][n]
      BY <2>2, <2>3 DEF v
    <3>2. v[n] \in ToSet(rows[c])
      BY <2>2, <3>1 DEF ToSet
    <3> QED
      BY <2>1, <3>2 DEF Unused, HasKey, v
  <2>4. CASE n > Len(rows[c])
    <3>1. PICK i \in Behind(p, c) : v[n] = legacy[c][i]
      BY <2>2, <2>4 DEF v
    <3>2. i \in 1..Len(legacy[c])
      BY DEF Behind
    <3> QED
      BY <1>1, <3>1, <3>2, Legacy DEF Typed, v
  <2> QED
    BY <2>2, <2>3, <2>4 DEF v
<1> QED
  BY <1>3, <1>4, <1>5, <1>6 DEF Chained

LEMMA LiveChained ==
    ASSUME Kept, Moved, NEW p \in Processes, LiveCommit(p), Alone(p)
    PROVE  Chained(p)
<1>1. phase[p] = "live" /\ Typed /\ Staged(p) /\ phase'[p] = "done" /\ legacy' = legacy
  BY LiveRows DEF LiveCommit, Kept, Ended, Shaped
<1>2. Unused(p)
  BY <1>1 DEF Moved
<1>3. ASSUME NEW c \in Migratable
      PROVE  /\ rows[c] \in Seq(OldRow) /\ InOldOrder(c, rows[c]) /\ ~HasKey(rows[c], p)
             /\ \/ rows'[c] = rows[c]
                \/ chain[c] = p /\ \E r \in OldRow : r.key = p /\ rows'[c] = Append(rows[c], r)
  <2>1. c \in Collections /\ c \in {Requests, Decisions, Receipts}
    BY OldCollections DEF Migratable
  <2>2. rows[c] \in Seq(OldRow)
    BY <1>1, <2>1, OldCollections DEF Typed
  <2>3. InOldOrder(c, rows[c]) /\ ~HasKey(rows[c], p)
    BY <1>2 DEF Moved, Ordered, Unused
  <2>4. CASE chain[c] # p
    <3>1. rows' = [e \in Collections |->
                     IF chain[e] = p THEN Append(rows[e], LiveRow(e, p)) ELSE rows[e]]
      BY DEF LiveCommit
    <3>2. rows'[c] = rows[c]
      BY <2>1, <2>4, <3>1
    <3> QED
      BY <2>2, <2>3, <3>2
  <2>5. CASE chain[c] = p
    <3>1. \A r \in {RowOf(p, "request"), RowOf(p, "NOT_SIMULATED")} : r.key = p /\ r \in OldRow
      <4>1. RowOf(p, "request").key = p /\ RowOf(p, "NOT_SIMULATED").key = p
        BY DEF RowOf
      <4>2. RowOf(p, "request") \in OldRow /\ RowOf(p, "NOT_SIMULATED") \in OldRow
        BY LiveRows
      <4> QED
        BY <4>1, <4>2
    <3>2. \/ rows'[c] = rows[c]
          \/ \E r \in {RowOf(p, "request"), RowOf(p, "NOT_SIMULATED")} : rows'[c] = Append(rows[c], r)
      BY <2>1, LiveRows
    <3> QED
      BY <2>2, <2>3, <2>5, <3>1, <3>2
  <2> QED
    BY <2>4, <2>5
<1>4. \A c \in Migratable : \A j \in DOMAIN legacy[c] : legacy[c][j].key # p
  BY <1>1, Legacy DEF Typed
<1>5. Adds(p)
  <2> SUFFICES ASSUME NEW c \in Migratable, rows'[c] # rows[c]
               PROVE  chain[c] = p /\ rows'[c] \in Seq(OldRow) /\ Grown(rows[c], rows'[c])
    BY DEF Adds
  <2>1. PICK r \in OldRow : rows'[c] = Append(rows[c], r)
    BY <1>3
  <2>2. chain[c] = p /\ rows[c] \in Seq(OldRow)
    BY <1>3
  <2>3. Append(rows[c], r) \in Seq(OldRow) /\ Grown(rows[c], Append(rows[c], r))
    BY <2>2, Added
  <2> QED
    BY <2>1, <2>2, <2>3
<1>6. Ordered'
  <2> SUFFICES ASSUME NEW c \in Migratable PROVE InOldOrder(c, rows[c])'
    BY DEF Ordered
  <2>1. InOldOrder(c, rows'[c])
    <3>1. CASE rows'[c] = rows[c]
      BY <1>3, <3>1
    <3>2. ASSUME NEW r \in OldRow, r.key = p, rows'[c] = Append(rows[c], r)
          PROVE  InOldOrder(c, rows'[c])
      <4>1. \A j \in 1..Len(legacy[c]) : legacy[c][j].key # r.key
        BY <1>1, <1>4, <3>2, Legacy DEF Typed
      <4> QED
        BY <1>1, <1>3, <3>2, <4>1, AppendInOrder DEF Typed
    <3> QED
      BY <1>3, <3>1, <3>2
  <2> QED
    BY <1>1, <2>1 DEF InOldOrder, Passed
<1>7. \A c \in Migratable : \A r \in ToSet(rows'[c]) : r \in ToSet(rows[c]) \/ r.key = p
  <2> TAKE c \in Migratable
  <2>1. CASE rows'[c] = rows[c]
    BY <2>1
  <2>2. ASSUME NEW r \in OldRow, r.key = p, rows'[c] = Append(rows[c], r)
        PROVE  \A x \in ToSet(rows'[c]) : x \in ToSet(rows[c]) \/ x.key = p
    BY <1>3, <2>2, Added
  <2> QED
    BY <1>3, <2>1, <2>2
<1>8. NothingCopied' \/ Whole'
  <2>1. CASE NothingCopied
    <3>1. \A c \in Migratable : ~HasKey(legacy[c], p)
      BY <1>4 DEF HasKey, ToSet
    <3> QED
      BY <1>1, <1>7, <2>1, <3>1 DEF NothingCopied
  <2>2. CASE Whole
    <3>1. \A c \in Migratable : ToSet(rows[c]) \subseteq ToSet(rows'[c])
      <4> TAKE c \in Migratable
      <4>1. CASE rows'[c] = rows[c]
        BY <4>1
      <4>2. ASSUME NEW r \in OldRow, r.key = p, rows'[c] = Append(rows[c], r)
            PROVE  ToSet(rows[c]) \subseteq ToSet(rows'[c])
        BY <1>3, <4>2, Added
      <4> QED
        BY <1>3, <4>1, <4>2
    <3> QED
      BY <1>1, <2>2, <3>1 DEF Whole
  <2> QED
    BY <2>1, <2>2 DEF Moved
<1>9. ASSUME NEW q \in Processes, phase'[q] # "done"
      PROVE  Unused(q)'
  <2>1. q # p /\ phase[q] # "done"
    BY <1>1, <1>9 DEF Alone
  <2>2. Unused(q)
    BY <2>1 DEF Moved
  <2> QED
    BY <1>7, <2>1, <2>2 DEF Unused, HasKey
<1> QED
  BY <1>5, <1>6, <1>8, <1>9 DEF Chained

LEMMA ActsChained ==
    ASSUME Kept, Moved, NEW p \in Processes, Acts(p)
    PROVE  Chained(p)
<1>1. Alone(p) /\ Hands(p) /\ phase[p] # "done"
  BY ActsKeep
<1>2. CASE \A c \in Migratable : rows'[c] = rows[c]
  <2>1. legacy' = legacy
    BY <1>1 DEF Hands
  <2>2. Adds(p)
    BY <1>2 DEF Adds
  <2>3. Ordered'
    BY <1>2, <2>1 DEF Moved, Ordered, InOldOrder, Passed
  <2>4. NothingCopied' \/ Whole'
    BY <1>2, <2>1 DEF Moved, NothingCopied, Whole
  <2>5. ASSUME NEW q \in Processes, phase'[q] # "done"
        PROVE  Unused(q)'
    <3>1. Unused(q)
      BY <1>1, <2>5 DEF Moved, Alone
    <3> QED
      BY <1>2, <3>1 DEF Unused
  <2> QED
    BY <2>2, <2>3, <2>4, <2>5 DEF Chained
<1>3. CASE CommitMigration(p)
  BY <1>1, <1>3, CommitChained
<1>4. CASE LiveCommit(p)
  BY <1>1, <1>4, LiveChained
<1>5. CASE BackfillPlan(p)
  <2>1. \A c \in Migratable : rows'[c] = rows[c]
    BY <1>5, BackfillKeeps, OldCollections DEF Kept, Shaped
  <2> QED
    BY <1>2, <2>1
<1> QED
  BY <1>2, <1>3, <1>4, <1>5, RowsStay

LEMMA MovedInductive ==
    /\ Init => Moved
    /\ Kept /\ Moved /\ [Next]_vars => Moved'
<1>1. Moved /\ UNCHANGED vars => Moved'
  BY DEF Moved, Ordered, InOldOrder, NothingCopied, Whole, Unused, Copying, Behind, Extends, View,
         Passed, Row, vars, ledgerVars, schemaVars
<1>2. ASSUME Kept, Moved, NEW p \in Processes, Acts(p)
      PROVE  Moved'
  <2>1. Shaped' /\ Alone(p) /\ Hands(p) /\ Staged(p)'
    BY <1>2, ActsKeep
  <2>2. Chained(p)
    BY <1>2, ActsChained
  <2>3. ASSUME phase'[p] \in {"migrate", "append"}
        PROVE  Copying(p)'
    <3>1. CASE Open(p)
      <4>1. phase'[p] = "migrate"
        BY <1>2, <2>3, <3>1 DEF Open, LockMigrations, FindPending, CommitMigrations, Kept, Shaped,
                                Serialised
      <4> QED
        BY <1>2, <3>1, <4>1, CopyingStarts
    <3>2. CASE NextCollection(p) \/ SelectRow(p) \/ AppendRow(p)
      <4>1. Copying(p)
        BY <1>2, <3>2 DEF Moved, NextCollection, SelectRow, AppendRow
      <4> QED
        BY <1>2, <3>2, <4>1, CopyingNext, CopyingSelects, CopyingAppends
    <3>3. CASE \E state : Fails(p, state)
      <4>1. phase'[p] = "done"
        BY <1>2, <3>3, FailsLikeThis DEF Failed, Ended, Kept, Shaped
      <4> QED
        BY <2>3, <4>1
    <3>4. CASE Start(p) \/ CommitMigration(p) \/ ListPlans(p) \/ BackfillPlan(p) \/ BackfillDone(p)
               \/ VerifyRows(p) \/ VerifyHeads(p) \/ Inventory(p) \/ Count(p) \/ Resolve(p)
               \/ LiveLock(p) \/ LiveCommit(p)
      BY <1>2, <2>3, <3>4
      DEF Kept, Shaped, Start, CommitMigration, ListPlans, BackfillPlan, BackfillDone, VerifyRows,
          VerifyHeads, Inventory, Count, Resolve, LiveLock, LiveCommit, Ended
    <3> QED
      BY <1>2, <3>1, <3>2, <3>3, <3>4 DEF Acts, Step, Fails
  <2>4. ASSUME NEW q \in Processes, phase'[q] \in {"migrate", "append"}
        PROVE  Copying(q)'
    <3>1. CASE q # p
      BY <1>2, <2>1, <2>2, <2>4, <3>1, CopyingElse DEF Moved, Alone, Chained
    <3> QED
      BY <2>3, <2>4, <3>1
  <2> QED
    BY <2>2, <2>4 DEF Moved, Chained
<1> QED
  BY <1>1, <1>2, MovedInit DEF Next, Acts

(***************************************************************************)
(* The legacy rows are in the scoped ledger all or not at all, each once   *)
(* and in their old order, however many apply at once, fail, are           *)
(* interrupted or create plans beside them.                                *)
(***************************************************************************)
THEOREM LegacyMovesWhole == Spec => []LegacyMigratedWhole
<1>1. Init => Kept /\ Moved
  BY KeptInductive, MovedInductive
<1>2. Kept /\ Moved /\ [Next]_vars => (Kept /\ Moved)'
  BY KeptInductive, MovedInductive
<1>3. Moved => LegacyMigratedWhole
  BY DEF Moved, Ordered, Whole, LegacyMigratedWhole
<1> QED
  BY <1>1, <1>2, <1>3, PTL DEF Spec

(***************************************************************************)
(* What a report says.  A schema that was found to verify still does.      *)
(***************************************************************************)
Verdict == {"NOT_EVALUATED", "PASS", "FAIL", "NOT_APPLICABLE"}
Report == [schema : Verdict \ {"NOT_APPLICABLE"}, chains : Verdict, counts : Verdict, scope : Verdict]

Judged(p) ==
    /\ checks[p] \in Report
    /\ checks[p].schema = "PASS" => SchemaVerifies(schema)
    /\ phase[p] \notin {"idle", "done"} =>
          /\ job[p] \in Jobs
          /\ job[p].partial =>
                /\ job[p].mode # "apply"
                /\ job[p].mode \in {"verify", "check"} => checks[p].scope = "NOT_EVALUATED"
    /\ report[p].final = "GO" =>
          phase[p] = "done" /\ SchemaVerifies(schema) /\ ~job[p].partial

LEMMA JudgedInit == Init => \A p \in Processes : Judged(p)
<1> SUFFICES ASSUME Init, NEW p \in Processes PROVE Judged(p)
  OBVIOUS
<1>1. checks[p] = Checks /\ report[p] = NoReport /\ phase[p] = "idle"
  BY DEF Init
<1>2. Checks \in Report /\ Checks.schema = "NOT_EVALUATED" /\ NoReport.final = "none"
  BY DEF Checks, Report, Verdict, NoReport
<1> QED
  BY <1>1, <1>2 DEF Judged

\* A schema that verifies is kept.
LEMMA Verified ==
    ASSUME Serialised, [Next]_vars, SchemaVerifies(schema)
    PROVE  SchemaVerifies(schema')
BY SchemaKept

\* The outcome of a run is GO only for checks that all passed.
LEMMA OutcomeGo ==
    ASSUME NEW p \in Processes, job[p] \in Jobs, NEW k \in Report, NEW found,
           Outcome(p, k, found).final = "GO"
    PROVE  k.schema = "PASS" /\ k.scope # "NOT_EVALUATED" /\ job[p].mode \in {"check", "verify", "apply"}
<1>1. job[p].mode \in {"apply", "verify", "check", "start", "plan"}
  BY JobsAssumption
<1>2. /\ \A state, code : NoGo(state, code).final = "NO_GO"
      /\ NoReport.final = "none"
  BY DEF NoGo, NoReport
<1>3. AllWell(k)
  BY <1>1, <1>2 DEF Outcome, CheckOnlyOutcome, VerifyOutcome, ApplyOutcome
<1>4. job[p].mode \in {"check", "verify", "apply"}
  BY <1>1, <1>2 DEF Outcome
<1>5. k.schema \in {"PASS", "NOT_APPLICABLE"} /\ k.scope \in {"PASS", "NOT_APPLICABLE"}
  BY <1>3 DEF AllWell, Verdicts
<1> QED
  BY <1>4, <1>5 DEF Report, Verdict

\* A step of p that reports nothing and starts nothing.
Silent(p) == UNCHANGED <<job, checks, report>>

LEMMA SilentSteps ==
    ASSUME NEW p \in Processes,
           \/ Open(p) \/ NextCollection(p) \/ SelectRow(p) \/ AppendRow(p) \/ CommitMigration(p)
           \/ ListPlans(p) \/ BackfillPlan(p) \/ BackfillDone(p) \/ VerifyRows(p) \/ LiveLock(p)
           \/ LiveCommit(p)
    PROVE  Silent(p)
BY DEF Silent, Open, NextCollection, SelectRow, AppendRow, CommitMigration, ListPlans, BackfillPlan,
       BackfillDone, VerifyRows, LiveLock, LiveCommit

LEMMA JudgedKeeps ==
    ASSUME Kept, NEW p \in Processes, Acts(p), Judged(p)
    PROVE  Judged(p)'
<1>1. Shaped /\ phase[p] # "done" /\ report[p].final # "GO" /\ checks[p] \in Report
  BY ActsKeep DEF Kept, Judged
<1>2. SchemaVerifies(schema) => SchemaVerifies(schema)'
  BY Verified DEF Kept, Next, Acts
<1>3. CASE Start(p)
  <2>1. PICK j \in Jobs :
            /\ job'[p] = j
            /\ phase'[p] = CASE j.mode \in {"verify", "check"} -> "inventory"
                             [] j.mode = "apply" /\ Refusal(j) # 0 -> "done"
                             [] OTHER -> "opening"
            /\ report'[p] = IF j.mode = "apply" /\ Refusal(j) # 0
                            THEN NoGo("refused", Refusal(j)) ELSE report[p]
            /\ checks'[p] = [checks[p] EXCEPT !.scope =
                   IF j.mode \in {"verify", "check"} /\ j.partial THEN "NOT_EVALUATED" ELSE @]
    BY <1>1, <1>3 DEF Start, Shaped
  <2>2. report'[p].final # "GO"
    BY <1>1, <2>1 DEF NoGo
  <2>3. /\ checks'[p] \in Report /\ checks'[p].schema = checks[p].schema
        /\ j.mode \in {"verify", "check"} /\ j.partial => checks'[p].scope = "NOT_EVALUATED"
    BY <1>1, <2>1 DEF Report, Verdict
  <2>4. phase'[p] # "done" /\ j.partial => j.mode # "apply"
    BY <2>1 DEF Refusal
  <2> QED
    BY <1>2, <2>1, <2>2, <2>3, <2>4 DEF Judged
<1>4. CASE Silent(p) /\ phase[p] # "idle"
  BY <1>1, <1>2, <1>4 DEF Judged, Silent
<1>5. CASE \E state : Fails(p, state)
  <2>1. PICK state : Failed(p, state)
    BY <1>5, FailsLikeThis
  <2>2. report'[p] \in {[NoReport EXCEPT !.state = state], NoGo(state, 4)} /\ phase'[p] = "done"
        /\ checks' = checks
    BY <1>1, <2>1 DEF Failed, Ended, Shaped
  <2>3. report'[p].final # "GO"
    BY <2>2 DEF NoReport, NoGo
  <2> QED
    BY <1>2, <2>2, <2>3 DEF Judged
<1>6. CASE VerifyHeads(p) \/ Count(p)
  <2>1. /\ phase[p] \in {"heads", "counts"} /\ UNCHANGED <<job, report>>
        /\ checks'[p] \in {checks[p], [checks[p] EXCEPT !.chains = "PASS"], [checks[p] EXCEPT !.counts = "PASS"]}
    <3>1. CASE VerifyHeads(p)
      BY <1>1, <3>1 DEF VerifyHeads, Shaped
    <3>2. CASE Count(p)
      <4>1. checks'[p] = [checks[p] EXCEPT !.counts = IF job[p].mode = "check" THEN @ ELSE "PASS"]
        BY <1>1, <3>2 DEF Count, Shaped
      <4>2. checks'[p] \in {checks[p], [checks[p] EXCEPT !.counts = "PASS"]}
        BY <1>1, <4>1 DEF Report
      <4> QED
        BY <3>2, <4>2 DEF Count
    <3> QED
      BY <1>6, <3>1, <3>2
  <2>2. /\ checks'[p] \in Report
        /\ checks'[p].schema = checks[p].schema /\ checks'[p].scope = checks[p].scope
    BY <1>1, <2>1 DEF Report, Verdict
  <2> QED
    BY <1>1, <1>2, <2>1, <2>2 DEF Judged
<1>7. CASE Inventory(p)
  <2> DEFINE verdict == SchemaVerdict(p)
  <2>1. /\ phase[p] = "inventory" /\ UNCHANGED <<schema, job, report>>
        /\ \/ checks'[p] = [checks[p] EXCEPT !.schema = verdict, !.counts = checks[p].counts]
           \/ checks'[p] = [checks[p] EXCEPT !.schema = verdict, !.counts = "NOT_EVALUATED"]
    <3>1. checks' = [checks EXCEPT ![p].schema = verdict,
                            ![p].counts = IF job[p].mode = "check" THEN @ ELSE "NOT_EVALUATED"]
      BY <1>7 DEF Inventory
    <3>2. checks'[p] = [checks[p] EXCEPT !.schema = verdict,
                            !.counts = IF job[p].mode = "check" THEN @ ELSE "NOT_EVALUATED"]
      BY <1>1, <3>1 DEF Shaped
    <3>3. phase[p] = "inventory" /\ UNCHANGED <<schema, job, report>>
      BY <1>7 DEF Inventory, schemaVars
    <3> HIDE DEF verdict
    <3>4. CASE job[p].mode = "check"
      BY <3>2, <3>3, <3>4
    <3>5. CASE job[p].mode # "check"
      BY <3>2, <3>3, <3>5
    <3> QED
      BY <3>4, <3>5
  <2>2. verdict \in {"NOT_EVALUATED", "PASS", "FAIL"} /\ (verdict = "PASS" => SchemaVerifies(schema))
    BY DEF SchemaVerdict
  <2> HIDE DEF verdict
  <2>3. checks'[p] \in Report /\ checks'[p].schema = verdict /\ checks'[p].scope = checks[p].scope
    BY <1>1, <2>1, <2>2 DEF Report, Verdict
  <2> QED
    BY <1>1, <2>1, <2>2, <2>3 DEF Judged
<1>8. CASE Resolve(p)
  <2> DEFINE k == [checks[p] EXCEPT !.scope =
                      IF job[p].mode # "check" /\ ~job[p].partial THEN "PASS" ELSE @]
  <2>1. /\ phase[p] = "resolve" /\ UNCHANGED <<schema, job, checks>>
        /\ report'[p] = Outcome(p, k, issues[p]) /\ phase'[p] = "done"
    BY <1>1, <1>8 DEF Resolve, schemaVars, Shaped
  <2>2. /\ k \in Report /\ k.schema = checks[p].schema
        /\ k.scope \in {"PASS", checks[p].scope}
        /\ job[p].mode = "check" \/ job[p].partial => k.scope = checks[p].scope
    BY <1>1 DEF Report, Verdict
  <2>3. job[p] \in Jobs
    BY <2>1 DEF Judged
  <2> HIDE DEF k
  <2>4. ASSUME report'[p].final = "GO"
        PROVE  SchemaVerifies(schema) /\ ~job[p].partial
    <3>1. k.schema = "PASS" /\ k.scope # "NOT_EVALUATED" /\ job[p].mode \in {"check", "verify", "apply"}
      BY <2>1, <2>2, <2>3, <2>4, OutcomeGo
    <3> QED
      BY <2>1, <2>2, <2>3, <3>1, JobsAssumption DEF Judged
  <2> QED
    BY <1>1, <2>1, <2>4 DEF Judged
<1> HIDE DEF Silent
<1>9. ASSUME phase[p] = "idle" PROVE Start(p)
  BY <1>9, FailsLikeThis
  DEF Acts, Step, Fails, Open, LockMigrations, FindPending, CommitMigrations, NextCollection,
      SelectRow, AppendRow, CommitMigration, ListPlans, BackfillPlan, BackfillDone, VerifyRows,
      VerifyHeads, Inventory, Count, Resolve, LiveLock, LiveCommit
<1> QED
  BY <1>3, <1>4, <1>5, <1>6, <1>7, <1>8, <1>9, SilentSteps DEF Acts, Step, Fails

LEMMA JudgedElse ==
    ASSUME Kept, NEW p \in Processes, Acts(p), NEW q \in Processes, q # p, Judged(q)
    PROVE  Judged(q)'
<1>1. SchemaVerifies(schema) => SchemaVerifies(schema)'
  BY Verified DEF Kept, Next, Acts
<1>2. checks'[q] = checks[q] /\ phase'[q] = phase[q] /\ job'[q] = job[q] /\ report'[q] = report[q]
  BY ActsKeep DEF Alone
<1> QED
  BY <1>1, <1>2 DEF Judged

(***************************************************************************)
(* The events of the decisions.  Once the legacy rows are there, what the  *)
(* events of a decision are does not change, and a new one has its own.    *)
(***************************************************************************)
Settled(r) == EventsOf(r, rows) \subseteq ToSet(rows[Events])

\* A migration has nothing to add to chains that have every legacy row.
LEMMA WholeAddsNothing ==
    ASSUME Kept, Moved, Whole, NEW p \in Processes, CommitMigration(p)
    PROVE  rows'[Events] = rows[Events] /\ \A c \in Migratable : ToSet(rows'[c]) = ToSet(rows[c])
<1>1. /\ phase[p] = "migrate" /\ Copying(p) /\ Typed /\ Staged(p)
      /\ \A c \in Collections : rows'[c] = View(p, c)
  BY DEF CommitMigration, Published, Moved, Kept
<1>2. rows'[Events] = rows[Events]
  BY <1>1, OldCollections DEF Staged, View
<1>3. ASSUME NEW c \in Migratable
      PROVE  ToSet(rows'[c]) = ToSet(rows[c])
  <2> DEFINE v == View(p, c)
  <2>1. /\ v \in Seq(OldRow) /\ rows[c] \in Seq(OldRow) /\ Grown(rows[c], v)
        /\ \A n \in 1..Len(v) : n > Len(rows[c]) => \E i \in Behind(p, c) : v[n] = legacy[c][i]
    BY <1>1, SeenExtends DEF Moved
  <2>2. rows'[c] = v
    BY <1>1, OldCollections
  <2> HIDE DEF v
  <2>3. \A i \in Behind(p, c) : legacy[c][i] \in ToSet(rows[c])
    <3> TAKE i \in Behind(p, c)
    <3>1. i \in 1..Len(legacy[c]) /\ DOMAIN legacy[c] = 1..Len(legacy[c])
      BY <1>1, Legacy DEF Typed, Behind
    <3>2. legacy[c][i] \in ToSet(legacy[c])
      BY <3>1 DEF ToSet
    <3> QED
      BY <3>2 DEF Whole
  <2>4. ASSUME NEW n \in 1..Len(v)
        PROVE  v[n] \in ToSet(rows[c])
    <3>1. CASE n <= Len(rows[c])
      <4>1. n \in 1..Len(rows[c]) /\ DOMAIN rows[c] = 1..Len(rows[c]) /\ v[n] = rows[c][n]
        BY <2>1, <3>1 DEF Grown
      <4> QED
        BY <4>1 DEF ToSet
    <3>2. CASE n > Len(rows[c])
      BY <2>1, <2>3, <3>2
    <3> QED
      BY <2>1, <3>1, <3>2
  <2>5. DOMAIN v = 1..Len(v)
    BY <2>1
  <2>6. ToSet(v) \subseteq ToSet(rows[c])
    BY <2>4, <2>5 DEF ToSet
  <2>7. ToSet(rows[c]) \subseteq ToSet(v)
    BY <2>1, GrownKeeps
  <2> QED
    BY <2>2, <2>6, <2>7
<1> QED
  BY <1>2, <1>3

LEMMA SameEvents ==
    ASSUME NEW r, ToSet(rows'[Receipts]) = ToSet(rows[Receipts])
    PROVE  EventsOf(r, rows') = EventsOf(r, rows)
BY DEF EventsOf, Simulated, HasKey

LEMMA EventsGrow ==
    ASSUME Kept, Moved, Whole, NEW p \in Processes, Acts(p)
    PROVE  /\ Whole'
           /\ ToSet(rows[Events]) \subseteq ToSet(rows'[Events])
           /\ ToSet(rows'[Receipts]) = ToSet(rows[Receipts])
           /\ \A r \in ToSet(rows'[Decisions]) : r \in ToSet(rows[Decisions]) \/ Settled(r)'
<1>1. Typed /\ Hands(p) /\ Chained(p)
  BY ActsKeep, ActsChained DEF Kept
<1>2. {Requests, Decisions, Receipts} = Migratable /\ rows[Events] \in Seq(EventRow)
  BY <1>1, OldCollections DEF Migratable, Typed
<1>3. Whole'
  <2> SUFFICES ASSUME NEW c \in Migratable PROVE ToSet(legacy[c]) \subseteq ToSet(rows'[c])
    BY <1>1 DEF Whole, Hands
  <2>1. rows[c] \in Seq(OldRow)
    BY <1>1, OldCollections DEF Typed
  <2>2. ToSet(rows[c]) \subseteq ToSet(rows'[c])
    BY <1>1, <2>1, GrownKeeps DEF Chained, Adds
  <2> QED
    BY <2>2 DEF Whole
<1>4. CASE rows' = rows
  BY <1>3, <1>4
<1>5. CASE CommitMigration(p)
  BY <1>2, <1>3, <1>5, WholeAddsNothing
<1>6. CASE BackfillPlan(p)
  <2>1. Head(todo[p]) \in OldRow /\ rows' = [rows EXCEPT ![Events] = Backfilled(Head(todo[p]), rows)]
    BY <1>6, BackfillKeeps
  <2>2. /\ rows'[Events] = Backfilled(Head(todo[p]), rows)
        /\ rows'[Receipts] = rows[Receipts] /\ rows'[Decisions] = rows[Decisions]
    BY <2>1 DEF Kept, Shaped, Collections, Events, Receipts, Decisions
  <2>3. rows'[Events] \in Seq(EventRow) /\ Grown(rows[Events], rows'[Events])
    BY <1>1, <2>1, <2>2, BackfilledRows
  <2>4. ToSet(rows[Events]) \subseteq ToSet(rows'[Events])
    BY <1>2, <2>3, GrownKeeps
  <2> QED
    BY <1>3, <2>2, <2>4
<1>7. CASE LiveCommit(p)
  <2>1. /\ rows'[Events] = Append(rows[Events], CreatedRow(p)) /\ CreatedRow(p) \in EventRow
        /\ rows'[Decisions] = Append(rows[Decisions], RowOf(p, "NOT_SIMULATED"))
        /\ RowOf(p, "NOT_SIMULATED") \in OldRow /\ rows'[Receipts] = rows[Receipts]
    BY <1>7, LiveRows
  <2>2. rows[Decisions] \in Seq(OldRow)
    BY <1>1, <1>2, OldCollections DEF Typed
  <2>3. /\ ToSet(rows'[Events]) = ToSet(rows[Events]) \cup {CreatedRow(p)}
        /\ ToSet(rows'[Decisions]) = ToSet(rows[Decisions]) \cup {RowOf(p, "NOT_SIMULATED")}
    BY <1>2, <2>1, <2>2, Added
  <2>4. EventsOf(RowOf(p, "NOT_SIMULATED"), rows') = {CreatedRow(p)}
    BY DEF EventsOf, Simulated, RowOf
  <2>5. Settled(RowOf(p, "NOT_SIMULATED"))'
    BY <2>3, <2>4 DEF Settled
  <2> QED
    BY <1>3, <2>1, <2>3, <2>5
<1> QED
  BY <1>4, <1>5, <1>6, <1>7, RowsStay

LEMMA SettledKeeps ==
    ASSUME Kept, Moved, Whole, NEW p \in Processes, Acts(p), NEW r, Settled(r)
    PROVE  Settled(r)'
<1>1. EventsOf(r, rows') = EventsOf(r, rows)
  BY EventsGrow, SameEvents
<1> QED
  BY <1>1, EventsGrow DEF Settled

(***************************************************************************)
(* An apply once its migration is committed, and what it knows then.       *)
(***************************************************************************)
Later == {"rows", "heads", "inventory", "counts", "resolve"}

Past(p) ==
    /\ job[p].mode = "apply"
    /\ phase[p] \in Later \cup {"list", "backfill"} \/ (phase[p] \in Openings /\ goal[p] = "rows")

Approved(p) == job[p].mode = "apply" /\ report[p].final = "GO"

CutOver(p) ==
    /\ Past(p) \/ Approved(p) => Whole
    /\ Past(p) /\ phase[p] = "backfill" =>
          \A r \in ToSet(rows[Decisions]) : r \in ToSet(todo[p]) \/ Settled(r)
    /\ (Past(p) /\ phase[p] \notin {"list", "backfill"}) \/ Approved(p) =>
          \A r \in ToSet(rows[Decisions]) : Settled(r)

LEMMA CutOverInit == Init => \A p \in Processes : CutOver(p)
BY DEF Init, CutOver, Past, Approved, NoJob

\* Steps of others disturb none of it.
LEMMA CutOverElse ==
    ASSUME Kept, Moved, NEW p \in Processes, Acts(p), NEW q \in Processes, q # p, CutOver(q)
    PROVE  CutOver(q)'
<1>1. /\ phase'[q] = phase[q] /\ goal'[q] = goal[q] /\ job'[q] = job[q] /\ todo'[q] = todo[q]
      /\ report'[q] = report[q]
  BY ActsKeep DEF Alone
<1>2. Past(q)' = Past(q) /\ Approved(q)' = Approved(q)
  BY <1>1 DEF Past, Approved
<1>3. CASE Past(q) \/ Approved(q)
  <2>1. Whole
    BY <1>3 DEF CutOver
  <2>2. Whole' /\ \A r \in ToSet(rows'[Decisions]) : r \in ToSet(rows[Decisions]) \/ Settled(r)'
    BY <2>1, EventsGrow
  <2>3. \A r : Settled(r) => Settled(r)'
    BY <2>1, SettledKeeps
  <2> QED
    BY <1>1, <1>2, <2>2, <2>3 DEF CutOver
<1>4. CASE ~Past(q) /\ ~Approved(q)
  BY <1>2, <1>4 DEF CutOver
<1> QED
  BY <1>3, <1>4

LEMMA HeadAndTail ==
    ASSUME NEW S, NEW s \in Seq(S), s # << >>
    PROVE  ToSet(s) \subseteq {Head(s)} \cup ToSet(Tail(s))
<1>1. /\ DOMAIN s = 1..Len(s) /\ Len(s) \in Nat \ {0} /\ Head(s) = s[1]
      /\ DOMAIN Tail(s) = 1..(Len(s) - 1) /\ \A n \in 1..(Len(s) - 1) : Tail(s)[n] = s[n + 1]
  OBVIOUS
<1> DEFINE t == Tail(s)
<1> HIDE DEF t
<1>2. \A n \in 2..Len(s) : n - 1 \in DOMAIN t /\ s[n] = t[n - 1]
  BY <1>1 DEF t
<1>3. \A n \in 1..Len(s) : n = 1 \/ n \in 2..Len(s)
  BY <1>1
<1>4. \A n \in 1..Len(s) : s[n] \in {Head(s)} \cup ToSet(t)
  BY <1>1, <1>2, <1>3 DEF ToSet
<1> QED
  BY <1>1, <1>4 DEF ToSet, t

\* How an apply comes to be past its migration, and to GO.
LEMMA PastSteps ==
    ASSUME Kept, NEW p \in Processes, Acts(p), Judged(p)
    PROVE  /\ Approved(p)' => Resolve(p) /\ Past(p)
           /\ Past(p)' =>
                 \/ phase'[p] = "list" /\ CommitMigration(p)
                 \/ phase'[p] = "backfill" /\ Past(p) /\ (ListPlans(p) \/ BackfillPlan(p))
                 \/ phase'[p] \notin {"list", "backfill"} /\ Past(p) /\ BackfillDone(p)
                 \/ /\ phase'[p] \notin {"list", "backfill"}
                    /\ Past(p) /\ phase[p] \notin {"list", "backfill"}
<1>1. /\ Shaped /\ phase[p] # "done" /\ report[p].final # "GO"
      /\ goal[p] \in {"done", "live", "migrate", "rows"}
  BY ActsKeep DEF Kept, Judged, Serialised
<1>2. CASE Start(p)
  <2>1. PICK j \in Jobs :
            /\ job'[p] = j /\ goal'[p] = FirstGoal(j.mode)
            /\ phase'[p] = CASE j.mode \in {"verify", "check"} -> "inventory"
                             [] j.mode = "apply" /\ Refusal(j) # 0 -> "done"
                             [] OTHER -> "opening"
            /\ report'[p] \in {report[p], NoGo("refused", Refusal(j))}
    BY <1>1, <1>2 DEF Start, Shaped
  <2>2. report'[p].final # "GO"
    BY <1>1, <2>1 DEF NoGo
  <2>3. j.mode = "apply" => phase'[p] \in {"done", "opening"} /\ goal'[p] = "migrate"
    BY <2>1 DEF FirstGoal
  <2> QED
    BY <2>1, <2>2, <2>3 DEF Approved, Past, Later, Openings
<1>3. CASE Open(p)
  <2>1. job' = job /\ report' = report /\ goal' = goal
    BY <1>3 DEF Open, LockMigrations, FindPending, CommitMigrations
  <2>2. /\ phase[p] \in Openings
        /\ phase'[p] \in {"locked", "found", goal[p]}
    BY <1>1, <1>3 DEF Open, LockMigrations, FindPending, CommitMigrations, Shaped, Openings
  <2> QED
    BY <1>1, <2>1, <2>2 DEF Approved, Past, Later, Openings
<1>4. CASE \E state : Fails(p, state)
  <2>1. PICK state : Failed(p, state)
    BY <1>4, FailsLikeThis
  <2>2. report'[p] \in {[NoReport EXCEPT !.state = state], NoGo(state, 4)} /\ phase'[p] = "done"
    BY <1>1, <2>1 DEF Failed, Ended, Shaped
  <2>3. report'[p].final # "GO"
    BY <2>2 DEF NoReport, NoGo
  <2> QED
    BY <2>2, <2>3 DEF Approved, Past, Later, Openings
<1>5. CASE NextCollection(p) \/ SelectRow(p) \/ AppendRow(p) \/ LiveLock(p) \/ LiveCommit(p)
  <2>1. job' = job /\ report' = report
    BY <1>5, SilentSteps DEF Silent
  <2>2. phase'[p] \in {"migrate", "append", "live", "done"}
    BY <1>1, <1>5 DEF NextCollection, SelectRow, AppendRow, LiveLock, LiveCommit, Ended, Shaped
  <2> QED
    BY <1>1, <2>1, <2>2 DEF Approved, Past, Later, Openings
<1>6. CASE CommitMigration(p)
  <2>1. job' = job /\ report' = report
    BY <1>6, SilentSteps DEF Silent
  <2>2. phase'[p] = "list"
    BY <1>1, <1>6 DEF CommitMigration, Shaped
  <2> QED
    BY <1>1, <1>6, <2>1, <2>2 DEF Approved
<1>7. CASE ListPlans(p) \/ BackfillPlan(p) \/ BackfillDone(p)
  <2>1. job' = job /\ report' = report
    BY <1>7, SilentSteps DEF Silent
  <2>2. phase[p] \in {"list", "backfill"} /\ phase'[p] = IF BackfillDone(p) THEN "rows" ELSE "backfill"
    <3>1. CASE BackfillDone(p)
      BY <1>1, <3>1 DEF BackfillDone, Shaped
    <3>2. CASE ~BackfillDone(p)
      BY <1>1, <1>7, <3>2 DEF ListPlans, BackfillPlan, Shaped
    <3> QED
      BY <3>1, <3>2
  <2> QED
    BY <1>1, <1>7, <2>1, <2>2 DEF Approved, Past
<1>8. CASE VerifyRows(p) \/ VerifyHeads(p) \/ Inventory(p) \/ Count(p)
  <2>1. job' = job /\ report' = report /\ phase[p] \in Later
    BY <1>8 DEF VerifyRows, VerifyHeads, Inventory, Count, Later
  <2>2. phase'[p] \in Later \cup {"opening"} /\ (phase'[p] = "opening" => goal'[p] = "rows")
    BY <1>1, <1>8 DEF VerifyRows, VerifyHeads, Inventory, Count, Shaped, Later
  <2> QED
    BY <1>1, <2>1, <2>2 DEF Approved, Past, Later, Openings
<1>9. CASE Resolve(p)
  <2>1. job' = job /\ phase[p] = "resolve" /\ phase'[p] = "done"
    BY <1>1, <1>9 DEF Resolve, Shaped
  <2> QED
    BY <1>9, <2>1 DEF Approved, Past, Later, Openings
<1> QED
  BY <1>2, <1>3, <1>4, <1>5, <1>6, <1>7, <1>8, <1>9 DEF Acts, Step, Fails

LEMMA CutOverKeeps ==
    ASSUME Kept, Moved, NEW p \in Processes, Acts(p), Judged(p), CutOver(p),
           Len(rows[Decisions]) <= MaxList
    PROVE  CutOver(p)'
<1>1. Shaped /\ Typed /\ Staged(p)
  BY DEF Kept
<1>2. Past(p) => Whole' /\ \A r \in ToSet(rows'[Decisions]) : r \in ToSet(rows[Decisions]) \/ Settled(r)'
  BY EventsGrow DEF CutOver
<1>3. Past(p) => \A r : Settled(r) => Settled(r)'
  BY SettledKeeps DEF CutOver
<1>4. ASSUME Past(p), phase[p] \notin {"list", "backfill"}
      PROVE  \A r \in ToSet(rows'[Decisions]) : Settled(r)'
  BY <1>2, <1>3, <1>4 DEF CutOver
<1>5. ASSUME Approved(p)'
      PROVE  Whole' /\ \A r \in ToSet(rows'[Decisions]) : Settled(r)'
  <2>1. Past(p) /\ phase[p] \notin {"list", "backfill"}
    BY <1>5, PastSteps DEF Resolve
  <2> QED
    BY <1>2, <1>4, <2>1
<1>6. ASSUME phase'[p] = "list", CommitMigration(p)
      PROVE  Whole'
  BY <1>6, ActsKeep, CommitChained
<1>7. ASSUME Past(p), phase'[p] = "backfill", ListPlans(p)
      PROVE  \A r \in ToSet(rows'[Decisions]) : r \in ToSet(todo'[p])
  <2>1. rows[Decisions] \in Seq(OldRow)
    BY <1>1, OldCollections DEF Typed, Migratable
  <2>2. todo'[p] = rows[Decisions] /\ rows' = rows
    BY <1>1, <1>7, <2>1 DEF ListPlans, Shaped, FirstPage, ledgerVars
  <2> QED
    BY <2>2
<1>8. ASSUME Past(p), phase'[p] = "backfill", BackfillPlan(p)
      PROVE  \A r \in ToSet(rows'[Decisions]) : r \in ToSet(todo'[p]) \/ Settled(r)'
  <2> DEFINE row == Head(todo[p])
  <2>1. /\ phase[p] = "backfill" /\ todo[p] # << >> /\ todo'[p] = Tail(todo[p])
        /\ todo[p] \in Seq(OldRow)
    BY <1>1, <1>8 DEF BackfillPlan, Shaped, Staged
  <2>2. ToSet(todo[p]) \subseteq {row} \cup ToSet(todo'[p])
    BY <2>1, HeadAndTail
  <2>3. row \in OldRow /\ rows' = [rows EXCEPT ![Events] = Backfilled(row, rows)]
    BY <1>8, BackfillKeeps
  <2> HIDE DEF row
  <2>4. /\ rows'[Events] = Backfilled(row, rows)
        /\ rows'[Receipts] = rows[Receipts] /\ rows'[Decisions] = rows[Decisions]
    BY <1>1, <2>3 DEF Shaped, Collections, Events, Receipts, Decisions
  <2>5. EventsOf(row, rows') \subseteq ToSet(rows'[Events])
    BY <1>1, <2>3, <2>4, BackfilledRows, SameEvents
  <2>6. \A r \in ToSet(rows[Decisions]) : r \in ToSet(todo[p]) \/ Settled(r)
    BY <1>8, <2>1 DEF CutOver
  <2>7. \A r : r = row => Settled(r)'
    BY <2>5 DEF Settled
  <2> QED
    BY <1>3, <1>8, <2>2, <2>4, <2>6, <2>7
<1>9. ASSUME Past(p), BackfillDone(p)
      PROVE  \A r \in ToSet(rows'[Decisions]) : Settled(r)'
  <2>1. phase[p] = "backfill" /\ todo[p] = << >> /\ rows' = rows
    BY <1>9 DEF BackfillDone, ledgerVars
  <2>2. ToSet(todo[p]) = {}
    BY <2>1 DEF ToSet
  <2>3. \A r \in ToSet(rows[Decisions]) : Settled(r)
    BY <1>9, <2>1, <2>2 DEF CutOver
  <2> QED
    BY <1>3, <1>9, <2>1, <2>3
<1>10. ASSUME Past(p)'
       PROVE  /\ Whole'
              /\ phase'[p] = "backfill" =>
                    \A r \in ToSet(rows'[Decisions]) : r \in ToSet(todo'[p]) \/ Settled(r)'
              /\ phase'[p] \notin {"list", "backfill"} => \A r \in ToSet(rows'[Decisions]) : Settled(r)'
  BY <1>2, <1>4, <1>6, <1>7, <1>8, <1>9, <1>10, PastSteps
<1> QED
  BY <1>5, <1>10 DEF CutOver

Decided == Kept /\ Moved /\ \A p \in Processes : Judged(p) /\ CutOver(p)

LEMMA DecidedInductive ==
    /\ Init => Decided
    /\ Decided /\ Len(rows[Decisions]) <= MaxList /\ [Next]_vars => Decided'
<1>1. Init => Decided
  BY KeptInductive, MovedInductive, JudgedInit, CutOverInit DEF Decided
<1>2. ASSUME Decided, UNCHANGED vars
      PROVE  Decided'
  <2>1. Kept' /\ Moved'
    BY <1>2, KeptInductive, MovedInductive DEF Decided
  <2>2. ASSUME NEW p \in Processes
        PROVE  Judged(p)' /\ CutOver(p)'
    <3>1. Judged(p)'
      BY <1>2 DEF Decided, Judged, vars, schemaVars
    <3>2. CutOver(p)'
      BY <1>2 DEF Decided, CutOver, Past, Approved, Whole, Settled, vars, ledgerVars
    <3> QED
      BY <3>1, <3>2
  <2> QED
    BY <2>1, <2>2 DEF Decided
<1>3. ASSUME Decided, Len(rows[Decisions]) <= MaxList, NEW p \in Processes, Acts(p)
      PROVE  Decided'
  <2>1. Kept' /\ Moved'
    BY <1>3, KeptInductive, MovedInductive DEF Decided, Next, Acts
  <2>2. ASSUME NEW q \in Processes
        PROVE  Judged(q)' /\ CutOver(q)'
    BY <1>3, JudgedKeeps, JudgedElse, CutOverKeeps, CutOverElse DEF Decided
  <2> QED
    BY <2>1, <2>2 DEF Decided
<1> QED
  BY <1>1, <1>2, <1>3 DEF Next, Acts

(***************************************************************************)
(* GO means a complete schema and the whole database, and from an apply    *)
(* that every legacy row was copied and every decision has its events, as  *)
(* long as one listing returns all decisions (MAX_LIST_LIMIT): the backfill *)
(* asks for one only.                                                      *)
(***************************************************************************)
THEOREM GoHolds == Spec /\ [](Len(rows[Decisions]) <= MaxList) => []GoMeansCutOver
<1>1. Decided => GoMeansCutOver
  <2> SUFFICES ASSUME Decided, NEW p \in Processes, report[p].final = "GO"
               PROVE  /\ SchemaVerifies(schema) /\ ~job[p].partial
                      /\ job[p].mode = "apply" =>
                            /\ \A c \in Migratable : ToSet(legacy[c]) \subseteq ToSet(rows[c])
                            /\ \A r \in ToSet(rows[Decisions]) :
                                  EventsOf(r, rows) \subseteq ToSet(rows[Events])
    BY DEF GoMeansCutOver
  <2> QED
    BY DEF Decided, Judged, CutOver, Approved, Whole, Settled
<1> QED
  BY <1>1, DecidedInductive, PTL DEF Spec
==============================================================================
