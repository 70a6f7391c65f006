----------------------------- MODULE GrdiReplay -----------------------------
(***************************************************************************)
(* Replay reports and their comparisons (grdi/replay.py, and the replay    *)
(* operations of grdi/service.py) beside the operations that write the     *)
(* records they are about, and beside a row of the project that is damaged *)
(* and restored behind the ledger's back.                                  *)
(*                                                                         *)
(* A report is built in one transaction, rebuilt and stored in a second    *)
(* one; a comparison is loaded in one and stored in a second one.  Each    *)
(* reads one state of the ledger (PgReplayReads, where the locks are), so  *)
(* each is one step here.  The signatures of reports and comparisons are   *)
(* valid.                                                                  *)
(***************************************************************************)
EXTENDS GrdiPipeline

CONSTANTS
    Auditors,
    Reports,      \* what new_id hands out for reports
    Comparisons,  \* and for comparisons
    Versions,     \* policy and protocol versions of the processes running
    Fragile       \* the keys of the rows that may be damaged

VARIABLES
    reports,      \* the committed replay reports
    comparisons,  \* the committed historical comparisons
    audit,        \* where each auditor is, and with what
    damaged       \* the row, if any, that no longer has the hash it was stored with

ASSUME ReplayAssumption ==
    /\ NoId \notin Comparisons
    /\ MaxList \in Nat
    /\ \A R \in LegacyRows : IsFiniteSet(R)

replayVars == <<reports, comparisons, audit, damaged>>
allVars == <<vars, replayVars>>

\* GRDI_CHAIN_COLLECTIONS, which are also the six records of a plan.
Audited == Collections \ {"gateway_decision_events"}

-----------------------------------------------------------------------------
\* _load_chain_rows: the request leads to its envelope and decision, the receipt
\* to its outcome.  A manifest has the hashes of the rows as they are.
Found(R, p) ==
    LET q == Keyed(R, "execution_requests", p)
        receipt == Keyed(R, "shadow_execution_receipts", p)
    IN  q \cup receipt
        \cup Keyed(R, "gateway_decisions", p)
        \cup (UNION {Keyed(R, "decision_envelopes", r.rec.envelope) : r \in q})
        \cup (UNION {Keyed(R, "authority_decisions", r.rec.decision) : r \in q})
        \cup (UNION {Keyed(R, "shadow_outcomes", r.rec.id) : r \in receipt})

ChainRows(p) ==
    {[coll |-> r.coll, rec |-> r.rec, intact |-> r \notin damaged] : r \in Found(rows, p)}

In(records, c) == {r.rec : r \in Group(records, c)}

Complete(records) == {r.coll : r \in records} = Audited

\* verify_scoped_chain: with one damaged row, no chain of the project has a head.
\* The head of a chain is told from its earlier heads by the number of its rows.
NoHeads == << >>
ChainHeads ==
    IF damaged # {} THEN NoHeads
    ELSE [c \in Audited |-> Cardinality(Group(rows, c))]

\* _build_manifest.  The versions are those of the process that builds it.
Manifest(p, version) == [records |-> ChainRows(p), version |-> version, heads |-> ChainHeads]

\* Mutant: the heads of the project's chains are part of a snapshot's identity.
HashWithHeads(m) == m

\* manifest_snapshot_payload: they are not.
ManifestHash(m) == [records |-> m.records, version |-> m.version]

\* _validate_shadow_receipt, _validate_shadow_outcome.
ReceiptFits(r, q) ==
    r.plan = q.id /\ r.envelope = q.envelope /\ r.decision = q.decision /\ r.action = q.action

OutcomeFits(x, r, q) ==
    x.plan = q.id /\ x.receipt = r.id /\ x.state = Aggregate(q.effects, x.assessed)

\* _collect_invalid_reasons: what was found under a key is compared with what
\* led to it.
LinksHold(records) ==
    \A q \in In(records, "execution_requests") :
        /\ \A d \in In(records, "authority_decisions") : d.envelope = q.envelope
        /\ \A r \in In(records, "shadow_execution_receipts") :
              /\ ReceiptFits(r, q)
              /\ \A x \in In(records, "shadow_outcomes") : OutcomeFits(x, r, q)

Prior(p) == {x \in reports : x.plan = p /\ x.seq <= MaxList}

\* Mutant: only valid and complete reports are compared with.
StateAgainstComplete(p, m) ==
    IF m.heads = NoHeads \/ ~LinksHold(m.records) THEN "INVALID"
    ELSE IF ~Complete(m.records) THEN "INCOMPLETE"
    ELSE IF \E x \in Prior(p) : x.state \in {"REPRODUCED", "DRIFTED"} /\ x.hash # ManifestHash(m)
         THEN "DRIFTED" ELSE "REPRODUCED"

\* _determine_replay_state: a prior report counts whatever its own state is.
ReplayState(p, m) ==
    IF m.heads = NoHeads \/ ~LinksHold(m.records) THEN "INVALID"
    ELSE IF ~Complete(m.records) THEN "INCOMPLETE"
    ELSE IF Prior(p) = {} \/ \E x \in Prior(p) : x.hash = ManifestHash(m)
         THEN "REPRODUCED" ELSE "DRIFTED"

\* decision_identity: the subject of the envelope.
Identity(records) == {e.form.subject : e \in In(records, "decision_envelopes")}

\* _compare_pair.
ComparisonState(x, y) ==
    IF {x.state, y.state} \cap {"INVALID", "INCOMPLETE"} # {} THEN "INVALID"
    ELSE IF Identity(x.hash.records) # Identity(y.hash.records) THEN "NOT_COMPARABLE"
    ELSE IF x.hash = y.hash THEN "EQUIVALENT"
    ELSE "DIFFERENT"

\* Mutant: the key of a comparison does not tell its two sides apart.
PairKey(x, y) == {x.id, y.id}

ComparisonKey(x, y) == <<x.id, y.id>>

-----------------------------------------------------------------------------
Idle == [phase |-> "idle", plan |-> NoId, snapshot |-> NoId, todo |-> {},
         pair |-> << >>, answer |-> NoId]

ReplayInit ==
    /\ Init
    /\ reports = {}
    /\ comparisons = {}
    /\ audit = [a \in Auditors |-> Idle]
    /\ damaged = {}

\* Somebody changes a row in the database, and puts it back.
Damage ==
    /\ damaged = {}
    /\ \E r \in rows : r.key \in Fragile /\ damaged' = {r}
    /\ UNCHANGED <<vars, reports, comparisons, audit>>

Restore ==
    /\ damaged # {}
    /\ damaged' = {}
    /\ UNCHANGED <<vars, reports, comparisons, audit>>

Move(a, state) ==
    /\ audit' = [audit EXCEPT ![a] = state]
    /\ UNCHANGED <<vars, damaged>>

Answer(a, id) == Move(a, [Idle EXCEPT !.phase = "returned", !.answer = id])

\* create_replay_report, first transaction.  A rolling deployment has processes
\* of several versions.
Snapshot(a) ==
    /\ audit[a].phase = "idle"
    /\ \E q \in Records("execution_requests"), version \in Versions :
          Move(a, [Idle EXCEPT !.phase = "built", !.plan = q.id,
                               !.snapshot = ManifestHash(Manifest(q.id, version))])
    /\ UNCHANGED <<reports, comparisons>>

\* build_report, as it is stored.
NewReport(id, p, m) ==
    [id |-> id, plan |-> p, hash |-> ManifestHash(m), heads |-> m.heads,
     state |-> ReplayState(p, m), seq |-> Cardinality(reports) + 1]

StoreReport(a, m) ==
    LET p == audit[a].plan
        same == {x \in reports : x.hash = ManifestHash(m)}
    IN  /\ UNCHANGED comparisons
        /\ \/ \E x \in same : Answer(a, x.id) /\ UNCHANGED reports
           \/ /\ same = {}
              /\ \E id \in Reports \ {x.id : x \in reports} :
                    /\ reports' = reports \cup {NewReport(id, p, m)}
                    /\ Answer(a, id)

\* Second transaction: replay_snapshot_changed_during_persist, the report of the
\* same manifest, or a new one.
Persist(a) ==
    /\ audit[a].phase = "built"
    /\ LET m == Manifest(audit[a].plan, audit[a].snapshot.version)
       IN  IF ManifestHash(m) # audit[a].snapshot
           THEN Move(a, Idle) /\ UNCHANGED <<reports, comparisons>>
           ELSE StoreReport(a, m)

\* get_replay_report has one report to validate, list_replays_for_plan those of a
\* plan, in their order.
Listed == {x \in reports : x.seq <= MaxList}

GetReport(a) ==
    /\ audit[a].phase = "idle"
    /\ \E x \in Listed : Move(a, [Idle EXCEPT !.phase = "reading", !.todo = {x}])
    /\ UNCHANGED <<reports, comparisons>>

ListReports(a) ==
    /\ audit[a].phase = "idle"
    /\ \E p \in Plans :
          /\ Prior(p) # {}
          /\ Move(a, [Idle EXCEPT !.phase = "reading", !.todo = Prior(p)])
    /\ UNCHANGED <<reports, comparisons>>

FirstOf(todo) == {x \in todo : \A y \in todo : x.seq <= y.seq}

\* validate_report_against_sources reads the records ...
ReadSources(a) ==
    /\ audit[a].phase = "reading"
    /\ \E x \in FirstOf(audit[a].todo) :
          IF ChainRows(x.plan) = x.hash.records
          THEN Move(a, [Idle EXCEPT !.phase = "compared", !.todo = audit[a].todo])
          ELSE Move(a, Idle)
    /\ UNCHANGED <<reports, comparisons>>

\* Mutant: ... and that is all.
SkipHeads(a) ==
    /\ audit[a].phase = "compared"
    /\ \E x \in FirstOf(audit[a].todo) :
          LET rest == audit[a].todo \ {x}
          IN  IF rest = {} THEN Answer(a, x.id)
              ELSE Move(a, [Idle EXCEPT !.phase = "reading", !.todo = rest])
    /\ UNCHANGED <<reports, comparisons>>

\* ... and then, by verify_scoped_chain, the heads.
CompareHeads(a) ==
    /\ audit[a].phase = "compared"
    /\ \E x \in FirstOf(audit[a].todo) :
          LET rest == audit[a].todo \ {x}
          IN  IF damaged # {} \/ x.heads # ChainHeads THEN Move(a, Idle)
              ELSE IF rest = {} THEN Answer(a, x.id)
              ELSE Move(a, [Idle EXCEPT !.phase = "reading", !.todo = rest])
    /\ UNCHANGED <<reports, comparisons>>

\* compare_replays, first transaction: both reports are found.
LoadPair(a) ==
    /\ audit[a].phase = "idle"
    /\ \E x, y \in Listed : Move(a, [Idle EXCEPT !.phase = "loaded", !.pair = <<x, y>>])
    /\ UNCHANGED <<reports, comparisons>>

\* compare_reports.
NewComparison(id, x, y) ==
    [id |-> id, key |-> ComparisonKey(x, y), base |-> x, with |-> y,
     state |-> ComparisonState(x, y), seq |-> Cardinality(comparisons) + 1]

\* Second transaction.  A report never changes, so that neither
\* comparison_baseline_changed_during_persist nor its like can happen.
StoreComparison(a) ==
    /\ audit[a].phase = "loaded"
    /\ LET x == audit[a].pair[1]
           y == audit[a].pair[2]
           same == {c \in comparisons : c.key = ComparisonKey(x, y)}
       IN  \/ \E c \in same : Answer(a, c.id) /\ UNCHANGED comparisons
           \/ /\ same = {}
              /\ \E id \in Comparisons \ {c.id : c \in comparisons} :
                    /\ comparisons' = comparisons \cup {NewComparison(id, x, y)}
                    /\ Answer(a, id)
    /\ UNCHANGED reports

\* validate_comparison: what was signed is what is stored, and its key is that of
\* its two sides.  Their reports are not read again.
ComparisonHolds(c) == c.key = ComparisonKey(c.base, c.with)

GetComparison(a) ==
    /\ audit[a].phase = "idle"
    /\ \E c \in {c \in comparisons : c.seq <= MaxList} :
          IF ComparisonHolds(c) THEN Answer(a, c.id) ELSE Move(a, Idle)
    /\ UNCHANGED <<reports, comparisons>>

\* The caller has the answer; an error takes no step of its own.
Answered(a) ==
    /\ audit[a].phase = "returned"
    /\ Move(a, Idle)
    /\ UNCHANGED <<reports, comparisons>>

Auditing(a) ==
    \/ Snapshot(a) \/ Persist(a)
    \/ GetReport(a) \/ ListReports(a) \/ ReadSources(a) \/ CompareHeads(a)
    \/ LoadPair(a) \/ StoreComparison(a) \/ GetComparison(a)
    \/ Answered(a)

ReplayNext ==
    \/ Next /\ UNCHANGED replayVars
    \/ Damage \/ Restore
    \/ \E a \in Auditors : Auditing(a)

ReplaySpec == ReplayInit /\ [][ReplayNext]_allVars

-----------------------------------------------------------------------------
(***************************************************************************)
(* However many auditors replay a plan, and whatever is written for other  *)
(* plans meanwhile, one snapshot of its records has one report             *)
(* (idempotency by manifest_hash, replay audit protocol).                  *)
(***************************************************************************)
OneReportPerSnapshot ==
    \A x, y \in reports :
        /\ x.hash.records = y.hash.records /\ x.hash.version = y.hash.version => x = y
        /\ x.seq = y.seq => x = y

(***************************************************************************)
(* A report is about the records of its plan as they are when it is stored *)
(* (nothing was written to the plan between the transaction that built it  *)
(* and the one that stored it), and again when get_replay_report returns   *)
(* it, which reads the records before it reads the heads.                  *)
(***************************************************************************)
ReportsAreCurrent ==
    [][/\ \A x \in reports' \ reports : x.hash.records = ChainRows(x.plan)
       /\ \A a \in Auditors, x \in reports :
             audit[a].phase = "compared" /\ audit'[a].phase = "returned"
             /\ audit'[a].answer = x.id => x.hash.records = ChainRows(x.plan)]_allVars

(***************************************************************************)
(* REPRODUCED is kept for the first report of a plan, DRIFTED says that an *)
(* earlier one differs, and either says that all six records are there,    *)
(* intact and about the plan; INVALID accuses the records of the plan, or  *)
(* the chains of the project at that time.                                 *)
(***************************************************************************)
Earlier(x) == {y \in reports : y.plan = x.plan /\ y.seq < x.seq}

StatesAreJustified ==
    \A x \in reports :
        /\ x.state \in {"REPRODUCED", "DRIFTED"} =>
              /\ Complete(x.hash.records)
              /\ \A r \in x.hash.records : r.intact
              /\ \A d \in In(x.hash.records, "authority_decisions"),
                    e \in In(x.hash.records, "decision_envelopes") : d.envelope = e.id
        /\ x.state = "INCOMPLETE" => ~Complete(x.hash.records)
        /\ x.state = "INVALID" => x.heads = NoHeads \/ ~LinksHold(x.hash.records)
        /\ x.state = "REPRODUCED" => Earlier(x) = {}
        /\ x.state = "DRIFTED" => \E y \in Earlier(x) : y.hash # x.hash

(***************************************************************************)
(* A comparison answers for the baseline and the candidate in the order    *)
(* they were asked for, there is one for each ordered pair, and because a  *)
(* snapshot has one report, only a report compared with itself is found    *)
(* EQUIVALENT; two plans about different subjects are never DIFFERENT.     *)
(***************************************************************************)
ComparisonsAnswer ==
    [][\A a \in Auditors, c \in comparisons' :
          audit[a].phase = "loaded" /\ audit'[a].answer = c.id =>
              /\ <<c.base, c.with>> = audit[a].pair
              /\ \A d \in comparisons' : d.base = c.base /\ d.with = c.with => d = c
              /\ c.state = "EQUIVALENT" => c.base = c.with
              /\ c.state = "DIFFERENT" =>
                    Identity(c.base.hash.records) = Identity(c.with.hash.records)]_allVars
=============================================================================
