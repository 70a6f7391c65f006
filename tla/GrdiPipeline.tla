---------------------------- MODULE GrdiPipeline ----------------------------
(***************************************************************************)
(* The operations of grdi/service.py and the backfill of grdi/migration.py *)
(* as concurrent workers run them, for one tenant and project.             *)
(*                                                                         *)
(* An operation reads records outside any transaction, takes the locks of  *)
(* ledger_ops.py, runs its callback on what is committed then, and commits *)
(* all its rows or none.  The scoped ledger beneath is taken at its        *)
(* promise (LedgerCommit): rows are published together, are never changed, *)
(* and continue their chain; locks are granted all at once, because their  *)
(* order excludes deadlocks (PgScopedLedger, NoWaitCycle).                 *)
(***************************************************************************)
EXTENDS GrdiDecisions, Naturals, Sequences

CONSTANTS
    Workers,
    Envelopes, Decisions, Plans, Receipts, Outcomes,   \* what new_id hands out
    Forms,        \* what an envelope can say (GrdiDecisions)
    Authorizers,  \* who authorises, with which approvals
    Requests,     \* [action, effects] a plan can ask for
    Assessments,  \* assessments of effects, as functions
    LegacyRows,   \* the sets of rows a migrated ledger can start with
    MaxList,      \* MAX_LIST_LIMIT: how many rows one listing returns
    NoId          \* no such record, and the key of a chain lock

VARIABLES
    rows,    \* the committed rows
    phase,   \* where each worker is in its operation
    op,      \* the operation: its arguments and what it has read
    draft    \* the writes of its transaction, in order

vars == <<rows, phase, op, draft>>

Collections ==
    {"decision_envelopes", "authority_decisions", "execution_requests",
     "gateway_decisions", "gateway_decision_events",
     "shadow_execution_receipts", "shadow_outcomes"}

Group(R, c) == {r \in R : r.coll = c}
Keyed(R, c, k) == {r \in Group(R, c) : r.key = k}
RecordsIn(R, c) == {r.rec : r \in Group(R, c)}
Records(c) == RecordsIn(rows, c)

\* gateway_event_canonical: the key, and the identity, of a plan's two events.
CreatedKey(p) == <<p, "GATEWAY_DECISION_CREATED">>
SimulatedKey(p) == <<p, "SIMULATION_RECORDED">>

-----------------------------------------------------------------------------
\* grdi/ledger_ops.py.
ChainLock(c) == [coll |-> c, key |-> NoId]
KeyLock(c, k) == [coll |-> c, key |-> k]
ChainAndKey(c, k) == {ChainLock(c), KeyLock(c, k)}

EnvelopeLocks(e) == ChainAndKey("decision_envelopes", e)

AuthorityLocks(e, d) == EnvelopeLocks(e) \cup ChainAndKey("authority_decisions", d)

PlanLocks(e, d, p) ==
    AuthorityLocks(e, d)
    \cup ChainAndKey("execution_requests", p)
    \cup ChainAndKey("gateway_decisions", p)
    \cup ChainAndKey("gateway_decision_events", CreatedKey(p))

SimulationLocks(p, d) ==
    {KeyLock("execution_requests", p), KeyLock("gateway_decisions", p),
     KeyLock("authority_decisions", d)}
    \cup ChainAndKey("shadow_execution_receipts", p)
    \cup ChainAndKey("gateway_decision_events", SimulatedKey(p))

OutcomeLocks(p, r) ==
    {KeyLock("execution_requests", p), KeyLock("gateway_decisions", p),
     KeyLock("shadow_execution_receipts", p)}
    \cup ChainAndKey("shadow_outcomes", r)

BackfillLocks(p) ==
    {KeyLock("gateway_decisions", p), KeyLock("shadow_execution_receipts", p)}
    \cup ChainAndKey("gateway_decision_events", CreatedKey(p))
    \cup ChainAndKey("gateway_decision_events", SimulatedKey(p))

Locks(o) ==
    CASE o.kind = "register" -> EnvelopeLocks(o.envelope)
      [] o.kind = "authorize" -> AuthorityLocks(o.envelope, o.decision)
      [] o.kind = "plan" -> PlanLocks(o.envelope, o.decision, o.plan)
      [] o.kind = "simulate" -> SimulationLocks(o.plan, o.decision)
      [] o.kind = "outcome" -> OutcomeLocks(o.plan, o.receipt)
      [] o.kind = "backfill" -> BackfillLocks(o.plan)

InTransaction(w) == phase[w] \in {"open", "ready"}

-----------------------------------------------------------------------------
\* The records, by what the operations read of them.
Write(c, k, r) == [coll |-> c, key |-> k, rec |-> r]

EnvelopeWrite(e, form) == Write("decision_envelopes", e, [id |-> e, form |-> form])

AuthorityWrite(d, envelope, by) ==
    Write("authority_decisions", d,
          [id |-> d, envelope |-> envelope.id, by |-> by,
           verified |-> Verified(envelope.form),
           state |-> Authorization(envelope.form, by)])

\* Mutant: a receipt under its own id.
ReceiptUnderItsId(id, q) ==
    Write("shadow_execution_receipts", id,
          [id |-> id, plan |-> q.id, envelope |-> q.envelope,
           decision |-> q.decision, action |-> q.action])

ReceiptWrite(id, q) ==
    Write("shadow_execution_receipts", q.id,
          [id |-> id, plan |-> q.id, envelope |-> q.envelope,
           decision |-> q.decision, action |-> q.action])

OutcomeWrite(id, q, receipt, assessed) ==
    Write("shadow_outcomes", receipt,
          [id |-> id, plan |-> q.id, receipt |-> receipt, assessed |-> assessed,
           state |-> Aggregate(q.effects, assessed)])

\* build_gateway_decision_event_record: nothing in an event is chosen by its
\* writer, so the backfill, a retry and the operation itself write the same one.
EventWrite(k, source) ==
    Write("gateway_decision_events", k, [id |-> k, source |-> source])

CreatedWrite(p) == EventWrite(CreatedKey(p), p)
SimulatedWrite(p, receipt) == EventWrite(SimulatedKey(p), receipt)

\* What new_id can still return: an id is never drawn twice.
Used ==
    {r.rec.id : r \in rows}
    \cup UNION {{draft[w][i].rec.id : i \in DOMAIN draft[w]} : w \in Workers}
Fresh(S) == S \ Used

-----------------------------------------------------------------------------
NoOp == [kind |-> "none", envelope |-> NoId, decision |-> NoId, plan |-> NoId,
         receipt |-> NoId, assessed |-> NoId, simulated |-> FALSE]

Init ==
    /\ rows \in LegacyRows
    /\ phase = [w \in Workers |-> "idle"]
    /\ op = [w \in Workers |-> NoOp]
    /\ draft = [w \in Workers |-> << >>]

Start(w, o, writes, next) ==
    /\ phase[w] = "idle"
    /\ op' = [op EXCEPT ![w] = o]
    /\ draft' = [draft EXCEPT ![w] = writes]
    /\ phase' = [phase EXCEPT ![w] = next]
    /\ UNCHANGED rows

\* The operations.  What they read first are records that never change.
Register(w) ==
    \E e \in Fresh(Envelopes), form \in Forms :
        Start(w, [NoOp EXCEPT !.kind = "register", !.envelope = e],
              <<EnvelopeWrite(e, form)>>, "waiting")

Authorize(w) ==
    \E e \in Records("decision_envelopes"), d \in Fresh(Decisions), by \in Authorizers :
        Start(w, [NoOp EXCEPT !.kind = "authorize", !.envelope = e.id, !.decision = d],
              <<AuthorityWrite(d, e, by)>>, "waiting")

\* The decision may be about another envelope, and the action another one: then
\* the plan is created all the same, as BLOCKED.
CreatePlan(w) ==
    \E e \in Records("decision_envelopes"), d \in Records("authority_decisions"),
       p \in Fresh(Plans), ask \in Requests :
        LET q == [id |-> p, envelope |-> e.id, decision |-> d.id,
                  action |-> ask.action, effects |-> ask.effects]
            gateway == [id |-> p, eligible |-> Eligible(e, d, q), simulated |-> FALSE]
        IN  Start(w, [NoOp EXCEPT !.kind = "plan", !.envelope = e.id,
                                  !.decision = d.id, !.plan = p],
                  <<Write("execution_requests", p, q),
                    Write("gateway_decisions", p, gateway),
                    CreatedWrite(p)>>, "waiting")

Simulate(w) ==
    \E q \in Records("execution_requests") :
        Start(w, [NoOp EXCEPT !.kind = "simulate", !.plan = q.id, !.decision = q.decision],
              << >>, "waiting")

\* record_shadow_outcome and get_execution_plan read on before anything else.
RecordOutcome(w) ==
    \E q \in Records("execution_requests"), assessed \in Assessments :
        Start(w, [NoOp EXCEPT !.kind = "outcome", !.plan = q.id, !.assessed = assessed],
              << >>, "reading")

ViewPlan(w) ==
    \E q \in Records("execution_requests") :
        Start(w, [NoOp EXCEPT !.kind = "view", !.plan = q.id], << >>, "reading")

Backfill(w) ==
    \E g \in Records("gateway_decisions") :
        Start(w, [NoOp EXCEPT !.kind = "backfill", !.plan = g.id], << >>, "waiting")

-----------------------------------------------------------------------------
(***************************************************************************)
(* The two reads that matter, each in its own snapshot: first the events   *)
(* (_list_gateway_events, project_gateway_state), then the receipt         *)
(* (_load_validated_shadow_receipt).  A listing returns the first MaxList  *)
(* rows of the collection, whatever plan they belong to.                   *)
(***************************************************************************)
\* Mutant: the listing returns the last rows.
NewestPage ==
    LET events == Group(rows, "gateway_decision_events")
    IN  {r \in events : r.seq > Cardinality(events) - MaxList}

FirstPage == {r \in Group(rows, "gateway_decision_events") : r.seq <= MaxList}

\* Mutant: the mutable state of a migrated gateway row counts as an event.
ShownByGatewayRow(p) ==
    \/ \E r \in FirstPage : r.key = SimulatedKey(p)
    \/ \E g \in Records("gateway_decisions") : g.id = p /\ g.simulated

ShownSimulated(p) == \E r \in FirstPage : r.key = SimulatedKey(p)

\* Mutant: the receipt is loaded first.
ReceiptFirst == <<"receipt", "events">>
ReadOrder == <<"events", "receipt">>

Reads(w) == ReadOrder[IF phase[w] = "reading" THEN 1 ELSE 2]

Read(w) ==
    /\ phase[w] \in {"reading", "rereading"}
    /\ LET o == op[w]
           receipts == {r.rec.id : r \in Keyed(rows, "shadow_execution_receipts", o.plan)}
           got == IF Reads(w) = "events" THEN [o EXCEPT !.simulated = ShownSimulated(o.plan)]
                  ELSE [o EXCEPT !.receipt = IF receipts = {} THEN NoId
                                             ELSE CHOOSE id \in receipts : TRUE]
           missed == IF Reads(w) = "events" THEN ~got.simulated ELSE got.receipt = NoId
       IN  \/ /\ o.kind = "outcome" /\ missed       \* plan_not_simulated, KeyError
              /\ phase' = [phase EXCEPT ![w] = "idle"]
              /\ op' = [op EXCEPT ![w] = NoOp]
           \/ /\ ~(o.kind = "outcome" /\ missed)
              /\ phase' = [phase EXCEPT ![w] = IF @ = "reading" THEN "rereading"
                                               ELSE IF o.kind = "outcome" THEN "waiting"
                                               ELSE "returned"]
              /\ op' = [op EXCEPT ![w] = got]
    /\ UNCHANGED <<rows, draft>>

-----------------------------------------------------------------------------
\* run_scoped_transaction has its locks.
Lock(w) ==
    /\ phase[w] = "waiting"
    /\ \A v \in Workers \ {w} : InTransaction(v) => Locks(op[v]) \cap Locks(op[w]) = {}
    /\ phase' = [phase EXCEPT ![w] = "open"]
    /\ UNCHANGED <<rows, op, draft>>

Wrote(w, writes) ==
    /\ draft' = [draft EXCEPT ![w] = writes]
    /\ phase' = [phase EXCEPT ![w] = "ready"]
    /\ UNCHANGED <<rows, op>>

\* The callbacks that write what was prepared, once session.get_scoped has found
\* the records it rests on.
WritePrepared(w) ==
    /\ phase[w] = "open"
    /\ op[w].kind \in {"register", "authorize", "plan"}
    /\ op[w].kind # "register" => Keyed(rows, "decision_envelopes", op[w].envelope) # {}
    /\ op[w].kind = "plan" => Keyed(rows, "authority_decisions", op[w].decision) # {}
    /\ Wrote(w, draft[w])

\* The gateway is evaluated anew, on the rows.
EligibleNow(q) ==
    \E e \in Records("decision_envelopes"), d \in Records("authority_decisions") :
        Eligible(e, d, q)

\* Mutants: whatever the gateway says; without the event; without looking for a
\* receipt.
SimulateAnyPlan(w) ==
    \E q \in Records("execution_requests"), id \in Fresh(Receipts) :
        /\ phase[w] = "open" /\ op[w].kind = "simulate" /\ q.id = op[w].plan
        /\ Keyed(rows, "shadow_execution_receipts", q.id) = {}
        /\ Wrote(w, <<ReceiptWrite(id, q), SimulatedWrite(q.id, id)>>)

SimulateWithoutEvent(w) ==
    \E q \in Records("execution_requests"), id \in Fresh(Receipts) :
        /\ phase[w] = "open" /\ op[w].kind = "simulate" /\ q.id = op[w].plan
        /\ EligibleNow(q)
        /\ Keyed(rows, "shadow_execution_receipts", q.id) = {}
        /\ Wrote(w, <<ReceiptWrite(id, q)>>)

SimulateAgain(w) ==
    \E q \in Records("execution_requests"), id \in Fresh(Receipts) :
        /\ phase[w] = "open" /\ op[w].kind = "simulate" /\ q.id = op[w].plan
        /\ EligibleNow(q)
        /\ Wrote(w, <<ReceiptWrite(id, q), SimulatedWrite(q.id, id)>>)

\* A plan that has its receipt gets at most the event that was missing.
SimulateCallback(w) ==
    \E q \in Records("execution_requests") :
        LET stored == Keyed(rows, "shadow_execution_receipts", q.id)
        IN  /\ phase[w] = "open" /\ op[w].kind = "simulate" /\ q.id = op[w].plan
            /\ \/ \E r \in stored : Wrote(w, <<SimulatedWrite(q.id, r.rec.id)>>)
               \/ /\ stored = {}
                  /\ EligibleNow(q)
                  /\ \E id \in Fresh(Receipts) :
                        Wrote(w, <<ReceiptWrite(id, q), SimulatedWrite(q.id, id)>>)

OutcomeCallback(w) ==
    \E q \in Records("execution_requests") :
        /\ phase[w] = "open" /\ op[w].kind = "outcome" /\ q.id = op[w].plan
        /\ IF Keyed(rows, "shadow_outcomes", op[w].receipt) # {}
           THEN Wrote(w, << >>)
           ELSE \E id \in Fresh(Outcomes) :
                    Wrote(w, <<OutcomeWrite(id, q, op[w].receipt, op[w].assessed)>>)

\* Mutant: a plan whose first event is there is taken to be done.
BackfillFirstEventOnly(w) ==
    \E g \in Records("gateway_decisions") :
        /\ phase[w] = "open" /\ op[w].kind = "backfill" /\ g.id = op[w].plan
        /\ Wrote(w, <<CreatedWrite(g.id)>>)

\* The second event is for a plan that the migrated row calls SIMULATED and that
\* has a receipt.
BackfillCallback(w) ==
    \E g \in Records("gateway_decisions") :
        LET receipts == IF g.simulated
                        THEN Keyed(rows, "shadow_execution_receipts", g.id) ELSE {}
        IN  /\ phase[w] = "open" /\ op[w].kind = "backfill" /\ g.id = op[w].plan
            /\ IF receipts = {} THEN Wrote(w, <<CreatedWrite(g.id)>>)
               ELSE \E r \in receipts :
                        Wrote(w, <<CreatedWrite(g.id), SimulatedWrite(g.id, r.rec.id)>>)

(***************************************************************************)
(* append_scoped_once for each write: the same record under the key is     *)
(* skipped, another one is a DuplicateCanonicalKey that undoes them all.   *)
(***************************************************************************)
Clash(w) ==
    \E i \in DOMAIN draft[w] :
        \E r \in Keyed(rows, draft[w][i].coll, draft[w][i].key) : r.rec # draft[w][i].rec

NewWrites(R, d) == {i \in DOMAIN d : Keyed(R, d[i].coll, d[i].key) = {}}

Published(R, d) ==
    R \cup {[coll |-> d[i].coll, key |-> d[i].key, rec |-> d[i].rec,
             seq |-> Cardinality(Group(R, d[i].coll))
                     + Cardinality({j \in NewWrites(R, d) : j <= i /\ d[j].coll = d[i].coll})]
            : i \in NewWrites(R, d)}

\* simulate_execution_plan goes on to read the plan it has simulated.
Commit(w) ==
    /\ phase[w] = "ready"
    /\ rows' = IF Clash(w) THEN rows ELSE Published(rows, draft[w])
    /\ phase' = [phase EXCEPT ![w] = IF Clash(w) THEN "conflict"
                                     ELSE IF op[w].kind = "simulate" THEN "reading"
                                     ELSE "returned"]
    /\ draft' = [draft EXCEPT ![w] = << >>]
    /\ UNCHANGED op

End(w) ==
    /\ phase' = [phase EXCEPT ![w] = "idle"]
    /\ op' = [op EXCEPT ![w] = NoOp]
    /\ draft' = [draft EXCEPT ![w] = << >>]
    /\ UNCHANGED rows

\* The caller has its answer.
Return(w) == phase[w] \in {"returned", "conflict"} /\ End(w)

\* The callback raised (plan_not_eligible_for_shadow), or the process died.
Abort(w) == phase[w] \notin {"idle", "returned", "conflict"} /\ End(w)

Work(w) ==
    \/ Register(w) \/ Authorize(w) \/ CreatePlan(w) \/ Simulate(w)
    \/ RecordOutcome(w) \/ ViewPlan(w) \/ Backfill(w)
    \/ Read(w) \/ Lock(w)
    \/ WritePrepared(w) \/ SimulateCallback(w) \/ OutcomeCallback(w) \/ BackfillCallback(w)
    \/ Commit(w) \/ Return(w) \/ Abort(w)

Next == \E w \in Workers : Work(w)

Spec == Init /\ [][Next]_vars

-----------------------------------------------------------------------------
Kinds == {"none", "register", "authorize", "plan", "simulate", "outcome", "view", "backfill"}
Phases == {"idle", "reading", "rereading", "waiting", "open", "ready", "returned", "conflict"}

RecordOf == [
    decision_envelopes |-> [id : Envelopes, form : Forms],
    authority_decisions |-> [id : Decisions, envelope : Envelopes, by : Authorizers,
        verified : BOOLEAN, state : {"AUTHORIZED", "NOT_AUTHORIZED", "REQUIRES_APPROVAL"}],
    execution_requests |-> [id : Plans, envelope : Envelopes, decision : Decisions,
        action : {q.action : q \in Requests}, effects : {q.effects : q \in Requests}],
    gateway_decisions |-> [id : Plans, eligible : BOOLEAN, simulated : BOOLEAN],
    gateway_decision_events |-> [id : UNION {{CreatedKey(p), SimulatedKey(p)} : p \in Plans},
        source : Plans \cup Receipts],
    shadow_execution_receipts |-> [id : Receipts, plan : Plans, envelope : Envelopes,
        decision : Decisions, action : {q.action : q \in Requests}],
    shadow_outcomes |-> [id : Outcomes, plan : Plans, receipt : Receipts,
        assessed : Assessments, state : {"NOT_EVALUATED", "DEVIATED", "CONSISTENT"}]]

\* The key under which a record is stored.
KeyOf(c, r) ==
    CASE c = "shadow_execution_receipts" -> r.plan
      [] c = "shadow_outcomes" -> r.receipt
      [] OTHER -> r.id

WellFormed(x) ==
    /\ x.coll \in Collections
    /\ x.rec \in RecordOf[x.coll]
    /\ x.key = KeyOf(x.coll, x.rec)

(***************************************************************************)
(* What a migrated ledger is taken to hold: records of the collections,    *)
(* one under each key, where a decision is what AuthorityEngine makes of   *)
(* its envelope, a receipt is of an envelope that was authorised, for the  *)
(* envelope's action, events match receipts (EventsMatchReceipts), and the *)
(* records of a plan belong together (LineageIntact).                      *)
(***************************************************************************)
OneRowPerKey(R) ==
    \A r, s \in R : r.coll = s.coll /\ r.key = s.key => r = s

DecisionGrounded(R, d) ==
    \E e \in RecordsIn(R, "decision_envelopes") :
        /\ d.envelope = e.id
        /\ d.verified = Verified(e.form)
        /\ d.state = Authorization(e.form, d.by)

ReceiptGrounded(R, r) ==
    \E e \in RecordsIn(R, "decision_envelopes"), d \in RecordsIn(R, "authority_decisions") :
        /\ r.envelope = e.id /\ r.decision = d.id
        /\ d.envelope = e.id
        /\ d.verified /\ d.state = "AUTHORIZED"
        /\ r.action = e.form.action

Grounded(R, x) ==
    /\ x.coll = "authority_decisions" => DecisionGrounded(R, x.rec)
    /\ x.coll = "shadow_execution_receipts" => ReceiptGrounded(R, x.rec)

Migrated(R, p) ==
    \E g \in RecordsIn(R, "gateway_decisions") : g.id = p /\ g.simulated

EventsMatch(R) ==
    /\ \A p \in Plans : \A e \in Keyed(R, "gateway_decision_events", SimulatedKey(p)) :
          \E r \in Keyed(R, "shadow_execution_receipts", p) : r.rec.id = e.rec.source
    /\ \A r \in Group(R, "shadow_execution_receipts") :
          \/ Migrated(R, r.key)
          \/ Keyed(R, "gateway_decision_events", SimulatedKey(r.key)) # {}

\* The gateway decided on the envelope and the decision that the request names.
GatewayGrounded(R, q, g) ==
    /\ g.id = q.id
    /\ \E e \in RecordsIn(R, "decision_envelopes"), d \in RecordsIn(R, "authority_decisions") :
          q.envelope = e.id /\ q.decision = d.id /\ g.eligible = Eligible(e, d, q)

(***************************************************************************)
(* The records of a plan belong together: a request and its gateway        *)
(* decision, a receipt that repeats what its request asked for, an outcome *)
(* of a plan that has its receipt, and the event that names the plan.      *)
(***************************************************************************)
LineageIntact(R) ==
    /\ \A q \in RecordsIn(R, "execution_requests") :
          \E g \in RecordsIn(R, "gateway_decisions") : GatewayGrounded(R, q, g)
    /\ \A g \in RecordsIn(R, "gateway_decisions") : Keyed(R, "execution_requests", g.id) # {}
    /\ \A r \in RecordsIn(R, "shadow_execution_receipts") :
          \E q \in RecordsIn(R, "execution_requests") :
              /\ r.plan = q.id /\ r.envelope = q.envelope /\ r.decision = q.decision
              /\ r.action = q.action
    /\ \A x \in RecordsIn(R, "shadow_outcomes") :
          Keyed(R, "shadow_execution_receipts", x.plan) # {}
    /\ \A p \in Plans : \A e \in Keyed(R, "gateway_decision_events", CreatedKey(p)) :
          e.rec = CreatedWrite(p).rec

ASSUME LegacyAssumption ==
    \A R \in LegacyRows :
        /\ OneRowPerKey(R) /\ EventsMatch(R) /\ LineageIntact(R)
        /\ \A r \in R : WellFormed(r) /\ Grounded(R, r)

ASSUME NoIdAssumption == NoId \notin Receipts

Operations ==
    [kind : Kinds, envelope : Envelopes \cup {NoId}, decision : Decisions \cup {NoId},
     plan : Plans \cup {NoId}, receipt : Receipts \cup {NoId},
     assessed : Assessments \cup {NoId}, simulated : BOOLEAN]

(* Every row and every write is a record of its collection under its key.  *)
TypeOK ==
    /\ \A r \in rows : WellFormed(r)
    /\ phase \in [Workers -> Phases]
    /\ op \in [Workers -> Operations]
    /\ draft = [w \in Workers |-> draft[w]]
    /\ \A w \in Workers : \A i \in DOMAIN draft[w] : WellFormed(draft[w][i])

(***************************************************************************)
(* A receipt and its SIMULATION_RECORDED event appear together, whoever    *)
(* else simulates, backfills or dies; only a migrated plan can have its    *)
(* receipt alone, until the backfill.  An event names the receipt stored   *)
(* (test plan S10, gateway events protocol).                               *)
(***************************************************************************)
EventsMatchReceipts == EventsMatch(rows)

(***************************************************************************)
(* Whatever has a receipt was authorised, for exactly that action, by      *)
(* somebody else than its proposer who held the required role, on a PASS,  *)
(* with no approval refused and, at high risk, with an approval that is    *)
(* not the proposer's (ADR-016, ADR-017).                                  *)
(***************************************************************************)
SimulatedMeansAuthorized ==
    \A r \in Records("shadow_execution_receipts") :
        \E e \in Records("decision_envelopes"), d \in Records("authority_decisions") :
            /\ r.envelope = e.id /\ r.decision = d.id
            /\ d.envelope = e.id
            /\ r.action = e.form.action
            /\ e.form.verdict = "PASS"
            /\ d.by.subject # e.form.proposer
            /\ d.by.role \in {e.form.required, "admin"}
            /\ \A a \in d.by.approvals : a.approved /\ a.approver # e.form.proposer
            /\ e.form.risky => d.by.approvals # {}

(***************************************************************************)
(* No caller is told DuplicateCanonicalKey, however simulations, outcomes, *)
(* backfills and their retries overlap: the second finds the record of the *)
(* first, or writes the very same event (test plan S10, S14-S16).          *)
(***************************************************************************)
RetriesNeverConflict == \A w \in Workers : phase[w] # "conflict"

(***************************************************************************)
(* A plan shown as SIMULATED is shown with its receipt: the view is read   *)
(* in two snapshots, and a simulation may commit between them ("States     *)
(* without verifiable receipt evidence remain NOT_SIMULATED").             *)
(***************************************************************************)
SimulatedViewHasReceipt ==
    \A w \in Workers :
        phase[w] = "returned" /\ op[w].simulated => op[w].receipt # NoId

(***************************************************************************)
(* A plan that once reads as SIMULATED always will, although the listing   *)
(* is cut off: later events of other plans cannot push its event out.      *)
(***************************************************************************)
SimulatedForGood == [][\A p \in Plans : ShownSimulated(p) => ShownSimulated(p)']_vars

(***************************************************************************)
(* When the backfill of a plan returns, the plan has its first event and,  *)
(* if it has a receipt, its second one, even one that a concurrent         *)
(* simulation owed (backfill_gateway_decision_events).                     *)
(***************************************************************************)
BackfillLeavesNothing ==
    \A w \in Workers :
        phase[w] = "returned" /\ op[w].kind = "backfill" =>
            /\ Keyed(rows, "gateway_decision_events", CreatedKey(op[w].plan)) # {}
            /\ Keyed(rows, "shadow_execution_receipts", op[w].plan) # {} =>
                  Keyed(rows, "gateway_decision_events", SimulatedKey(op[w].plan)) # {}

-----------------------------------------------------------------------------
(***************************************************************************)
(* A plan is as far as its rows say: observed with an outcome, simulated   *)
(* with its event, planned with its request.                               *)
(***************************************************************************)
StageOf(p) ==
    IF \E x \in Records("shadow_outcomes") : x.plan = p THEN "observed"
    ELSE IF Keyed(rows, "gateway_decision_events", SimulatedKey(p)) # {} THEN "simulated"
    ELSE IF Keyed(rows, "execution_requests", p) # {} THEN "planned"
    ELSE "absent"

Pipeline == INSTANCE DecisionPipeline WITH
    stage <- [p \in Plans |-> StageOf(p)],
    eligible <- {p \in Plans : \E g \in Records("gateway_decisions") : g.id = p /\ g.eligible}

(* The operations implement the pipeline: every commit moves a plan by one *)
(* stage or none.                                                          *)
ImplementsPipeline == Pipeline!Spec
=============================================================================
