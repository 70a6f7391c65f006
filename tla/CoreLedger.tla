----------------------------- MODULE CoreLedger -----------------------------
(***************************************************************************)
(* One process of the core service: the threads that serve /v3, /v3/hav    *)
(* and /v4/grdi, the idempotency file, the evidence ledger and its         *)
(* backend, the runtime, the sandbox, and the files of the legacy bridge.  *)
(* The ledger is read and rewritten whole under one lock; a keyed          *)
(* operation runs under the lock of the idempotency store; the mirror      *)
(* files and the receipts of the sandbox have no lock at all.  What a GRDI *)
(* operation promises, all of its rows or none and a canonical row only    *)
(* once, is taken from DecisionPipeline, which GrdiPipeline implements.    *)
(*                                                                         *)
(* A hash is modelled by what it commits to, the records up to its own; an *)
(* id is the number of the request that mints it, a kind and a position.   *)
(***************************************************************************)
EXTENDS HavVerification, CoreAccess, FiniteSets, SequencesExt

CONSTANTS
    Threads,
    Requests,     \* what clients may ask
    Auth,         \* what each router was built with (CoreAccess)
    Rules,        \* of the policy engine
    Backend,      \* "json" or "sqlite"
    Stored,       \* the records in the ledger at the start
    Decided,      \* the GRDI rows at the start
    NoThread, NoKey, Torn,
    MaxQuery,     \* the most rows that query returns: 1000
    MaxRequests,  \* bound: requests received
    MaxCrashes    \* bound: crashes of the process

ASSUME CoreLedgerAssumption ==
    /\ NoThread \notin Threads
    /\ Backend \in {"json", "sqlite"}
    /\ MaxQuery \in Nat /\ MaxRequests \in Nat /\ MaxCrashes \in Nat

Collections ==
    <<"claims", "evidence", "verifications", "actions", "policy_decisions", "outcomes">>

GrdiOps == {"envelope", "authorize", "plan", "simulate", "outcome", "replay", "compare"}
Operations == {"claim", "evidence", "verify", "run", "sandbox", "hav", "snapshot"} \cup GrdiOps

\* What the body of a request tells.
Fields(op) ==
    CASE op = "verify" -> {"claim", "result", "refs"}
      [] op = "run" -> {"claims", "result", "type", "risk", "reversible", "mode", "approvals",
                        "executor"}
      [] op = "sandbox" -> {"type", "approvals", "reversible", "governance", "readiness",
                            "isolated"}
      [] op = "hav" -> {"agent", "state", "claims"}
      [] op = "authorize" -> {"envelope"}
      [] op = "plan" -> {"envelope", "decision"}
      [] op \in {"simulate", "outcome", "replay"} -> {"plan"}
      [] op = "compare" -> {"baseline", "candidate"}
      [] OTHER -> {}

IsSeq(s) == s \in Seq(ToSet(s))

ASSUME RequestsAssumption ==
    \A r \in Requests :
        /\ r.op \in Operations
        /\ {"op", "from", "key"} \cup Fields(r.op) \subseteq DOMAIN r
        /\ r.op = "hav" => IsSeq(r.claims) /\ IsSeq(r.state.facts)
        /\ r.op = "sandbox" => IsSeq(r.approvals)

VARIABLES
    ledger,      \* collection -> the rows the backend keeps
    ledgerLock,  \* EvidenceLedger._lock
    kept,        \* the idempotency file: key, body and response
    keyLock,     \* IdempotencyStore._lock
    scoped,      \* the GRDI rows of the scoped ledger
    mirrors,     \* the audit, shadow and receipt files; Torn while half written
    executed,    \* what executors and the connectors of the sandbox carried out
    pc, request, \* where a thread is, and the request it serves
    number,      \* the number of that request
    left,        \* the steps its operation has still to make
    copy,        \* what it last read of the ledger
    noted,       \* and of a mirror file
    received,    \* how many requests came
    answers,     \* history: the responses that were sent
    broken,      \* history: the requests a crash ended
    raised,      \* history: those that an executor or a write to the ledger ended
    refused,     \* history: the requests whose rows the backend refused
    crashes

serviceVars == <<pc, request, number, left, copy, noted>>
lockVars == <<ledgerLock, keyLock>>
vars == <<ledger, scoped, lockVars, kept, mirrors, executed, serviceVars, received,
          answers, broken, raised, refused, crashes>>

-----------------------------------------------------------------------------
(* Rows and chains.  A record tells its scope, its id, what it is about,   *)
(* its state (a status, result, effect, or whether it was executed) and    *)
(* the evidence or claims it refers to.                                    *)

Id(n, kind, i) == <<n, kind, i>>
Rec(scope, id, about, state, refs) ==
    [scope |-> scope, id |-> id, about |-> about, state |-> state, refs |-> refs]
Nothing == << >>

Router(op) == IF op \in GrdiOps THEN "grdi" ELSE IF op = "hav" THEN "hav" ELSE "core"
Caller(r) == Principal(Auth[Router(r.op)], r.from)

\* The record that a request makes: in the scope of its caller.
RecOf(r, id, about, state, refs) == Rec(Caller(r).scope, id, about, state, refs)

\* _append: the new row continues the hash of the last one.
Linked(rows, rec) ==
    LET prev == IF rows = << >> THEN << >> ELSE Last(rows).hash
    IN Append(rows, [rec |-> rec, prev |-> prev, hash |-> Append(prev, rec)])

\* The chain of these records,
Chained(records) ==
    [i \in DOMAIN records |-> [rec |-> records[i], prev |-> SubSeq(records, 1, i - 1),
                               hash |-> SubSeq(records, 1, i)]]

\* which _rechain_payload makes of a collection anew.
Rechained(rows) == Chained([i \in DOMAIN rows |-> rows[i].rec])

IdsIn(rows) == {rows[i].rec.id : i \in DOMAIN rows}

\* verify_chain accepts this ledger.
Verifies(book) ==
    \A c \in DOMAIN book : \A i \in DOMAIN book[c] :
        LET row == book[c][i]
        IN /\ row.prev = IF i = 1 THEN << >> ELSE book[c][i - 1].hash
           /\ row.hash = Append(row.prev, row.rec)

\* The claim that the verification v is about takes its result and its evidence.
Marked(claims, v) ==
    [i \in DOMAIN claims |->
        IF claims[i].rec.id = v.about
        THEN [claims[i] EXCEPT !.rec.state = v.state, !.rec.refs = @ \cup v.refs]
        ELSE claims[i]]

\* Mutant: the claim's row keeps the hash of its old record.
VerifiedInPlace(book, v) ==
    [book EXCEPT !["verifications"] = Linked(@, v), !["claims"] = Marked(@, v)]

\* Mutant: the evidence of the last verification replaces that of the others.
VerifiedAnew(book, v) ==
    LET marked == [book EXCEPT
            !["verifications"] = Linked(@, v),
            !["claims"] = [i \in DOMAIN @ |->
                IF @[i].rec.id = v.about
                THEN [@[i] EXCEPT !.rec.state = v.state, !.rec.refs = v.refs]
                ELSE @[i]]]
    IN [c \in DOMAIN book |-> Rechained(marked[c])]

\* record_verification, after which every chain is rebuilt.
Verified(book, v) ==
    LET marked == [book EXCEPT !["verifications"] = Linked(@, v), !["claims"] = Marked(@, v)]
    IN [c \in DOMAIN book |-> Rechained(marked[c])]

\* SQLiteLedgerBackend.write_all names a row by its first key that ends in _id.
\* Rows come back with their keys sorted: those of others then lead with the id
\* of what they are about (claim_id < verification_id, action_id < outcome_id).
RecordId(rec, fresh) == IF rec.about = Nothing \/ rec.id \in fresh THEN rec.id ELSE rec.about

BackendTakes(book, fresh) ==
    Backend = "sqlite" =>
        \A c \in DOMAIN book : \A i, j \in DOMAIN book[c] :
            i # j => RecordId(book[c][i].rec, fresh) # RecordId(book[c][j].rec, fresh)

-----------------------------------------------------------------------------
(* The operations, as the steps their code takes in order.                 *)

Put(coll, rec) == [act |-> "append", coll |-> coll, rec |-> rec]
Judge(rec) == [act |-> "verify", coll |-> "verifications", rec |-> rec]
Mirror(file, rec) == [act |-> "mirror", coll |-> file, rec |-> rec]
Carry(rec) == [act |-> "execute", coll |-> "actions", rec |-> rec]
Show(coll) == [act |-> "list", coll |-> coll, rec |-> Nothing]
Consult(file) == [act |-> "consult", coll |-> file, rec |-> Nothing]
Commit(coll, id, needs) == [act |-> "commit", coll |-> coll, rec |-> [id |-> id, refs |-> needs]]

\* PolicyEngine.evaluate.  Risks are numbers, low = 0.
Effect(r) ==
    LET matching == {rule \in Rules : r.type \in rule.types}
        missing == UNION {rule.approvals : rule \in matching} \ r.approvals
    IN IF \/ matching = {}
          \/ \E rule \in matching :
                \/ r.mode \notin rule.modes
                \/ r.risk > rule.risk
                \/ rule.reversible /\ ~r.reversible
       THEN "block"
       ELSE IF missing # {} THEN "require_approval"
       ELSE "allow"

Executes(r) ==
    Effect(r) = "allow" /\ r.mode \in {"copilot", "guarded_auto"} /\ r.executor

\* PhiGraphCoreRuntime.run for one claim, with a verifier, and one action.
RunClaim(r, n) ==
    LET claim == Id(n, "claim", 1)
        evidence == Id(n, "evidence", 1)
    IN << Put("claims", RecOf(r, claim, Nothing, "proposed", {})),
          Put("evidence", RecOf(r, evidence, Nothing, "registered", {})),
          Judge(RecOf(r, Id(n, "verification", 1), claim, r.result, {evidence})) >>

\* Mutant: the decision is recorded once the action is done.
RunActionDecidedLate(r, n) ==
    LET action == RecOf(r, Id(n, "action", 1), Nothing, "proposed", {})
        decision == RecOf(r, Id(n, "decision", 1), action.id, Effect(r), {})
        Done(how) == RecOf(r, Id(n, "outcome", 1), action.id, how, {})
    IN << Put("actions", action) >>
       \o (IF Executes(r)
           THEN << Carry(action), Put("policy_decisions", decision),
                   Mirror("audit", decision), Put("outcomes", Done("executed")) >>
           ELSE << Put("policy_decisions", decision), Mirror("audit", decision),
                   Put("outcomes", Done("simulated")), Mirror("shadow", Done("simulated")) >>)

RunAction(r, n) ==
    LET action == RecOf(r, Id(n, "action", 1), Nothing, "proposed", {})
        decision == RecOf(r, Id(n, "decision", 1), action.id, Effect(r), {})
        Done(how) == RecOf(r, Id(n, "outcome", 1), action.id, how, {})
    IN << Put("actions", action), Put("policy_decisions", decision), Mirror("audit", decision) >>
       \o (IF Executes(r)
           THEN << Carry(action), Put("outcomes", Done("executed")) >>
           ELSE << Put("outcomes", Done("simulated")), Mirror("shadow", Done("simulated")) >>)

\* PhiGraphHAVService.verify_and_record.
HavSteps(r, n) ==
    LET Fact(i) == Id(n, "evidence", i)
        Claim(i) == Id(n, "claim", i)
        action == RecOf(r, Id(n, "action", 1), Nothing, "proposed", {Claim(i) : i \in DOMAIN r.claims})
        Judged(i) ==
            LET e == Evaluation(r.state, r.claims[i])
            IN RecOf(r, Id(n, "verification", i), Claim(i), e.status, {Fact(j) : j \in e.evidence})
    IN [i \in DOMAIN r.state.facts |-> Put("evidence", RecOf(r, Fact(i), Nothing, "valid", {}))]
       \o [k \in 1..(2 * Len(r.claims)) |->
              IF k % 2 = 1 THEN Put("claims", RecOf(r, Claim((k + 1) \div 2), Nothing, "proposed", {}))
              ELSE Judge(Judged(k \div 2))]
       \o << Put("actions", action),
             Put("policy_decisions",
                 RecOf(r, Id(n, "decision", 1), action.id, Decide(r.state, r.claims), {})),
             Put("evidence", RecOf(r, Id(n, "receipt", 1), Nothing, "valid", {})) >>

\* Mutant: snapshot lists the collections from the last to the first.
SnapshotBackwards == Reverse([i \in DOMAIN Collections |-> Show(Collections[i])])

\* snapshot, which reads the ledger once for each collection.
Snapshot == [i \in DOMAIN Collections |-> Show(Collections[i])]

\* The bridge gives approvals their roles by their place.
RoleAt(i) == IF i = 2 THEN "safety" ELSE "operations"

\* Mutant: the gate counts approvals, not the people who gave them.
CountApprovals(approvals) ==
    \A role \in {"operations", "safety"} : \E i \in DOMAIN approvals : RoleAt(i) = role

\* DualApprovalGate: the last approval for a role stands, and the people differ.
DualApproval(approvals) ==
    LET Given(role) == {i \in DOMAIN approvals : RoleAt(i) = role}
    IN /\ \A role \in {"operations", "safety"} : Given(role) # {}
       /\ approvals[Max(Given("operations"))] # approvals[Max(Given("safety"))]

\* verify_rollback_plan, of the plan that the bridge makes up.
RollbackPlanned(r) == r.reversible

Authorized(r) ==
    /\ r.type \in {"create_ticket", "increase_monitoring", "inspect"}
    /\ DualApproval(r.approvals)
    /\ RollbackPlanned(r)
    /\ r.governance \in {"ACCEPT", "ACCEPT_WITH_REVIEW"}
    /\ r.readiness \in {"shadow_ready", "production_candidate"}

\* What a connector opens, always simulated.
OpenTicket(r, n) == Carry(RecOf(r, Id(n, "ticket", 1), Nothing, "simulated", {}))

\* ControlledExecutionSandbox.execute.  The id of the action, which is new, is the
\* key of its receipt.
SandboxSteps(r, n) ==
    << Consult("receipts") >>
    \o (IF Authorized(r) THEN << OpenTicket(r, n) >> ELSE << >>)
    \o << Mirror("receipts", RecOf(r, Id(n, "receipt", 1), Nothing, "sandbox", {})) >>

-----------------------------------------------------------------------------
(* The writing routes of /v4/grdi: what each commits, under which id, and   *)
(* the rows it needs.  The ids of the first three are new; the others name  *)
(* what they are about, so that a second one finds the first.               *)

EnvelopeRoute(r, n) == Commit("envelopes", Id(n, "envelope", 1), {})
AuthorizeRoute(r, n) ==
    Commit("decisions", Id(n, "authority", 1), {<<"envelopes", r.envelope>>})
PlanRoute(r, n) ==
    Commit("plans", Id(n, "plan", 1), {<<"envelopes", r.envelope>>, <<"decisions", r.decision>>})
\* (of a plan that the gateway finds eligible; GrdiPipeline has the others)
SimulateRoute(r, n) == Commit("receipts", r.plan, {<<"plans", r.plan>>})
OutcomeRoute(r, n) ==
    Commit("outcomes", r.plan, {<<"plans", r.plan>>, <<"receipts", r.plan>>})
ReplayRoute(r, n) == Commit("replays", r.plan, {<<"plans", r.plan>>})
CompareRoute(r, n) ==
    Commit("comparisons", <<r.baseline, r.candidate>>,
           {<<"replays", r.baseline>>, <<"replays", r.candidate>>})

\* Where a report differs from an earlier one of its plan: in the rows it snapshots.
Rows(S, coll) == {row.id : row \in {row \in S : row.coll = coll}}
RowId(S, step) ==
    IF step.coll = "replays"
    THEN <<"replay", step.rec.id, step.rec.id \in Rows(S, "receipts"),
           step.rec.id \in Rows(S, "outcomes")>>
    ELSE step.rec.id

-----------------------------------------------------------------------------
\* What the handlers of the routes do, in order.
Steps(r, n) ==
    CASE r.op = "claim" -> << Put("claims", RecOf(r, Id(n, "claim", 1), Nothing, "proposed", {})) >>
      [] r.op = "evidence" ->
            << Put("evidence", RecOf(r, Id(n, "evidence", 1), Nothing, "registered", {})) >>
      [] r.op = "verify" -> << Judge(RecOf(r, Id(n, "verification", 1), r.claim, r.result, r.refs)) >>
      [] r.op = "run" -> (IF r.claims THEN RunClaim(r, n) ELSE << >>) \o RunAction(r, n)
      [] r.op = "sandbox" -> SandboxSteps(r, n)
      [] r.op = "hav" -> HavSteps(r, n)
      [] r.op = "snapshot" -> Snapshot
      [] r.op = "envelope" -> << EnvelopeRoute(r, n) >>
      [] r.op = "authorize" -> << AuthorizeRoute(r, n) >>
      [] r.op = "plan" -> << PlanRoute(r, n) >>
      [] r.op = "simulate" -> << SimulateRoute(r, n) >>
      [] r.op = "outcome" -> << OutcomeRoute(r, n) >>
      [] r.op = "replay" -> << ReplayRoute(r, n) >>
      [] r.op = "compare" -> << CompareRoute(r, n) >>

\* The permission that the route asks for.
Needs(op) ==
    CASE op = "claim" -> "claim:create"          [] op = "evidence" -> "evidence:create"
      [] op = "verify" -> "verification:create"  [] op \in {"run", "sandbox"} -> "runtime:run"
      [] op = "snapshot" -> "read"               [] op = "hav" -> "hav:verify"
      [] op = "envelope" -> "grdi:create"        [] op = "authorize" -> "grdi:authorize"
      [] op = "plan" -> "grdi:plan"              [] op = "simulate" -> "grdi:simulate"
      [] op = "outcome" -> "grdi:record_outcome" [] op = "replay" -> "grdi:replay"
      [] op = "compare" -> "grdi:compare"

\* HAV also refuses who verifies what they issued.
Permitted(r) ==
    /\ Needs(r.op) \in Permissions(Caller(r).role)
    /\ r.op = "hav" => r.agent \notin {"", Caller(r).subject}

-----------------------------------------------------------------------------
RecordsOf(book, c) == {book[c][i].rec : i \in DOMAIN book[c]}

\* Claims, verifications and evidence belong together.
ClaimsFollow(book) ==
    \A claim \in RecordsOf(book, "claims") :
        LET judged == book["verifications"]
            about == {i \in DOMAIN judged : judged[i].rec.about = claim.id}
        IN \A i \in about :
              /\ judged[i].rec.refs \subseteq claim.refs \cap IdsIn(book["evidence"])
              /\ (\A j \in about : j <= i) => claim.state = judged[i].rec.state

ClaimsExplained(book) ==
    /\ \A claim \in RecordsOf(book, "claims") :
          /\ claim.refs \subseteq IdsIn(book["evidence"])
          /\ claim.state # "proposed" =>
                \E v \in RecordsOf(book, "verifications") : v.about = claim.id
    /\ \A v \in RecordsOf(book, "verifications") :
          v.about \in IdsIn(book["claims"]) /\ v.refs \subseteq IdsIn(book["evidence"])

OutputsSupported(book) ==
    \A d \in RecordsOf(book, "policy_decisions"), a \in RecordsOf(book, "actions") :
        d.state = "allow" /\ d.about = a.id =>
            \A claim \in a.refs :
                \E v \in RecordsOf(book, "verifications") :
                    /\ v.about = claim /\ v.state = "verified"
                    /\ v.refs # {} /\ v.refs \subseteq IdsIn(book["evidence"])

OutcomesAgree(book, done) ==
    \A outcome \in RecordsOf(book, "outcomes") :
        outcome.state = "executed" <=> outcome.about \in done

Allowed(book, action) ==
    \E d \in RecordsOf(book, "policy_decisions") : d.about = action /\ d.state = "allow"

\* The ledger at the start, and what it says was carried out: the service wrote it,
\* before the requests that are counted here.
Opening == [c \in ToSet(Collections) |-> Chained(Stored[c])]
CarriedOut == {o.about : o \in {o \in RecordsOf(Opening, "outcomes") : o.state = "executed"}}

ASSUME StoredAssumption ==
    /\ \A c \in ToSet(Collections) :
          /\ IsSeq(Stored[c])
          /\ \A s \in ToSet(Stored[c]) :
                /\ s = Rec(s.scope, s.id, s.about, s.state, s.refs) /\ s.id[1] = 0
                /\ c \in {"policy_decisions", "outcomes"} => s.about[1] = 0
    /\ ClaimsFollow(Opening) /\ ClaimsExplained(Opening) /\ OutputsSupported(Opening)
    /\ OutcomesAgree(Opening, CarriedOut)
    /\ \A action \in CarriedOut : Allowed(Opening, action)
    /\ \A row \in Decided : row.key = NoKey

Init ==
    /\ ledger = Opening
    /\ ledgerLock = NoThread /\ keyLock = NoThread
    /\ kept = {}
    /\ scoped = Decided
    /\ mirrors = [file \in {"audit", "shadow", "receipts"} |-> {}]
    /\ executed = CarriedOut
    /\ pc = [t \in Threads |-> "idle"]
    /\ request = [t \in Threads |-> Nothing]
    /\ number = [t \in Threads |-> 0]
    /\ left = [t \in Threads |-> << >>]
    /\ copy = [t \in Threads |-> Nothing]
    /\ noted = [t \in Threads |-> {}]
    /\ received = 0
    /\ answers = {} /\ broken = {} /\ raised = {} /\ refused = {}
    /\ crashes = 0

Goto(t, where) == pc' = [pc EXCEPT ![t] = where]

KeyOf(r) == <<r.op, Caller(r).scope, r.key>>    \* scoped_key

\* What request_hash is of: the body, and on some routes who sent it.
Payload(r) ==
    <<[f \in DOMAIN r \ {"from"} |-> r[f]],
      IF Router(r.op) = "core" \/ r.op = "simulate" THEN "" ELSE Caller(r).subject,
      IF r.op = "authorize" THEN Caller(r).role ELSE "">>

KeptFor(r) == {row \in kept : row.key = KeyOf(r)}

\* What a thread that ends leaves of its own.
Leave(t) ==
    /\ Goto(t, "idle")
    /\ request' = [request EXCEPT ![t] = Nothing]
    /\ number' = [number EXCEPT ![t] = 0]
    /\ left' = [left EXCEPT ![t] = << >>]
    /\ copy' = [copy EXCEPT ![t] = Nothing]
    /\ noted' = [noted EXCEPT ![t] = {}]

Unlock(t) == keyLock' = IF keyLock = t THEN NoThread ELSE keyLock

\* Mutant: an operation that raises leaves the store of keys locked.
FailLocked(t) ==
    /\ Leave(t)
    /\ ledgerLock' = IF ledgerLock = t THEN NoThread ELSE ledgerLock
    /\ UNCHANGED <<keyLock, kept, answers>>

\* The operation raises: no response is kept, and the locks are let go.
Fail(t) ==
    /\ Leave(t) /\ Unlock(t)
    /\ ledgerLock' = IF ledgerLock = t THEN NoThread ELSE ledgerLock
    /\ UNCHANGED <<kept, answers>>

Send(t, n, r) == answers' = answers \cup {[number |-> n, request |-> r]}

-----------------------------------------------------------------------------
(* A request comes in, and scoped_idempotent sees to its key.              *)

\* A request of a role without the permission is answered 403, and nothing done.
Receive(t) ==
    /\ pc[t] = "idle" /\ received < MaxRequests
    /\ \E r \in Requests :
        /\ Permitted(r)
        /\ request' = [request EXCEPT ![t] = r]
        /\ left' = [left EXCEPT ![t] = Steps(r, received + 1)]
        /\ Goto(t, IF r.key = NoKey THEN "work" ELSE IF Router(r.op) = "core" THEN "look" ELSE "acquire")
    /\ number' = [number EXCEPT ![t] = received + 1]
    /\ received' = received + 1
    /\ UNCHANGED <<ledger, scoped, lockVars, kept, mirrors, executed, copy, noted, answers, broken, raised, refused, crashes>>

\* The key is known: the response kept for it, or 409 when the body is another.
Recall(t) ==
    /\ Leave(t)
    /\ \E row \in KeptFor(request[t]) :
        IF row.payload = Payload(request[t]) THEN Send(t, row.number, request[t]) ELSE UNCHANGED answers
    /\ UNCHANGED <<ledger, scoped, lockVars, kept, mirrors, executed, received, broken, raised, refused, crashes>>

Look(t) ==
    /\ pc[t] = "look" /\ keyLock = NoThread
    /\ \/ KeptFor(request[t]) # {} /\ Recall(t)
       \/ /\ KeptFor(request[t]) = {}
          /\ Goto(t, "acquire")
          /\ UNCHANGED <<ledger, scoped, lockVars, kept, mirrors, executed, request, number, left,
                         copy, noted, received, answers, broken, raised, refused, crashes>>

\* Mutant: run trusts what get saw before it took the lock.
AcquireBlindly(t) ==
    /\ pc[t] = "acquire" /\ keyLock = NoThread
    /\ keyLock' = t
    /\ Goto(t, "work")
    /\ UNCHANGED <<ledger, scoped, ledgerLock, kept, mirrors, executed, request, number,
                   left, copy, noted, received, answers, broken, raised, refused, crashes>>

Acquire(t) ==
    /\ pc[t] = "acquire" /\ keyLock = NoThread
    /\ \/ KeptFor(request[t]) # {} /\ Recall(t)
       \/ /\ KeptFor(request[t]) = {}
          /\ keyLock' = t
          /\ Goto(t, "work")
          /\ UNCHANGED <<ledger, scoped, ledgerLock, kept, mirrors, executed, request, number,
                         left, copy, noted, received, answers, broken, raised, refused, crashes>>

\* The operation is done: its response is kept under the key, and sent.
Answer(t) ==
    /\ pc[t] = "work" /\ left[t] = << >>
    /\ kept' = IF request[t].key = NoKey THEN kept
               ELSE kept \cup {[key |-> KeyOf(request[t]), payload |-> Payload(request[t]),
                                number |-> number[t]]}
    /\ Send(t, number[t], request[t])
    /\ Leave(t) /\ Unlock(t)
    /\ UNCHANGED <<ledger, scoped, ledgerLock, mirrors, executed, received, broken, raised, refused, crashes>>

-----------------------------------------------------------------------------
(* The ledger: a write reads the whole of it under the lock, and replaces  *)
(* it; a read takes no lock.                                               *)

Next1(t) == Head(left[t])
Ready(t, acts) == pc[t] = "work" /\ left[t] # << >> /\ Next1(t).act \in acts
Proceed(t) ==
    /\ Goto(t, "work")
    /\ left' = [left EXCEPT ![t] = Tail(@)]

ReadLedger(t) ==
    /\ Ready(t, {"append", "verify"}) /\ ledgerLock = NoThread
    /\ ledgerLock' = t
    /\ copy' = [copy EXCEPT ![t] = ledger]
    /\ Goto(t, "write")
    /\ UNCHANGED <<ledger, scoped, keyLock, kept, mirrors, executed, request, number, left, noted,
                   received, answers, broken, raised, refused, crashes>>

\* _append finds no row of this id; record_verification needs claim and evidence.
Accepts(book, step) ==
    IF step.act = "append" THEN step.rec.id \notin IdsIn(book[step.coll])
    ELSE /\ step.rec.about \in IdsIn(book["claims"])
         /\ step.rec.refs \subseteq IdsIn(book["evidence"])
         /\ step.rec.id \notin IdsIn(book["verifications"])

After(book, step) ==
    IF step.act = "append" THEN [book EXCEPT ![step.coll] = Linked(@, step.rec)]
    ELSE Verified(book, step.rec)

\* What a program hands to run, and its verifiers and executors, need not be what a
\* file can hold: then the write raises, and the ledger stays as it was.
WriteLedger(t) ==
    /\ pc[t] = "write"
    /\ LET step == Next1(t)
           book == After(copy[t], step)
           accepted == Accepts(copy[t], step)
           taken == accepted /\ BackendTakes(book, {step.rec.id})
       IN \/ /\ taken
             /\ ledger' = book
             /\ ledgerLock' = IF ledgerLock = t THEN NoThread ELSE ledgerLock
             /\ copy' = [copy EXCEPT ![t] = Nothing]
             /\ Proceed(t)
             /\ UNCHANGED <<keyLock, kept, request, number, noted, answers, raised, refused>>
          \/ /\ taken => request[t].op = "run"
             /\ Fail(t)
             /\ raised' = raised \cup {number[t]}
             /\ refused' = IF accepted /\ ~taken THEN refused \cup {number[t]} ELSE refused
             /\ UNCHANGED ledger
    /\ UNCHANGED <<scoped, mirrors, executed, received, broken, crashes>>

\* query: the rows of the scope, the first MaxQuery of them.
Page(rows, scope) ==
    LET Mine(k) == {i \in 1..k : rows[i].rec.scope = scope}
    IN {rows[i].rec : i \in {i \in Mine(Len(rows)) : Cardinality(Mine(i)) <= MaxQuery}}

\* query, for one collection of a snapshot, in the scope of the caller.
ListCollection(t) ==
    /\ Ready(t, {"list"})
    /\ copy' = [copy EXCEPT ![t] =
           [c \in ToSet(Collections) |->
               IF c = Next1(t).coll THEN Page(ledger[c], Caller(request[t]).scope)
               ELSE IF @ = Nothing THEN {} ELSE @[c]]]
    /\ Proceed(t)
    /\ UNCHANGED <<ledger, scoped, lockVars, kept, mirrors, executed, request, number, noted,
                   received, answers, broken, raised, refused, crashes>>

-----------------------------------------------------------------------------
\* A GRDI operation: its row, or the one that is there already, or 404.
CommitDecision(t) ==
    /\ Ready(t, {"commit"})
    /\ LET step == Next1(t)
           scope == Caller(request[t]).scope
           seen == {row \in scoped : row.scope = scope}
           id == RowId(seen, step)
       IN \/ /\ \A need \in step.rec.refs : need[2] \in Rows(seen, need[1])
             /\ scoped' = IF id \in Rows(seen, step.coll) THEN scoped
                          ELSE scoped \cup {[coll |-> step.coll, id |-> id, scope |-> scope,
                                             by |-> number[t], key |-> request[t].key]}
             /\ Proceed(t)
             /\ UNCHANGED <<lockVars, kept, request, number, copy, noted, answers>>
          \/ /\ \E need \in step.rec.refs : need[2] \notin Rows(seen, need[1])
             /\ Fail(t)
             /\ UNCHANGED scoped
    /\ UNCHANGED <<ledger, mirrors, executed, received, broken, raised, refused, crashes>>

-----------------------------------------------------------------------------
(* The executor, the sandbox, and the mirrors of decisions and simulations.             *)

\* An executor acts or does not, and then returns or raises; so does run when what
\* it returns has no get.  The connectors of the sandbox are made up, and never raise.
Execute(t) ==
    /\ Ready(t, {"execute"})
    /\ \/ /\ executed' = executed \cup {Next1(t).rec.id}
          /\ Proceed(t)
          /\ UNCHANGED <<lockVars, kept, request, number, copy, noted, answers, raised>>
       \/ /\ request[t].op = "run"
          /\ executed' \in {executed, executed \cup {Next1(t).rec.id}}
          /\ Fail(t)
          /\ raised' = raised \cup {number[t]}
    /\ UNCHANGED <<ledger, scoped, mirrors, received, broken, refused, crashes>>

\* The sandbox first looks for a receipt under the key, and finds none.
ConsultReceipts(t) ==
    /\ Ready(t, {"consult"})
    /\ \/ /\ mirrors[Next1(t).coll] # Torn
          /\ Proceed(t)
          /\ UNCHANGED <<lockVars, kept, request, number, copy, noted, answers>>
       \/ mirrors[Next1(t).coll] = Torn /\ Fail(t)
    /\ UNCHANGED <<ledger, scoped, mirrors, executed, received, broken, raised, refused, crashes>>

\* The child process of an isolated sandbox is terminated when it takes too long.
Terminate(t) ==
    /\ pc[t] \in {"work", "truncate", "fill"} /\ left[t] # << >>
    /\ request[t].op = "sandbox" /\ request[t].isolated
    /\ Fail(t)
    /\ UNCHANGED <<ledger, scoped, mirrors, executed, received, broken, raised, refused, crashes>>

\* A file that another thread, or a crash, left half written does not parse.
ReadMirror(t) ==
    /\ Ready(t, {"mirror"})
    /\ \/ /\ mirrors[Next1(t).coll] # Torn
          /\ noted' = [noted EXCEPT ![t] = mirrors[Next1(t).coll]]
          /\ Goto(t, "truncate")
          /\ UNCHANGED <<lockVars, kept, request, number, left, copy, answers>>
       \/ mirrors[Next1(t).coll] = Torn /\ Fail(t)
    /\ UNCHANGED <<ledger, scoped, mirrors, executed, received, broken, raised, refused, crashes>>

\* write_text opens the file, which empties it,
TruncateMirror(t) ==
    /\ pc[t] = "truncate"
    /\ mirrors' = [mirrors EXCEPT ![Next1(t).coll] = Torn]
    /\ Goto(t, "fill")
    /\ UNCHANGED <<ledger, scoped, lockVars, kept, executed, request, number, left, copy, noted,
                   received, answers, broken, raised, refused, crashes>>

\* and writes from its start, over whatever another wrote since.
FillMirror(t) ==
    /\ pc[t] = "fill"
    /\ \E now \in {noted[t] \cup {Next1(t).rec.id}}
                 \cup (IF mirrors[Next1(t).coll] = Torn THEN {} ELSE {Torn}) :
            mirrors' = [mirrors EXCEPT ![Next1(t).coll] = now]
    /\ noted' = [noted EXCEPT ![t] = {}]
    /\ Proceed(t)
    /\ UNCHANGED <<ledger, scoped, lockVars, kept, executed, request, number, copy,
                   received, answers, broken, raised, refused, crashes>>

-----------------------------------------------------------------------------
Busy == {t \in Threads : pc[t] # "idle"}

\* The process dies and starts again: the files stay as they are.
Crash ==
    /\ crashes < MaxCrashes /\ Busy # {}
    /\ crashes' = crashes + 1
    /\ broken' = broken \cup {number[t] : t \in Busy}
    /\ pc' = [t \in Threads |-> "idle"]
    /\ request' = [t \in Threads |-> Nothing]
    /\ number' = [t \in Threads |-> 0]
    /\ left' = [t \in Threads |-> << >>]
    /\ copy' = [t \in Threads |-> Nothing]
    /\ noted' = [t \in Threads |-> {}]
    /\ ledgerLock' = NoThread /\ keyLock' = NoThread
    /\ UNCHANGED <<ledger, scoped, kept, mirrors, executed, received, answers, raised, refused>>

Serve(t) ==
    \/ Look(t) \/ Acquire(t) \/ Answer(t)
    \/ ReadLedger(t) \/ WriteLedger(t) \/ ListCollection(t)
    \/ CommitDecision(t) \/ Execute(t) \/ ConsultReceipts(t) \/ ReadMirror(t) \/ TruncateMirror(t) \/ FillMirror(t)

Next == Crash \/ \E t \in Threads : Receive(t) \/ Serve(t) \/ Terminate(t)

Spec == Init /\ [][Next]_vars

\* A thread goes on as long as nothing it waits for is held.
FairSpec == Spec /\ \A t \in Threads : WF_vars(Serve(t))

-----------------------------------------------------------------------------
RowsOf(c) == RecordsOf(ledger, c)
AppendedBy(r, n) ==
    {<<s.coll, s.rec.id>> : s \in {s \in ToSet(Steps(r, n)) : s.act \in {"append", "verify"}}}
CommittedBy(r, n) == {s \in ToSet(Steps(r, n)) : s.act = "commit" /\ s.coll # "replays"}
SameKey(r, q) ==
    /\ r.key # NoKey /\ r.key = q.key /\ r.op = q.op
    /\ Caller(r).scope = Caller(q).scope

\* What the ledger holds can be verified at any time, whoever writes it and
\* wherever the process dies: GET /ledger/integrity never reports a broken chain
\* although verifications rewrite claims in the middle of theirs.
ChainVerifies == Verifies(ledger)

\* A claim is what its verifications make of it: they and the evidence they cite
\* are in the ledger, the claim has all of that evidence, and its status is the
\* result of the last one, though threads rewrite the ledger from their copies.
StatusFollowsVerifications == ClaimsFollow(ledger)

\* Requests of one scope with one key agree: all the answers they get are that of
\* one operation, of the same body, and the rows it tells of are in the ledger,
\* in that scope.  Only a crash before the answer was kept makes a retry do the
\* work again: of two new GRDI rows under one key, one is of a broken request.
AnswersHold ==
    /\ \A a, b \in answers : SameKey(a.request, b.request) => a.number = b.number
    /\ \A a \in answers :
          /\ \A row \in AppendedBy(a.request, a.number) : row[2] \in IdsIn(ledger[row[1]])
          /\ \A s \in CommittedBy(a.request, a.number) :
                \E row \in scoped : /\ row.coll = s.coll /\ row.id = s.rec.id
                                    /\ row.scope = Caller(a.request).scope
    /\ \A x, y \in scoped :
          /\ x # y /\ x.coll = y.coll /\ x.coll \in {"envelopes", "decisions", "plans"}
          /\ x.scope = y.scope /\ x.key = y.key /\ x.key # NoKey
          => {x.by, y.by} \cap broken # {}

\* An executor acts only on an action whose decision to allow it is recorded, and
\* the outcomes say what was carried out.  Of an action that was, the ledger has the
\* outcome, unless its request is still served, or was ended by a crash, by its
\* executor, which may raise once it has acted, or by the write of the outcome: these
\* leave an effect in the world that no outcome tells of, and nothing else does.  The
\* sandbox calls a connector only when two different people approved, in any order.
ExecutionAccountedFor ==
    /\ OutcomesAgree(ledger, executed)
    /\ \A a \in answers :
          a.request.op = "sandbox" /\ Id(a.number, "ticket", 1) \in executed =>
              \E i, j \in DOMAIN a.request.approvals :
                  a.request.approvals[i] # a.request.approvals[j]
    /\ \A action \in {id \in executed : id[2] = "action"} :
          /\ Allowed(ledger, action)
          /\ \/ action[1] \in broken \cup raised \cup {number[t] : t \in Threads}
             \/ \E outcome \in RowsOf("outcomes") : outcome.about = action

\* HAV allows an output only when each claim it found in it was verified with
\* evidence, and all of that is in the ledger before the decision is.
AllowedOutputIsSupported == OutputsSupported(ledger)

\* snapshot lists the collections one after the other while others write, and yet
\* whatever explains a claim that it lists is in it, as far as query reaches: the
\* evidence of the claim, and the verification that gave it its status, unless they
\* are of another scope, which record_verification allows, or come after the first
\* MaxQuery rows of theirs.  It lists the claims first.  (Of an outcome it may not
\* tell the action, which comes before it in COLLECTIONS.)
SnapshotExplainsClaims ==
    \A t \in Threads :
        pc[t] = "work" /\ request[t].op = "snapshot" /\ left[t] = << >> =>
            LET Reach(c) == Page(ledger[c], Caller(request[t]).scope)
            IN \A claim \in copy[t]["claims"] :
                /\ \A e \in Reach("evidence") : e.id \in claim.refs => e \in copy[t]["evidence"]
                /\ claim.state # "proposed" =>
                     \E v \in RowsOf("verifications") :
                         /\ v.about = claim.id /\ v.state = claim.state
                         /\ v \in Reach("verifications") => v \in copy[t]["verifications"]

\* Every request ends, also the one that fails under the lock of the keys.
RequestsEnd == \A t \in Threads : pc[t] # "idle" ~> pc[t] = "idle"

\* ADR-004:13: "The protocol no longer depends on a file format": the backend takes
\* every row that the protocol makes.
BackendKeepsTheProtocol == refused = {}
=============================================================================
