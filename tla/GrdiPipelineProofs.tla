------------------------- MODULE GrdiPipelineProofs -------------------------
(***************************************************************************)
(* What TLAPS proves of GrdiPipeline for every set of workers and ids,     *)
(* every form of envelope, every authoriser and every legacy ledger that   *)
(* obeys LegacyAssumption; and of GrdiReplay, at the end, for every set of *)
(* auditors as well and every row that may be damaged.                     *)
(***************************************************************************)
EXTENDS GrdiReplay, TLAPS, FiniteSetTheorems

(***************************************************************************)
(* The records the operations build are records of their collections.      *)
(***************************************************************************)
LEMMA RecordsTyped ==
    ASSUME TypeOK, NEW c \in Collections
    PROVE  \A x \in Records(c) : x \in RecordOf[c]
BY DEF TypeOK, WellFormed, Records, RecordsIn, Group

LEMMA ReceiptIds ==
    ASSUME TypeOK, NEW p
    PROVE  \A r \in Keyed(rows, "shadow_execution_receipts", p) :
              r.rec \in RecordOf["shadow_execution_receipts"] /\ r.rec.id \in Receipts
<1>1. \A r \in Keyed(rows, "shadow_execution_receipts", p) :
         r.rec \in RecordOf["shadow_execution_receipts"]
    BY DEF TypeOK, WellFormed, Keyed, Group
<1> QED
    BY <1>1 DEF RecordOf

LEMMA EnvelopeWriteTyped ==
    ASSUME NEW e \in Envelopes, NEW form \in Forms
    PROVE  WellFormed(EnvelopeWrite(e, form))
BY DEF WellFormed, EnvelopeWrite, Write, RecordOf, KeyOf, Collections

LEMMA AuthorizationTyped ==
    ASSUME NEW form, NEW by
    PROVE  Authorization(form, by) \in {"AUTHORIZED", "NOT_AUTHORIZED", "REQUIRES_APPROVAL"}
BY DEF Authorization

LEMMA AuthorityWriteTyped ==
    ASSUME NEW d \in Decisions, NEW e \in RecordOf["decision_envelopes"], NEW by \in Authorizers
    PROVE  WellFormed(AuthorityWrite(d, e, by))
<1>1. e.id \in Envelopes
    BY DEF RecordOf
<1>2. Verified(e.form) \in BOOLEAN
    BY DEF Verified
<1> QED
    BY <1>1, <1>2, AuthorizationTyped
    DEF WellFormed, AuthorityWrite, Write, RecordOf, KeyOf, Collections

LEMMA ReceiptWriteTyped ==
    ASSUME NEW id \in Receipts, NEW q \in RecordOf["execution_requests"]
    PROVE  WellFormed(ReceiptWrite(id, q))
BY DEF WellFormed, ReceiptWrite, Write, RecordOf, KeyOf, Collections

LEMMA EventWritesTyped ==
    ASSUME NEW p \in Plans
    PROVE  /\ WellFormed(CreatedWrite(p))
           /\ \A r \in Receipts : WellFormed(SimulatedWrite(p, r))
<1>1. /\ CreatedKey(p) \in UNION {{CreatedKey(x), SimulatedKey(x)} : x \in Plans}
      /\ SimulatedKey(p) \in UNION {{CreatedKey(x), SimulatedKey(x)} : x \in Plans}
    OBVIOUS
<1>2. ASSUME NEW k, NEW source \in Plans \cup Receipts,
             k \in UNION {{CreatedKey(x), SimulatedKey(x)} : x \in Plans}
      PROVE  WellFormed(EventWrite(k, source))
    BY <1>2 DEF WellFormed, EventWrite, Write, RecordOf, KeyOf, Collections
<1> QED
    BY <1>1, <1>2 DEF CreatedWrite, SimulatedWrite

LEMMA OutcomeWriteTyped ==
    ASSUME NEW id \in Outcomes, NEW q \in RecordOf["execution_requests"],
           NEW r \in Receipts, NEW assessed \in Assessments
    PROVE  WellFormed(OutcomeWrite(id, q, r, assessed))
<1>1. q.id \in Plans
    BY DEF RecordOf
<1>2. Aggregate(q.effects, assessed) \in {"NOT_EVALUATED", "DEVIATED", "CONSISTENT"}
    BY DEF Aggregate
<1> QED
    BY <1>1, <1>2 DEF WellFormed, OutcomeWrite, Write, RecordOf, KeyOf, Collections

-----------------------------------------------------------------------------
(***************************************************************************)
(* Typing.  An operation starts with well-formed writes, and a callback    *)
(* replaces them by well-formed writes.                                    *)
(***************************************************************************)
LEMMA NoOpTyped == NoOp \in Operations
BY DEF NoOp, Operations, Kinds

LEMMA StartType ==
    ASSUME TypeOK, NEW w \in Workers, NEW o \in Operations, NEW writes, NEW next \in Phases,
           \A i \in DOMAIN writes : WellFormed(writes[i]),
           Start(w, o, writes, next)
    PROVE  TypeOK'
BY DEF TypeOK, Start, WellFormed

LEMMA WroteType ==
    ASSUME TypeOK, NEW w \in Workers, NEW writes,
           \A i \in DOMAIN writes : WellFormed(writes[i]),
           Wrote(w, writes)
    PROVE  TypeOK'
BY DEF TypeOK, Wrote, WellFormed, Phases

LEMMA StartsType ==
    ASSUME TypeOK, NEW w \in Workers,
           \/ Register(w) \/ Authorize(w) \/ CreatePlan(w) \/ Simulate(w)
           \/ RecordOutcome(w) \/ ViewPlan(w) \/ Backfill(w)
    PROVE  TypeOK'
<1>0. /\ {"waiting", "reading"} \subseteq Phases
      /\ \A c \in Collections : \A x \in Records(c) : x \in RecordOf[c]
    BY RecordsTyped DEF Phases
<1>1. CASE Register(w)
  <2>1. PICK e \in Envelopes, form \in Forms :
           Start(w, [NoOp EXCEPT !.kind = "register", !.envelope = e],
                 <<EnvelopeWrite(e, form)>>, "waiting")
    BY <1>1 DEF Register, Fresh
  <2>2. [NoOp EXCEPT !.kind = "register", !.envelope = e] \in Operations
    BY DEF NoOp, Operations, Kinds
  <2>3. \A i \in DOMAIN <<EnvelopeWrite(e, form)>> : WellFormed(<<EnvelopeWrite(e, form)>>[i])
    BY EnvelopeWriteTyped
  <2> QED
    BY <1>0, <2>1, <2>2, <2>3, StartType
<1>2. CASE Authorize(w)
  <2>1. PICK e \in Records("decision_envelopes"), d \in Decisions, by \in Authorizers :
           Start(w, [NoOp EXCEPT !.kind = "authorize", !.envelope = e.id, !.decision = d],
                 <<AuthorityWrite(d, e, by)>>, "waiting")
    BY <1>2 DEF Authorize, Fresh
  <2>2. e \in RecordOf["decision_envelopes"]
    BY <1>0 DEF Collections
  <2>3. [NoOp EXCEPT !.kind = "authorize", !.envelope = e.id, !.decision = d] \in Operations
    BY <2>2 DEF NoOp, Operations, Kinds, RecordOf
  <2>4. \A i \in DOMAIN <<AuthorityWrite(d, e, by)>> : WellFormed(<<AuthorityWrite(d, e, by)>>[i])
    BY <2>2, AuthorityWriteTyped
  <2> QED
    BY <1>0, <2>1, <2>3, <2>4, StartType
<1>3. CASE CreatePlan(w)
  <2>1. PICK e \in Records("decision_envelopes"), d \in Records("authority_decisions"),
             p \in Plans, ask \in Requests :
           LET q == [id |-> p, envelope |-> e.id, decision |-> d.id,
                     action |-> ask.action, effects |-> ask.effects]
               gateway == [id |-> p, eligible |-> Eligible(e, d, q), simulated |-> FALSE]
           IN  Start(w, [NoOp EXCEPT !.kind = "plan", !.envelope = e.id,
                                     !.decision = d.id, !.plan = p],
                     <<Write("execution_requests", p, q),
                       Write("gateway_decisions", p, gateway),
                       CreatedWrite(p)>>, "waiting")
    BY <1>3 DEF CreatePlan, Fresh
  <2> DEFINE q == [id |-> p, envelope |-> e.id, decision |-> d.id,
                   action |-> ask.action, effects |-> ask.effects]
             gateway == [id |-> p, eligible |-> Eligible(e, d, q), simulated |-> FALSE]
             writes == <<Write("execution_requests", p, q),
                         Write("gateway_decisions", p, gateway), CreatedWrite(p)>>
  <2>2. e.id \in Envelopes /\ d.id \in Decisions
    BY <1>0 DEF Collections, RecordOf
  <2>3. [NoOp EXCEPT !.kind = "plan", !.envelope = e.id, !.decision = d.id, !.plan = p]
           \in Operations
    BY <2>2 DEF NoOp, Operations, Kinds
  <2>4. WellFormed(Write("execution_requests", p, q))
    BY <2>2 DEF WellFormed, Write, RecordOf, KeyOf, Collections
  <2>5. Eligible(e, d, q) \in BOOLEAN
    BY DEF Eligible
  <2>6. WellFormed(Write("gateway_decisions", p, gateway))
    BY <2>5 DEF WellFormed, Write, RecordOf, KeyOf, Collections
  <2>7. \A i \in DOMAIN writes : WellFormed(writes[i])
    BY <2>4, <2>6, EventWritesTyped
  <2> QED
    BY <1>0, <2>1, <2>3, <2>7, StartType
<1>4. CASE Simulate(w)
  <2>1. PICK q \in Records("execution_requests") :
           Start(w, [NoOp EXCEPT !.kind = "simulate", !.plan = q.id, !.decision = q.decision],
                 << >>, "waiting")
    BY <1>4 DEF Simulate
  <2>2. [NoOp EXCEPT !.kind = "simulate", !.plan = q.id, !.decision = q.decision] \in Operations
    BY <1>0 DEF NoOp, Operations, Kinds, RecordOf, Collections
  <2> QED
    BY <1>0, <2>1, <2>2, StartType
<1>5. CASE RecordOutcome(w)
  <2>1. PICK q \in Records("execution_requests"), assessed \in Assessments :
           Start(w, [NoOp EXCEPT !.kind = "outcome", !.plan = q.id, !.assessed = assessed],
                 << >>, "reading")
    BY <1>5 DEF RecordOutcome
  <2>2. [NoOp EXCEPT !.kind = "outcome", !.plan = q.id, !.assessed = assessed] \in Operations
    BY <1>0 DEF NoOp, Operations, Kinds, RecordOf, Collections
  <2> QED
    BY <1>0, <2>1, <2>2, StartType
<1>6. CASE ViewPlan(w)
  <2>1. PICK q \in Records("execution_requests") :
           Start(w, [NoOp EXCEPT !.kind = "view", !.plan = q.id], << >>, "reading")
    BY <1>6 DEF ViewPlan
  <2>2. [NoOp EXCEPT !.kind = "view", !.plan = q.id] \in Operations
    BY <1>0 DEF NoOp, Operations, Kinds, RecordOf, Collections
  <2> QED
    BY <1>0, <2>1, <2>2, StartType
<1>7. CASE Backfill(w)
  <2>1. PICK g \in Records("gateway_decisions") :
           Start(w, [NoOp EXCEPT !.kind = "backfill", !.plan = g.id], << >>, "waiting")
    BY <1>7 DEF Backfill
  <2>2. [NoOp EXCEPT !.kind = "backfill", !.plan = g.id] \in Operations
    BY <1>0 DEF NoOp, Operations, Kinds, RecordOf, Collections
  <2> QED
    BY <1>0, <2>1, <2>2, StartType
<1> QED
    BY <1>1, <1>2, <1>3, <1>4, <1>5, <1>6, <1>7

LEMMA ReadType ==
    ASSUME TypeOK, NEW w \in Workers, Read(w)
    PROVE  TypeOK'
<1> DEFINE o == op[w]
           receipts == {r.rec.id : r \in Keyed(rows, "shadow_execution_receipts", o.plan)}
           got == IF Reads(w) = "events" THEN [o EXCEPT !.simulated = ShownSimulated(o.plan)]
                  ELSE [o EXCEPT !.receipt = IF receipts = {} THEN NoId
                                             ELSE CHOOSE id \in receipts : TRUE]
<1>1. o \in Operations
    BY DEF TypeOK
<1>2. receipts \subseteq Receipts
    BY ReceiptIds
<1>3. ShownSimulated(o.plan) \in BOOLEAN
    BY DEF ShownSimulated
<1>4. receipts # {} => (CHOOSE id \in receipts : TRUE) \in Receipts
    BY <1>2
<1> HIDE DEF receipts
<1>5. got \in Operations
    BY <1>1, <1>3, <1>4 DEF Operations
<1>6. \/ phase' = [phase EXCEPT ![w] = "idle"] /\ op' = [op EXCEPT ![w] = NoOp]
      \/ /\ phase' = [phase EXCEPT ![w] = IF @ = "reading" THEN "rereading"
                                           ELSE IF o.kind = "outcome" THEN "waiting"
                                           ELSE "returned"]
         /\ op' = [op EXCEPT ![w] = got]
    BY DEF Read, receipts
<1>7. UNCHANGED <<rows, draft>>
    BY DEF Read
<1> HIDE DEF got, o
<1>8. phase' \in [Workers -> Phases]
    BY <1>6 DEF TypeOK, Phases
<1>9. op' \in [Workers -> Operations]
    BY <1>5, <1>6, NoOpTyped DEF TypeOK
<1> QED
    BY <1>7, <1>8, <1>9 DEF TypeOK

(* An outcome is written from what was read: the receipt was there.        *)
OutcomesPrepared ==
    \A w \in Workers :
        op[w].kind = "outcome" =>
            /\ op[w].assessed \in Assessments
            /\ phase[w] \in {"waiting", "open", "ready"} => op[w].receipt \in Receipts

LEMMA CallbackType ==
    ASSUME TypeOK, OutcomesPrepared, NEW w \in Workers,
           WritePrepared(w) \/ SimulateCallback(w) \/ OutcomeCallback(w) \/ BackfillCallback(w)
    PROVE  TypeOK'
<1>0. \A c \in Collections : \A x \in Records(c) : x \in RecordOf[c]
    BY RecordsTyped
<1>1. CASE WritePrepared(w)
  <2>1. \A i \in DOMAIN draft[w] : WellFormed(draft[w][i])
    BY DEF TypeOK
  <2> QED
    BY <1>1, <2>1 DEF WritePrepared, Wrote, TypeOK, WellFormed, Phases
<1>2. CASE SimulateCallback(w)
  <2>1. PICK q \in Records("execution_requests") :
           LET stored == Keyed(rows, "shadow_execution_receipts", q.id)
           IN  \/ \E r \in stored : Wrote(w, <<SimulatedWrite(q.id, r.rec.id)>>)
               \/ \E id \in Fresh(Receipts) :
                      Wrote(w, <<ReceiptWrite(id, q), SimulatedWrite(q.id, id)>>)
    BY <1>2 DEF SimulateCallback
  <2>2. q \in RecordOf["execution_requests"] /\ q.id \in Plans
    BY <1>0 DEF Collections, RecordOf
  <2>3. CASE \E r \in Keyed(rows, "shadow_execution_receipts", q.id) :
               Wrote(w, <<SimulatedWrite(q.id, r.rec.id)>>)
    <3>1. PICK r \in Keyed(rows, "shadow_execution_receipts", q.id) :
             Wrote(w, <<SimulatedWrite(q.id, r.rec.id)>>)
      BY <2>3
    <3>2. r.rec.id \in Receipts
      BY ReceiptIds
    <3>3. \A i \in DOMAIN <<SimulatedWrite(q.id, r.rec.id)>> :
             WellFormed(<<SimulatedWrite(q.id, r.rec.id)>>[i])
      BY <2>2, <3>2, EventWritesTyped
    <3> QED
      BY <3>1, <3>3, WroteType
  <2>4. CASE \E id \in Fresh(Receipts) :
               Wrote(w, <<ReceiptWrite(id, q), SimulatedWrite(q.id, id)>>)
    <3>1. PICK id \in Receipts : Wrote(w, <<ReceiptWrite(id, q), SimulatedWrite(q.id, id)>>)
      BY <2>4 DEF Fresh
    <3>2. \A i \in DOMAIN <<ReceiptWrite(id, q), SimulatedWrite(q.id, id)>> :
             WellFormed(<<ReceiptWrite(id, q), SimulatedWrite(q.id, id)>>[i])
      BY <2>2, ReceiptWriteTyped, EventWritesTyped
    <3> QED
      BY <3>1, <3>2, WroteType
  <2> QED
    BY <2>1, <2>3, <2>4
<1>3. CASE OutcomeCallback(w)
  <2>1. CASE Wrote(w, << >>)
    BY <2>1, WroteType
  <2>2. CASE \E q \in Records("execution_requests"), id \in Fresh(Outcomes) :
               Wrote(w, <<OutcomeWrite(id, q, op[w].receipt, op[w].assessed)>>)
    <3>1. PICK q \in Records("execution_requests"), id \in Outcomes :
             Wrote(w, <<OutcomeWrite(id, q, op[w].receipt, op[w].assessed)>>)
      BY <2>2 DEF Fresh
    <3>2. q \in RecordOf["execution_requests"]
      BY <1>0 DEF Collections
    <3>3. op[w].receipt \in Receipts /\ op[w].assessed \in Assessments
      BY <1>3 DEF OutcomeCallback, OutcomesPrepared
    <3> DEFINE write == OutcomeWrite(id, q, op[w].receipt, op[w].assessed)
    <3>4. WellFormed(write)
      BY <3>2, <3>3, OutcomeWriteTyped
    <3>5. \A i \in DOMAIN <<write>> : WellFormed(<<write>>[i])
      BY <3>4
    <3> QED
      BY <3>1, <3>5, WroteType
  <2> QED
    BY <1>3, <2>1, <2>2 DEF OutcomeCallback
<1>4. CASE BackfillCallback(w)
  <2>1. PICK g \in Records("gateway_decisions") :
           \/ Wrote(w, <<CreatedWrite(g.id)>>)
           \/ \E r \in Keyed(rows, "shadow_execution_receipts", g.id) :
                  Wrote(w, <<CreatedWrite(g.id), SimulatedWrite(g.id, r.rec.id)>>)
    BY <1>4 DEF BackfillCallback
  <2>2. g.id \in Plans
    BY <1>0 DEF Collections, RecordOf
  <2>3. CASE Wrote(w, <<CreatedWrite(g.id)>>)
    <3>1. \A i \in DOMAIN <<CreatedWrite(g.id)>> : WellFormed(<<CreatedWrite(g.id)>>[i])
      BY <2>2, EventWritesTyped
    <3> QED
      BY <2>3, <3>1, WroteType
  <2>4. CASE \E r \in Keyed(rows, "shadow_execution_receipts", g.id) :
               Wrote(w, <<CreatedWrite(g.id), SimulatedWrite(g.id, r.rec.id)>>)
    <3>1. PICK r \in Keyed(rows, "shadow_execution_receipts", g.id) :
             Wrote(w, <<CreatedWrite(g.id), SimulatedWrite(g.id, r.rec.id)>>)
      BY <2>4
    <3>2. r.rec.id \in Receipts
      BY ReceiptIds
    <3>3. \A i \in DOMAIN <<CreatedWrite(g.id), SimulatedWrite(g.id, r.rec.id)>> :
             WellFormed(<<CreatedWrite(g.id), SimulatedWrite(g.id, r.rec.id)>>[i])
      BY <2>2, <3>2, EventWritesTyped
    <3> QED
      BY <3>1, <3>3, WroteType
  <2> QED
    BY <2>1, <2>3, <2>4
<1> QED
  BY <1>1, <1>2, <1>3, <1>4

(***************************************************************************)
(* A commit adds rows, each with the record of one of its writes.          *)
(***************************************************************************)
LEMMA PublishedRows ==
    ASSUME NEW R, NEW d
    PROVE  /\ R \subseteq Published(R, d)
           /\ \A r \in Published(R, d) \ R :
                 \E i \in NewWrites(R, d) :
                    r.coll = d[i].coll /\ r.key = d[i].key /\ r.rec = d[i].rec
<1> DEFINE Number(i) ==
        Cardinality(Group(R, d[i].coll))
        + Cardinality({j \in NewWrites(R, d) : j <= i /\ d[j].coll = d[i].coll})
           RowAt(i) == [coll |-> d[i].coll, key |-> d[i].key, rec |-> d[i].rec, seq |-> Number(i)]
<1>1. Published(R, d) = R \cup {RowAt(i) : i \in NewWrites(R, d)}
  BY Zenon DEF Published
<1> HIDE DEF Number
<1> QED
  BY <1>1

LEMMA CommitType ==
    ASSUME TypeOK, NEW w \in Workers, Commit(w)
    PROVE  TypeOK'
<1>1. \A r \in rows' : WellFormed(r)
  <2>1. \A r \in Published(rows, draft[w]) : WellFormed(r)
    BY PublishedRows DEF TypeOK, WellFormed, NewWrites
  <2> QED
    BY <2>1 DEF Commit, TypeOK
<1>2. phase' \in [Workers -> Phases]
  BY DEF Commit, TypeOK, Phases
<1>3. /\ draft' = [v \in Workers |-> draft'[v]]
      /\ \A v \in Workers : \A i \in DOMAIN draft'[v] : WellFormed(draft'[v][i])
  BY DEF Commit, TypeOK
<1> QED
  BY <1>1, <1>2, <1>3 DEF Commit, TypeOK, WellFormed

LEMMA LockEndType ==
    ASSUME TypeOK, NEW w \in Workers, Lock(w) \/ Return(w) \/ Abort(w)
    PROVE  TypeOK'
<1>1. CASE Lock(w)
  BY <1>1 DEF Lock, TypeOK, Phases, WellFormed
<1>2. CASE End(w)
  BY <1>2, NoOpTyped DEF End, TypeOK, Phases, WellFormed
<1> QED
  BY <1>1, <1>2 DEF Return, Abort

LEMMA WorkType ==
    ASSUME TypeOK, OutcomesPrepared, NEW w \in Workers, Work(w)
    PROVE  TypeOK'
BY StartsType, ReadType, CallbackType, CommitType, LockEndType DEF Work

\* create_execution_plan prepares the plan, what the gateway says of it and its event.
LEMMA PlanStarts ==
    ASSUME NEW w \in Workers, CreatePlan(w)
    PROVE  \E p \in Fresh(Plans) : \E o, q, gateway :
              /\ o.kind = "plan" /\ o.plan = p /\ q.id = p /\ o.simulated = FALSE
              /\ GatewayGrounded(rows, q, gateway)
              /\ Start(w, o, <<Write("execution_requests", p, q),
                               Write("gateway_decisions", p, gateway),
                               CreatedWrite(p)>>, "waiting")
<1>1. PICK e \in Records("decision_envelopes"), d \in Records("authority_decisions"),
           p \in Fresh(Plans), ask \in Requests :
        LET q == [id |-> p, envelope |-> e.id, decision |-> d.id,
                  action |-> ask.action, effects |-> ask.effects]
            gateway == [id |-> p, eligible |-> Eligible(e, d, q), simulated |-> FALSE]
        IN  Start(w, [NoOp EXCEPT !.kind = "plan", !.envelope = e.id,
                                  !.decision = d.id, !.plan = p],
                  <<Write("execution_requests", p, q),
                    Write("gateway_decisions", p, gateway),
                    CreatedWrite(p)>>, "waiting")
  BY Zenon DEF CreatePlan
<1> DEFINE o == [NoOp EXCEPT !.kind = "plan", !.envelope = e.id, !.decision = d.id, !.plan = p]
           q == [id |-> p, envelope |-> e.id, decision |-> d.id,
                 action |-> ask.action, effects |-> ask.effects]
           gateway == [id |-> p, eligible |-> Eligible(e, d, q), simulated |-> FALSE]
<1>2. o.kind = "plan" /\ o.plan = p /\ o.simulated = FALSE
  BY DEF NoOp
<1>3. q.id = p /\ GatewayGrounded(rows, q, gateway)
  BY DEF GatewayGrounded, Records
<1>4. Start(w, o, <<Write("execution_requests", p, q), Write("gateway_decisions", p, gateway),
                    CreatedWrite(p)>>, "waiting")
  BY <1>1
<1> HIDE DEF o, q, gateway
<1> QED
  BY <1>2, <1>3, <1>4

LEMMA StartPrepared ==
    ASSUME TypeOK, OutcomesPrepared, NEW w \in Workers, NEW o, NEW writes, NEW next,
           o.kind = "outcome" => o.assessed \in Assessments /\ next = "reading",
           Start(w, o, writes, next)
    PROVE  OutcomesPrepared'
BY DEF OutcomesPrepared, Start, TypeOK

LEMMA ReadPrepared ==
    ASSUME TypeOK, OutcomesPrepared, NEW w \in Workers, Read(w)
    PROVE  OutcomesPrepared'
<1> SUFFICES ASSUME NEW v \in Workers, op'[v].kind = "outcome"
             PROVE  /\ op'[v].assessed \in Assessments
                    /\ phase'[v] \in {"waiting", "open", "ready"} => op'[v].receipt \in Receipts
  BY DEF OutcomesPrepared
<1>1. CASE v # w
  BY <1>1 DEF Read, OutcomesPrepared, TypeOK
<1>2. CASE v = w /\ op'[w].kind = "outcome"
  <2> DEFINE o == op[w]
             receipts == {r.rec.id : r \in Keyed(rows, "shadow_execution_receipts", o.plan)}
             got == IF Reads(w) = "events" THEN [o EXCEPT !.simulated = ShownSimulated(o.plan)]
                    ELSE [o EXCEPT !.receipt = IF receipts = {} THEN NoId
                                               ELSE CHOOSE id \in receipts : TRUE]
             missed == IF Reads(w) = "events" THEN ~got.simulated ELSE got.receipt = NoId
  <2>1. o \in Operations /\ phase[w] \in Phases
    BY DEF TypeOK
  <2>2. \/ op'[w] = NoOp
        \/ /\ ~(o.kind = "outcome" /\ missed)
           /\ phase[w] = "reading" => phase'[w] = "rereading"
           /\ op'[w] = got
    BY DEF Read, TypeOK
  <2>3. NoOp.kind # "outcome"
    BY DEF NoOp
  <2>4. /\ ~(o.kind = "outcome" /\ missed)
        /\ phase[w] = "reading" => phase'[w] = "rereading"
        /\ op'[w] = got
    BY <1>2, <2>2, <2>3
  <2>5. phase[w] # "reading" => Reads(w) = "receipt"
    BY DEF Reads, ReadOrder
  <2>6. receipts \subseteq Receipts
    BY ReceiptIds
  <2>7. receipts # {} => (CHOOSE id \in receipts : TRUE) \in Receipts
    BY <2>6
  <2> HIDE DEF receipts, o
  <2>8. got.kind = o.kind /\ got.assessed = o.assessed
    BY <2>1 DEF Operations
  <2>9. op[w].kind = "outcome" /\ op'[w].assessed = op[w].assessed
    BY <1>2, <2>4, <2>8 DEF o
  <2>10. phase[w] # "reading" => got.receipt \in Receipts
    <3> SUFFICES ASSUME phase[w] # "reading" PROVE got.receipt \in Receipts
      OBVIOUS
    <3>1. Reads(w) # "events"
      BY <2>5
    <3>2. got.receipt # NoId
      BY <2>4, <2>9, <3>1 DEF o
    <3>3. \/ got = [o EXCEPT !.receipt = NoId]
          \/ receipts # {} /\ got = [o EXCEPT !.receipt = CHOOSE id \in receipts : TRUE]
      BY <3>1
    <3> HIDE DEF got
    <3>4. \A x : [o EXCEPT !.receipt = x].receipt = x
      BY <2>1 DEF Operations
    <3> QED
      BY <2>7, <3>2, <3>3, <3>4
  <2> QED
    BY <1>2, <2>4, <2>9, <2>10 DEF OutcomesPrepared
<1> QED
  BY <1>1, <1>2

LEMMA WorkPrepared ==
    ASSUME TypeOK, OutcomesPrepared, NEW w \in Workers, Work(w)
    PROVE  OutcomesPrepared'
<1>0. NoOp.kind # "outcome"
  BY DEF NoOp
<1>1. CASE \/ Register(w) \/ Authorize(w) \/ CreatePlan(w) \/ Simulate(w)
           \/ RecordOutcome(w) \/ ViewPlan(w) \/ Backfill(w)
  <2>1. CASE Register(w) \/ Authorize(w)
    BY <2>1, StartPrepared DEF Register, Authorize, NoOp
  <2>2. CASE CreatePlan(w)
    BY <2>2, PlanStarts, StartPrepared
  <2>3. CASE Simulate(w) \/ RecordOutcome(w)
    BY <2>3, StartPrepared DEF Simulate, RecordOutcome, NoOp
  <2>4. CASE ViewPlan(w) \/ Backfill(w)
    BY <2>4, StartPrepared DEF ViewPlan, Backfill, NoOp
  <2> QED
    BY <1>1, <2>1, <2>2, <2>3, <2>4
<1>2. CASE Lock(w)
  BY <1>2 DEF Lock, OutcomesPrepared, TypeOK
<1>3. CASE WritePrepared(w) \/ SimulateCallback(w) \/ OutcomeCallback(w) \/ BackfillCallback(w)
  <2>1. phase[w] = "open" /\ \E writes : Wrote(w, writes)
    BY <1>3 DEF WritePrepared, SimulateCallback, OutcomeCallback, BackfillCallback
  <2> QED
    BY <2>1 DEF Wrote, OutcomesPrepared, TypeOK
<1>4. CASE Commit(w)
  BY <1>4 DEF Commit, OutcomesPrepared, TypeOK
<1>5. CASE Return(w) \/ Abort(w)
  BY <1>0, <1>5 DEF Return, Abort, End, OutcomesPrepared, TypeOK
<1> QED
  BY <1>1, <1>2, <1>3, <1>4, <1>5, ReadPrepared DEF Work

(***************************************************************************)
(* Every row and every write is a record of its collection under its key.  *)
(***************************************************************************)
THEOREM Typing == Spec => [](TypeOK /\ OutcomesPrepared)
<1>1. Init => TypeOK /\ OutcomesPrepared
  BY LegacyAssumption, NoOpTyped DEF Init, TypeOK, OutcomesPrepared, NoOp, Phases
<1>2. TypeOK /\ OutcomesPrepared /\ [Next]_vars => (TypeOK /\ OutcomesPrepared)'
  <2> SUFFICES ASSUME TypeOK, OutcomesPrepared, [Next]_vars
               PROVE  (TypeOK /\ OutcomesPrepared)'
    OBVIOUS
  <2>1. CASE Next
    BY <2>1, WorkType, WorkPrepared DEF Next
  <2>2. CASE UNCHANGED vars
    BY <2>2 DEF vars, TypeOK, OutcomesPrepared, WellFormed
  <2> QED
    BY <2>1, <2>2
<1> QED
  BY <1>1, <1>2, PTL DEF Spec

-----------------------------------------------------------------------------
(***************************************************************************)
(* Grounding.  Rows never change and never share a key, so what a decision *)
(* or a receipt rests on when it is prepared is still there, and still the *)
(* only record of its id, when it is committed and ever after.             *)
(***************************************************************************)
LEMMA GroundedMonotone ==
    ASSUME NEW R, NEW S, R \subseteq S, NEW x, Grounded(R, x)
    PROVE  Grounded(S, x)
<1>1. \A c : RecordsIn(R, c) \subseteq RecordsIn(S, c)
  BY DEF RecordsIn, Group
<1> QED
  BY <1>1 DEF Grounded, DecisionGrounded, ReceiptGrounded

LEMMA OtherWritesGrounded ==
    ASSUME NEW x, x.coll \notin {"authority_decisions", "shadow_execution_receipts"}
    PROVE  Grounded(rows, x)
BY DEF Grounded

LEMMA AuthorityWriteGrounded ==
    ASSUME NEW d, NEW e \in Records("decision_envelopes"), NEW by
    PROVE  Grounded(rows, AuthorityWrite(d, e, by))
BY DEF Grounded, DecisionGrounded, AuthorityWrite, Write, Records

LEMMA ReceiptWriteGrounded ==
    ASSUME NEW id, NEW q, EligibleNow(q)
    PROVE  Grounded(rows, ReceiptWrite(id, q))
<1>1. PICK e \in Records("decision_envelopes"), d \in Records("authority_decisions") :
         Eligible(e, d, q)
  BY DEF EligibleNow
<1> QED
  BY <1>1 DEF Eligible, Grounded, ReceiptGrounded, ReceiptWrite, Write, Records

DistinctKeys(d) ==
    \A i, j \in DOMAIN d : d[i].coll = d[j].coll /\ d[i].key = d[j].key => i = j

AllGrounded(R, d) == \A i \in DOMAIN d : Grounded(R, d[i])

LedgerSound ==
    /\ OneRowPerKey(rows)
    /\ \A r \in rows : Grounded(rows, r)
    /\ \A w \in Workers : DistinctKeys(draft[w]) /\ AllGrounded(rows, draft[w])

LEMMA PublishedOneRowPerKey ==
    ASSUME NEW R, NEW d, OneRowPerKey(R), DistinctKeys(d)
    PROVE  OneRowPerKey(Published(R, d))
<1> DEFINE Number(i) ==
        Cardinality(Group(R, d[i].coll))
        + Cardinality({j \in NewWrites(R, d) : j <= i /\ d[j].coll = d[i].coll})
           RowAt(i) == [coll |-> d[i].coll, key |-> d[i].key, rec |-> d[i].rec, seq |-> Number(i)]
<1>1. Published(R, d) = R \cup {RowAt(i) : i \in NewWrites(R, d)}
  BY Zenon DEF Published
<1> HIDE DEF Number
<1>2. \A i \in NewWrites(R, d), r \in R : ~(r.coll = d[i].coll /\ r.key = d[i].key)
  BY DEF NewWrites, Keyed, Group
<1>3. \A i, j \in NewWrites(R, d) :
         d[i].coll = d[j].coll /\ d[i].key = d[j].key => RowAt(i) = RowAt(j)
  BY DEF NewWrites, DistinctKeys
<1> QED
  BY <1>1, <1>2, <1>3 DEF OneRowPerKey

LEMMA CommitSound ==
    ASSUME TypeOK, LedgerSound, NEW w \in Workers, Commit(w)
    PROVE  LedgerSound'
<1>1. CASE Clash(w)
  BY <1>1 DEF Commit, LedgerSound, TypeOK, DistinctKeys, AllGrounded
<1>2. CASE rows' = Published(rows, draft[w])
  <2>1. OneRowPerKey(rows')
    BY <1>2, PublishedOneRowPerKey DEF LedgerSound
  <2>2. rows \subseteq rows'
    BY <1>2, PublishedRows
  <2>3. \A x : Grounded(rows, x) => Grounded(rows', x)
    BY <2>2, GroundedMonotone
  <2>4. ASSUME NEW r \in rows' PROVE Grounded(rows', r)
    <3>1. CASE r \in rows
      BY <2>3, <3>1 DEF LedgerSound
    <3>2. CASE r \notin rows
      <4>1. PICK i \in DOMAIN draft[w] : r.coll = draft[w][i].coll /\ r.rec = draft[w][i].rec
        BY <1>2, <3>2, PublishedRows DEF NewWrites
      <4>2. Grounded(rows', draft[w][i])
        BY <2>3 DEF LedgerSound, AllGrounded
      <4> QED
        BY <4>1, <4>2 DEF Grounded
    <3> QED
      BY <3>1, <3>2
  <2>5. ASSUME NEW v \in Workers
        PROVE  DistinctKeys(draft'[v]) /\ AllGrounded(rows', draft'[v])
    <3>1. CASE v = w
      <4>1. draft'[w] = << >>
        BY DEF Commit, TypeOK
      <4> QED
        BY <3>1, <4>1 DEF DistinctKeys, AllGrounded
    <3>2. CASE v # w
      <4>1. draft'[v] = draft[v]
        BY <3>2 DEF Commit, TypeOK
      <4> QED
        BY <2>3, <4>1 DEF LedgerSound, AllGrounded
    <3> QED
      BY <3>1, <3>2
  <2> QED
    BY <2>1, <2>4, <2>5 DEF LedgerSound, DistinctKeys, AllGrounded
<1> QED
  BY <1>1, <1>2 DEF Commit

(* A step that replaces the writes of one worker by sound ones.            *)
LEMMA DraftSound ==
    ASSUME TypeOK, LedgerSound, NEW w \in Workers, NEW writes,
           DistinctKeys(writes), AllGrounded(rows, writes),
           draft' = [draft EXCEPT ![w] = writes], UNCHANGED rows
    PROVE  LedgerSound'
<1>1. ASSUME NEW v \in Workers
      PROVE  DistinctKeys(draft'[v]) /\ AllGrounded(rows, draft'[v])
  BY DEF LedgerSound, TypeOK
<1> QED
  BY <1>1 DEF LedgerSound, DistinctKeys, AllGrounded

LEMMA NothingSound == DistinctKeys(<< >>) /\ AllGrounded(rows, << >>)
BY DEF DistinctKeys, AllGrounded

LEMMA OneWriteSound ==
    ASSUME NEW x, Grounded(rows, x)
    PROVE  DistinctKeys(<<x>>) /\ AllGrounded(rows, <<x>>)
BY DEF DistinctKeys, AllGrounded

LEMMA TwoWritesSound ==
    ASSUME NEW x, NEW y, Grounded(rows, x), Grounded(rows, y),
           x.coll # y.coll \/ x.key # y.key
    PROVE  DistinctKeys(<<x, y>>) /\ AllGrounded(rows, <<x, y>>)
<1>1. DOMAIN <<x, y>> = {1, 2} /\ <<x, y>>[1] = x /\ <<x, y>>[2] = y
  OBVIOUS
<1> QED
  BY <1>1 DEF DistinctKeys, AllGrounded

LEMMA StartsSound ==
    ASSUME TypeOK, LedgerSound, NEW w \in Workers,
           \/ Register(w) \/ Authorize(w) \/ CreatePlan(w) \/ Simulate(w)
           \/ RecordOutcome(w) \/ ViewPlan(w) \/ Backfill(w)
    PROVE  LedgerSound'
<1>1. CASE Register(w)
  <2>1. PICK e, form : draft' = [draft EXCEPT ![w] = <<EnvelopeWrite(e, form)>>] /\ UNCHANGED rows
    BY <1>1 DEF Register, Start
  <2>2. Grounded(rows, EnvelopeWrite(e, form))
    BY OtherWritesGrounded DEF EnvelopeWrite, Write
  <2> QED
    BY <2>1, <2>2, OneWriteSound, DraftSound
<1>2. CASE Authorize(w)
  <2>1. PICK e \in Records("decision_envelopes"), d \in Decisions, by \in Authorizers :
           draft' = [draft EXCEPT ![w] = <<AuthorityWrite(d, e, by)>>] /\ UNCHANGED rows
    BY <1>2 DEF Authorize, Start, Fresh
  <2>2. Grounded(rows, AuthorityWrite(d, e, by))
    BY AuthorityWriteGrounded
  <2> QED
    BY <2>1, <2>2, OneWriteSound, DraftSound
<1>3. CASE CreatePlan(w)
  <2>0. PICK p \in Fresh(Plans) : \E o, q, gateway :
           Start(w, o, <<Write("execution_requests", p, q),
                         Write("gateway_decisions", p, gateway), CreatedWrite(p)>>, "waiting")
    BY <1>3, PlanStarts
  <2>1. PICK o, q, gateway :
           /\ draft' = [draft EXCEPT ![w] = <<Write("execution_requests", p, q),
                           Write("gateway_decisions", p, gateway), CreatedWrite(p)>>]
           /\ UNCHANGED rows
    BY <2>0 DEF Start
  <2> DEFINE writes == <<Write("execution_requests", p, q),
                         Write("gateway_decisions", p, gateway), CreatedWrite(p)>>
  <2>2. /\ DOMAIN writes = {1, 2, 3}
        /\ writes[1].coll = "execution_requests"
        /\ writes[2].coll = "gateway_decisions"
        /\ writes[3].coll = "gateway_decision_events"
    BY DEF Write, CreatedWrite, EventWrite
  <2> HIDE DEF writes
  <2>3. DistinctKeys(writes) /\ AllGrounded(rows, writes)
    BY <2>2, OtherWritesGrounded DEF DistinctKeys, AllGrounded
  <2> QED
    BY <2>1, <2>3, DraftSound DEF writes
<1>4. CASE Simulate(w) \/ RecordOutcome(w) \/ ViewPlan(w) \/ Backfill(w)
  <2>1. draft' = [draft EXCEPT ![w] = << >>] /\ UNCHANGED rows
    BY <1>4 DEF Simulate, RecordOutcome, ViewPlan, Backfill, Start
  <2> QED
    BY <2>1, NothingSound, DraftSound
<1> QED
  BY <1>1, <1>2, <1>3, <1>4

LEMMA CallbackSound ==
    ASSUME TypeOK, LedgerSound, NEW w \in Workers,
           WritePrepared(w) \/ SimulateCallback(w) \/ OutcomeCallback(w) \/ BackfillCallback(w)
    PROVE  LedgerSound'
<1>0. \A k, source : Grounded(rows, EventWrite(k, source))
  BY OtherWritesGrounded DEF EventWrite, Write
<1>1. CASE WritePrepared(w)
  BY <1>1 DEF WritePrepared, Wrote, LedgerSound, TypeOK, DistinctKeys, AllGrounded
<1>2. CASE SimulateCallback(w)
  <2>1. PICK q \in Records("execution_requests") :
           \/ \E r : Wrote(w, <<SimulatedWrite(q.id, r.rec.id)>>)
           \/ /\ EligibleNow(q)
              /\ \E id : Wrote(w, <<ReceiptWrite(id, q), SimulatedWrite(q.id, id)>>)
    BY <1>2 DEF SimulateCallback
  <2>2. CASE \E r : Wrote(w, <<SimulatedWrite(q.id, r.rec.id)>>)
    BY <1>0, <2>2, OneWriteSound, DraftSound DEF Wrote, SimulatedWrite
  <2>3. CASE /\ EligibleNow(q)
             /\ \E id : Wrote(w, <<ReceiptWrite(id, q), SimulatedWrite(q.id, id)>>)
    <3>1. PICK id : Wrote(w, <<ReceiptWrite(id, q), SimulatedWrite(q.id, id)>>)
      BY <2>3
    <3>2. Grounded(rows, ReceiptWrite(id, q)) /\ Grounded(rows, SimulatedWrite(q.id, id))
      BY <1>0, <2>3, ReceiptWriteGrounded DEF SimulatedWrite
    <3>3. ReceiptWrite(id, q).coll # SimulatedWrite(q.id, id).coll
      BY DEF ReceiptWrite, SimulatedWrite, EventWrite, Write
    <3> QED
      BY <3>1, <3>2, <3>3, TwoWritesSound, DraftSound DEF Wrote
  <2> QED
    BY <2>1, <2>2, <2>3
<1>3. CASE OutcomeCallback(w)
  <2>1. \A id, q, receipt, assessed : Grounded(rows, OutcomeWrite(id, q, receipt, assessed))
    BY OtherWritesGrounded DEF OutcomeWrite, Write
  <2>2. \/ Wrote(w, << >>)
        \/ \E id, q : Wrote(w, <<OutcomeWrite(id, q, op[w].receipt, op[w].assessed)>>)
    BY <1>3 DEF OutcomeCallback
  <2> QED
    BY <2>1, <2>2, NothingSound, OneWriteSound, DraftSound DEF Wrote
<1>4. CASE BackfillCallback(w)
  <2>1. PICK p, source :
           \/ Wrote(w, <<CreatedWrite(p)>>)
           \/ Wrote(w, <<CreatedWrite(p), SimulatedWrite(p, source)>>)
    BY <1>4 DEF BackfillCallback
  <2>2. Grounded(rows, CreatedWrite(p)) /\ Grounded(rows, SimulatedWrite(p, source))
    BY <1>0 DEF CreatedWrite, SimulatedWrite
  <2>3. CreatedWrite(p).key # SimulatedWrite(p, source).key
    BY DEF CreatedWrite, SimulatedWrite, EventWrite, Write, CreatedKey, SimulatedKey
  <2>4. CASE Wrote(w, <<CreatedWrite(p)>>)
    BY <2>2, <2>4, OneWriteSound, DraftSound DEF Wrote
  <2>5. CASE Wrote(w, <<CreatedWrite(p), SimulatedWrite(p, source)>>)
    BY <2>2, <2>3, <2>5, TwoWritesSound, DraftSound DEF Wrote
  <2> QED
    BY <2>1, <2>4, <2>5
<1> QED
  BY <1>1, <1>2, <1>3, <1>4

LEMMA WorkSound ==
    ASSUME TypeOK, LedgerSound, NEW w \in Workers, Work(w)
    PROVE  LedgerSound'
<1>1. CASE Read(w) \/ Lock(w)
  BY <1>1 DEF Read, Lock, LedgerSound, DistinctKeys, AllGrounded
<1>2. CASE Return(w) \/ Abort(w)
  <2>1. draft' = [draft EXCEPT ![w] = << >>] /\ UNCHANGED rows
    BY <1>2 DEF Return, Abort, End
  <2> QED
    BY <2>1, NothingSound, DraftSound
<1> QED
  BY <1>1, <1>2, StartsSound, CallbackSound, CommitSound DEF Work

(***************************************************************************)
(* No two rows share a key, and every decision and every receipt rests on  *)
(* rows that are there.                                                    *)
(***************************************************************************)
THEOREM Soundness == Spec => []LedgerSound
<1>1. Init => LedgerSound
  BY LegacyAssumption, NothingSound DEF Init, LedgerSound
<1>2. TypeOK /\ LedgerSound /\ [Next]_vars => LedgerSound'
  <2> SUFFICES ASSUME TypeOK, LedgerSound, [Next]_vars PROVE LedgerSound'
    OBVIOUS
  <2>1. CASE Next
    BY <2>1, WorkSound DEF Next
  <2>2. CASE UNCHANGED vars
    BY <2>2 DEF vars, LedgerSound, DistinctKeys, AllGrounded
  <2> QED
    BY <2>1, <2>2
<1> QED
  BY <1>1, <1>2, Typing, PTL DEF Spec

LEMMA OneEnvelope ==
    ASSUME TypeOK, OneRowPerKey(rows)
    PROVE  \A e, f \in Records("decision_envelopes") : e.id = f.id => e = f
BY DEF TypeOK, WellFormed, KeyOf, OneRowPerKey, Records, RecordsIn, Group

LEMMA AuthorizedMeans ==
    ASSUME NEW form, NEW by, Authorization(form, by) = "AUTHORIZED"
    PROVE  /\ form.verdict = "PASS"
           /\ by.subject # form.proposer
           /\ by.role \in {form.required, "admin"}
           /\ \A a \in by.approvals : a.approved /\ a.approver # form.proposer
           /\ form.risky => by.approvals # {}
BY DEF Authorization, Verified, Refused, NeedsApproval

(***************************************************************************)
(* Whatever has a receipt was authorised, for exactly that action, by      *)
(* somebody entitled to: the envelope that the receipt names is the one    *)
(* that its decision was made about, since an id has one record.           *)
(***************************************************************************)
THEOREM Authorized == Spec => []SimulatedMeansAuthorized
<1>1. TypeOK /\ LedgerSound => SimulatedMeansAuthorized
  <2> SUFFICES ASSUME TypeOK, LedgerSound,
                      NEW r \in Records("shadow_execution_receipts")
               PROVE  \E e \in Records("decision_envelopes"), d \in Records("authority_decisions") :
                        /\ r.envelope = e.id /\ r.decision = d.id
                        /\ d.envelope = e.id
                        /\ r.action = e.form.action
                        /\ e.form.verdict = "PASS"
                        /\ d.by.subject # e.form.proposer
                        /\ d.by.role \in {e.form.required, "admin"}
                        /\ \A a \in d.by.approvals : a.approved /\ a.approver # e.form.proposer
                        /\ e.form.risky => d.by.approvals # {}
    BY DEF SimulatedMeansAuthorized
  <2>1. ReceiptGrounded(rows, r)
    BY DEF LedgerSound, Grounded, Records, RecordsIn, Group
  <2>2. PICK e \in Records("decision_envelopes"), d \in Records("authority_decisions") :
           /\ r.envelope = e.id /\ r.decision = d.id
           /\ d.envelope = e.id
           /\ d.state = "AUTHORIZED"
           /\ r.action = e.form.action
    BY <2>1 DEF ReceiptGrounded, Records
  <2>3. DecisionGrounded(rows, d)
    BY DEF LedgerSound, Grounded, Records, RecordsIn, Group
  <2>4. PICK f \in Records("decision_envelopes") :
           d.envelope = f.id /\ d.state = Authorization(f.form, d.by)
    BY <2>3 DEF DecisionGrounded, Records
  <2>5. e = f
    BY <2>2, <2>4, OneEnvelope DEF LedgerSound
  <2>6. Authorization(e.form, d.by) = "AUTHORIZED"
    BY <2>2, <2>4, <2>5
  <2> QED
    BY <2>2, <2>6, AuthorizedMeans
<1> QED
  BY <1>1, Typing, Soundness, PTL

-----------------------------------------------------------------------------
(***************************************************************************)
(* Events and receipts.  Whoever prepares a receipt for a plan holds the   *)
(* lock of its key from the moment it sees that there is none until its    *)
(* commit, so no other transaction can publish one in between, and the     *)
(* event prepared with it will name the receipt that is stored.            *)
(***************************************************************************)
LocksExclusive ==
    \A v, w \in Workers :
        v # w /\ InTransaction(v) /\ InTransaction(w) => Locks(op[v]) \cap Locks(op[w]) = {}

ReceiptsOf(R, p) == Keyed(R, "shadow_execution_receipts", p)

ReceiptPrepared(w, x) ==
    /\ phase[w] = "ready" /\ op[w].kind = "simulate" /\ op[w].plan = x.key
    /\ ReceiptsOf(rows, x.key) = {}
    /\ \E i \in DOMAIN draft[w] : draft[w][i] = SimulatedWrite(x.key, x.rec.id)

EventPrepared(w, p, x) ==
    \/ \E r \in ReceiptsOf(rows, p) : r.rec.id = x.rec.source
    \/ \E i \in DOMAIN draft[w] :
          /\ draft[w][i].coll = "shadow_execution_receipts" /\ draft[w][i].key = p
          /\ draft[w][i].rec.id = x.rec.source

DraftMatches(w) ==
    \A i \in DOMAIN draft[w] :
        /\ draft[w][i].coll = "shadow_execution_receipts" => ReceiptPrepared(w, draft[w][i])
        /\ draft[w][i].coll = "gateway_decision_events" =>
              \A p \in Plans : draft[w][i].key = SimulatedKey(p) => EventPrepared(w, p, draft[w][i])

EventsInv ==
    /\ LocksExclusive
    /\ \A w \in Workers : DraftMatches(w)
    /\ EventsMatch(rows)

\* A step of one worker leaves the other workers alone, and the rows too unless it commits.
LEMMA OtherWorkersKept ==
    ASSUME TypeOK, NEW w \in Workers, Work(w)
    PROVE  /\ Commit(w) \/ UNCHANGED rows
           /\ \A v \in Workers \ {w} :
                 draft'[v] = draft[v] /\ phase'[v] = phase[v] /\ op'[v] = op[v]
<1>1. DOMAIN draft = Workers /\ DOMAIN phase = Workers /\ DOMAIN op = Workers
  BY DEF TypeOK
<1>2. CASE Register(w)
  BY <1>1, <1>2 DEF Register, Start
<1>3. CASE Authorize(w)
  BY <1>1, <1>3 DEF Authorize, Start
<1>4. CASE CreatePlan(w)
  BY <1>1, <1>4 DEF CreatePlan, Start
<1>5. CASE Simulate(w) \/ RecordOutcome(w)
  BY <1>1, <1>5 DEF Simulate, RecordOutcome, Start
<1>6. CASE ViewPlan(w) \/ Backfill(w)
  BY <1>1, <1>6 DEF ViewPlan, Backfill, Start
<1>7. CASE Read(w)
  BY <1>1, <1>7 DEF Read
<1>8. CASE Lock(w)
  BY <1>1, <1>8 DEF Lock
<1>9. CASE WritePrepared(w)
  BY <1>1, <1>9 DEF WritePrepared, Wrote
<1>10. CASE SimulateCallback(w)
  BY <1>1, <1>10 DEF SimulateCallback, Wrote
<1>11. CASE OutcomeCallback(w)
  BY <1>1, <1>11 DEF OutcomeCallback, Wrote
<1>12. CASE BackfillCallback(w)
  BY <1>1, <1>12 DEF BackfillCallback, Wrote
<1>13. CASE Return(w) \/ Abort(w)
  BY <1>1, <1>13 DEF Return, Abort, End
<1>14. CASE Commit(w)
  BY <1>1, <1>14 DEF Commit
<1> QED
  BY <1>2, <1>3, <1>4, <1>5, <1>6, <1>7, <1>8, <1>9, <1>10, <1>11, <1>12, <1>13, <1>14
  DEF Work

LEMMA LocksStay ==
    ASSUME TypeOK, LocksExclusive, NEW w \in Workers, Work(w)
    PROVE  LocksExclusive'
<1>1. \A v \in Workers \ {w} : phase'[v] = phase[v] /\ op'[v] = op[v]
  BY OtherWorkersKept
<1>2. CASE Lock(w)
  <2>1. op' = op /\ \A v \in Workers \ {w} :
           InTransaction(v) => Locks(op[v]) \cap Locks(op[w]) = {}
    BY <1>2 DEF Lock
  <2> QED
    BY <1>1, <2>1 DEF LocksExclusive, InTransaction
<1>3. CASE phase[w] = "open" /\ \E writes : Wrote(w, writes)
  BY <1>1, <1>3 DEF Wrote, LocksExclusive, InTransaction
<1>4. CASE phase'[w] \notin {"open", "ready"}
  BY <1>1, <1>4 DEF LocksExclusive, InTransaction
<1>5. \/ Lock(w)
      \/ phase[w] = "open" /\ \E writes : Wrote(w, writes)
      \/ phase'[w] \notin {"open", "ready"}
  <2>0. DOMAIN phase = Workers
    BY DEF TypeOK
  <2>1. CASE WritePrepared(w) \/ SimulateCallback(w) \/ OutcomeCallback(w) \/ BackfillCallback(w)
    BY <2>1 DEF WritePrepared, SimulateCallback, OutcomeCallback, BackfillCallback
  <2>2. CASE Register(w) \/ Authorize(w) \/ CreatePlan(w)
    BY <2>0, <2>2 DEF Register, Authorize, CreatePlan, Start
  <2>3. CASE Simulate(w) \/ RecordOutcome(w)
    BY <2>0, <2>3 DEF Simulate, RecordOutcome, Start
  <2>4. CASE ViewPlan(w) \/ Backfill(w)
    BY <2>0, <2>4 DEF ViewPlan, Backfill, Start
  <2>5. CASE Read(w)
    BY <2>0, <2>5 DEF Read
  <2>6. CASE Commit(w) \/ Return(w) \/ Abort(w)
    BY <2>0, <2>6 DEF Commit, Return, Abort, End
  <2> QED
    BY <2>1, <2>2, <2>3, <2>4, <2>5, <2>6 DEF Work
<1> QED
  BY <1>2, <1>3, <1>4, <1>5

LEMMA KeysDiffer ==
    /\ \A p, q : SimulatedKey(p) = SimulatedKey(q) => p = q
    /\ \A p, q : CreatedKey(p) # SimulatedKey(q)
BY DEF SimulatedKey, CreatedKey

(* Whoever does nothing while the rows stay is as well prepared as before. *)
LEMMA IdleMatches ==
    ASSUME NEW v \in Workers, DraftMatches(v), UNCHANGED rows,
           draft'[v] = draft[v], op'[v] = op[v], phase'[v] = phase[v]
    PROVE  DraftMatches(v)'
BY DEF DraftMatches, ReceiptPrepared, EventPrepared

(* Before the callback a draft has no receipt: it may change phase.        *)
LEMMA PhaseMatches ==
    ASSUME NEW w \in Workers, DraftMatches(w), UNCHANGED rows,
           draft'[w] = draft[w], phase[w] # "ready"
    PROVE  DraftMatches(w)'
BY DEF DraftMatches, ReceiptPrepared, EventPrepared

(* Writes that are neither receipts nor simulation events.                 *)
LEMMA OtherWritesMatch ==
    ASSUME NEW w \in Workers,
           \A i \in DOMAIN draft'[w] :
              /\ draft'[w][i].coll # "shadow_execution_receipts"
              /\ draft'[w][i].coll = "gateway_decision_events" =>
                    \A p : draft'[w][i].key # SimulatedKey(p)
    PROVE  DraftMatches(w)'
BY DEF DraftMatches

LEMMA NothingMatches ==
    ASSUME NEW w \in Workers, draft'[w] = << >>
    PROVE  DraftMatches(w)'
BY DEF DraftMatches

LEMMA Drafted ==
    ASSUME TypeOK, NEW w \in Workers, NEW writes, draft' = [draft EXCEPT ![w] = writes]
    PROVE  draft'[w] = writes
BY DEF TypeOK

LEMMA StartsMatch ==
    ASSUME TypeOK, NEW w \in Workers,
           \/ Register(w) \/ Authorize(w) \/ CreatePlan(w) \/ Simulate(w)
           \/ RecordOutcome(w) \/ ViewPlan(w) \/ Backfill(w)
    PROVE  DraftMatches(w)'
<1>1. CASE Register(w)
  <2>1. PICK e, form : draft' = [draft EXCEPT ![w] = <<EnvelopeWrite(e, form)>>]
    BY <1>1 DEF Register, Start
  <2>2. EnvelopeWrite(e, form).coll = "decision_envelopes"
    BY DEF EnvelopeWrite, Write
  <2>3. draft'[w] = <<EnvelopeWrite(e, form)>>
    BY <2>1, Drafted
  <2> QED
    BY <2>2, <2>3, OtherWritesMatch
<1>2. CASE Authorize(w)
  <2>1. PICK e \in Records("decision_envelopes"), d \in Decisions, by \in Authorizers :
           draft' = [draft EXCEPT ![w] = <<AuthorityWrite(d, e, by)>>]
    BY <1>2 DEF Authorize, Start, Fresh
  <2>2. AuthorityWrite(d, e, by).coll = "authority_decisions"
    BY DEF AuthorityWrite, Write
  <2>3. draft'[w] = <<AuthorityWrite(d, e, by)>>
    BY <2>1, Drafted
  <2> QED
    BY <2>2, <2>3, OtherWritesMatch
<1>3. CASE CreatePlan(w)
  <2>0. PICK p \in Fresh(Plans) : \E o, q, gateway :
           Start(w, o, <<Write("execution_requests", p, q),
                         Write("gateway_decisions", p, gateway), CreatedWrite(p)>>, "waiting")
    BY <1>3, PlanStarts
  <2>1. PICK o, q, gateway :
           draft' = [draft EXCEPT ![w] = <<Write("execution_requests", p, q),
                         Write("gateway_decisions", p, gateway), CreatedWrite(p)>>]
    BY <2>0 DEF Start
  <2> DEFINE writes == <<Write("execution_requests", p, q),
                         Write("gateway_decisions", p, gateway), CreatedWrite(p)>>
  <2>2. /\ DOMAIN writes = {1, 2, 3}
        /\ writes[1].coll = "execution_requests"
        /\ writes[2].coll = "gateway_decisions"
        /\ writes[3].key = CreatedKey(p)
        /\ writes[3].coll = "gateway_decision_events"
    BY DEF Write, CreatedWrite, EventWrite
  <2> HIDE DEF writes
  <2>3. draft'[w] = writes
    BY <2>1, Drafted DEF writes
  <2> QED
    BY <2>2, <2>3, KeysDiffer, OtherWritesMatch
<1>4. CASE Simulate(w) \/ RecordOutcome(w) \/ ViewPlan(w) \/ Backfill(w)
  <2>1. draft'[w] = << >>
    BY <1>4 DEF Simulate, RecordOutcome, ViewPlan, Backfill, Start, TypeOK
  <2> QED
    BY <2>1, NothingMatches
<1> QED
  BY <1>1, <1>2, <1>3, <1>4

LEMMA SimulatedWriteFields ==
    ASSUME NEW p, NEW source
    PROVE  /\ SimulatedWrite(p, source).coll = "gateway_decision_events"
           /\ SimulatedWrite(p, source).key = SimulatedKey(p)
           /\ SimulatedWrite(p, source).rec.source = source
BY DEF SimulatedWrite, EventWrite, Write

LEMMA SimulateMatches ==
    ASSUME TypeOK, NEW w \in Workers, SimulateCallback(w)
    PROVE  DraftMatches(w)'
<1>1. PICK q \in Records("execution_requests") :
         /\ op[w].kind = "simulate" /\ q.id = op[w].plan
         /\ \/ \E r \in ReceiptsOf(rows, q.id) : Wrote(w, <<SimulatedWrite(q.id, r.rec.id)>>)
            \/ /\ ReceiptsOf(rows, q.id) = {}
               /\ \E id : Wrote(w, <<ReceiptWrite(id, q), SimulatedWrite(q.id, id)>>)
  BY DEF SimulateCallback, ReceiptsOf
<1>2. CASE \E r \in ReceiptsOf(rows, q.id) : Wrote(w, <<SimulatedWrite(q.id, r.rec.id)>>)
  <2>1. PICK r \in ReceiptsOf(rows, q.id) : Wrote(w, <<SimulatedWrite(q.id, r.rec.id)>>)
    BY <1>2
  <2> DEFINE event == SimulatedWrite(q.id, r.rec.id)
  <2>2. draft'[w] = <<event>> /\ UNCHANGED rows
    BY <2>1 DEF Wrote, TypeOK
  <2>3. /\ event.coll = "gateway_decision_events"
        /\ event.key = SimulatedKey(q.id) /\ event.rec.source = r.rec.id
    BY SimulatedWriteFields
  <2>4. r \in ReceiptsOf(rows, q.id)'
    BY <2>2 DEF ReceiptsOf, Keyed, Group
  <2> HIDE DEF event
  <2>5. EventPrepared(w, q.id, event)'
    BY <2>3, <2>4 DEF EventPrepared, event
  <2>6. \A p \in Plans : event.key = SimulatedKey(p) => p = q.id
    BY <2>3, KeysDiffer
  <2>7. DOMAIN draft'[w] = {1} /\ draft'[w][1] = event
    BY <2>2
  <2> QED
    BY <2>3, <2>5, <2>6, <2>7 DEF DraftMatches
<1>3. CASE /\ ReceiptsOf(rows, q.id) = {}
           /\ \E id : Wrote(w, <<ReceiptWrite(id, q), SimulatedWrite(q.id, id)>>)
  <2>1. PICK id : Wrote(w, <<ReceiptWrite(id, q), SimulatedWrite(q.id, id)>>)
    BY <1>3
  <2> DEFINE receipt == ReceiptWrite(id, q)
             event == SimulatedWrite(q.id, id)
  <2>2. /\ draft'[w] = <<receipt, event>>
        /\ phase'[w] = "ready" /\ op'[w] = op[w] /\ rows' = rows
    BY <2>1 DEF Wrote, TypeOK
  <2>3. /\ event.coll = "gateway_decision_events"
        /\ event.key = SimulatedKey(q.id) /\ event.rec.source = id
    BY SimulatedWriteFields
  <2>4. /\ receipt.coll = "shadow_execution_receipts"
        /\ receipt.key = q.id /\ receipt.rec.id = id
    BY DEF ReceiptWrite, Write
  <2> HIDE DEF receipt
  <2>5. DOMAIN draft'[w] = {1, 2} /\ draft'[w][1] = receipt /\ draft'[w][2] = event
    BY <2>2
  <2>6. ReceiptPrepared(w, receipt)'
    <3>1. draft'[w][2] = SimulatedWrite(receipt.key, receipt.rec.id)
      BY <2>4, <2>5
    <3>2. ReceiptsOf(rows', receipt.key) = {}
      BY <1>3, <2>2, <2>4
    <3> QED
      BY <1>1, <2>2, <2>4, <2>5, <3>1, <3>2 DEF ReceiptPrepared
  <2> HIDE DEF event
  <2>7. EventPrepared(w, q.id, event)'
    BY <2>3, <2>4, <2>5 DEF EventPrepared
  <2>8. \A p \in Plans : event.key = SimulatedKey(p) => p = q.id
    BY <2>3, KeysDiffer
  <2> QED
    BY <2>3, <2>4, <2>5, <2>6, <2>7, <2>8 DEF DraftMatches
<1> QED
  BY <1>1, <1>2, <1>3

LEMMA BackfillMatches ==
    ASSUME TypeOK, NEW w \in Workers, BackfillCallback(w)
    PROVE  DraftMatches(w)'
<1>1. PICK g \in Records("gateway_decisions") :
         \/ Wrote(w, <<CreatedWrite(g.id)>>)
         \/ \E r \in ReceiptsOf(rows, g.id) :
                Wrote(w, <<CreatedWrite(g.id), SimulatedWrite(g.id, r.rec.id)>>)
  BY DEF BackfillCallback, ReceiptsOf
<1> DEFINE created == CreatedWrite(g.id)
<1>2. created.coll = "gateway_decision_events" /\ created.key = CreatedKey(g.id)
  BY DEF CreatedWrite, EventWrite, Write
<1> HIDE DEF created
<1>3. CASE Wrote(w, <<created>>)
  <2>1. draft'[w] = <<created>>
    BY <1>3, Drafted DEF Wrote
  <2> QED
    BY <1>2, <2>1, KeysDiffer, OtherWritesMatch
<1>4. CASE \E r \in ReceiptsOf(rows, g.id) : Wrote(w, <<created, SimulatedWrite(g.id, r.rec.id)>>)
  <2>1. PICK r \in ReceiptsOf(rows, g.id) : Wrote(w, <<created, SimulatedWrite(g.id, r.rec.id)>>)
    BY <1>4
  <2> DEFINE event == SimulatedWrite(g.id, r.rec.id)
  <2>2. draft'[w] = <<created, event>> /\ UNCHANGED rows
    BY <2>1, Drafted DEF Wrote
  <2>3. /\ event.coll = "gateway_decision_events"
        /\ event.key = SimulatedKey(g.id) /\ event.rec.source = r.rec.id
    BY SimulatedWriteFields
  <2>4. r \in ReceiptsOf(rows, g.id)'
    BY <2>2 DEF ReceiptsOf, Keyed, Group
  <2> HIDE DEF event
  <2>5. EventPrepared(w, g.id, event)'
    BY <2>3, <2>4 DEF EventPrepared
  <2>6. \A p \in Plans : event.key = SimulatedKey(p) => p = g.id
    BY <2>3, KeysDiffer
  <2>7. DOMAIN draft'[w] = {1, 2} /\ draft'[w][1] = created /\ draft'[w][2] = event
    BY <2>2
  <2> QED
    BY <1>2, <2>3, <2>5, <2>6, <2>7, KeysDiffer DEF DraftMatches
<1> QED
  BY <1>1, <1>3, <1>4 DEF created

LEMMA CallbackMatches ==
    ASSUME TypeOK, NEW w \in Workers, DraftMatches(w),
           WritePrepared(w) \/ SimulateCallback(w) \/ OutcomeCallback(w) \/ BackfillCallback(w)
    PROVE  DraftMatches(w)'
<1>1. CASE WritePrepared(w)
  <2>1. draft' = [draft EXCEPT ![w] = draft[w]] /\ UNCHANGED rows /\ phase[w] = "open"
    BY <1>1 DEF WritePrepared, Wrote
  <2>2. draft'[w] = draft[w]
    BY <2>1, Drafted
  <2> QED
    BY <2>1, <2>2, PhaseMatches
<1>2. CASE OutcomeCallback(w)
  <2>1. \/ Wrote(w, << >>)
        \/ \E id, q : Wrote(w, <<OutcomeWrite(id, q, op[w].receipt, op[w].assessed)>>)
    BY <1>2 DEF OutcomeCallback
  <2>2. CASE Wrote(w, << >>)
    BY <2>2, Drafted, NothingMatches DEF Wrote
  <2>3. CASE \E id, q : Wrote(w, <<OutcomeWrite(id, q, op[w].receipt, op[w].assessed)>>)
    <3>1. PICK id, q : Wrote(w, <<OutcomeWrite(id, q, op[w].receipt, op[w].assessed)>>)
      BY <2>3
    <3> DEFINE write == OutcomeWrite(id, q, op[w].receipt, op[w].assessed)
    <3>2. write.coll = "shadow_outcomes"
      BY DEF OutcomeWrite, Write
    <3> HIDE DEF write
    <3>3. draft'[w] = <<write>>
      BY <3>1, Drafted DEF Wrote, write
    <3> QED
      BY <3>2, <3>3, OtherWritesMatch
  <2> QED
    BY <2>1, <2>2, <2>3
<1> QED
  BY <1>1, <1>2, SimulateMatches, BackfillMatches

(* A write that is new, or already there, is in the ledger afterwards.     *)
LEMMA PublishedWrites ==
    ASSUME NEW R, NEW d, NEW i \in NewWrites(R, d)
    PROVE  \E r \in Keyed(Published(R, d), d[i].coll, d[i].key) : r.rec = d[i].rec
<1> DEFINE Number(j) ==
        Cardinality(Group(R, d[j].coll))
        + Cardinality({k \in NewWrites(R, d) : k <= j /\ d[k].coll = d[j].coll})
           RowAt(j) == [coll |-> d[j].coll, key |-> d[j].key, rec |-> d[j].rec, seq |-> Number(j)]
<1>1. Published(R, d) = R \cup {RowAt(j) : j \in NewWrites(R, d)}
  BY Zenon DEF Published
<1> HIDE DEF Number
<1>2. RowAt(i) \in Published(R, d)
  BY <1>1
<1> QED
  BY <1>2 DEF Keyed, Group

LEMMA KeyedMonotone ==
    ASSUME NEW R, NEW S, R \subseteq S
    PROVE  /\ \A c, k : Keyed(R, c, k) \subseteq Keyed(S, c, k)
           /\ \A p : Migrated(R, p) => Migrated(S, p)
BY DEF Keyed, Group, Migrated, RecordsIn

LEMMA CommitMatchesOthers ==
    ASSUME TypeOK, EventsInv, NEW w \in Workers, Commit(w), NEW v \in Workers
    PROVE  DraftMatches(v)'
<1>1. CASE v = w
  BY <1>1, Drafted, NothingMatches DEF Commit
<1>2. CASE v # w
  <2>1. draft'[v] = draft[v] /\ op'[v] = op[v] /\ phase'[v] = phase[v]
    BY <1>2 DEF Commit, TypeOK
  <2>2. CASE UNCHANGED rows
    BY <2>1, <2>2, IdleMatches DEF EventsInv
  <2>3. CASE rows' = Published(rows, draft[w])
    <3>1. rows \subseteq rows'
      BY <2>3, PublishedRows
    <3>2. ASSUME NEW i \in DOMAIN draft[v],
                 draft[v][i].coll = "shadow_execution_receipts"
          PROVE  ReceiptPrepared(v, draft[v][i])'
      <4> DEFINE key == draft[v][i].key
      <4>1. ReceiptPrepared(v, draft[v][i])
        BY <3>2 DEF EventsInv, DraftMatches
      <4>2. ReceiptsOf(rows', key) = {}
        <5> SUFFICES ASSUME NEW r \in ReceiptsOf(rows', key) PROVE FALSE
          OBVIOUS
        <5>1. r \in rows' \ rows /\ r.coll = "shadow_execution_receipts" /\ r.key = key
          BY <4>1 DEF ReceiptPrepared, ReceiptsOf, Keyed, Group
        <5>2. PICK j \in DOMAIN draft[w] : r.coll = draft[w][j].coll /\ r.key = draft[w][j].key
          BY <2>3, <5>1, PublishedRows DEF NewWrites
        <5>3. ReceiptPrepared(w, draft[w][j])
          BY <5>1, <5>2 DEF EventsInv, DraftMatches
        <5>4. /\ op[w].kind = "simulate" /\ op[w].plan = key /\ InTransaction(w)
              /\ op[v].kind = "simulate" /\ op[v].plan = key /\ InTransaction(v)
          BY <4>1, <5>1, <5>2, <5>3 DEF ReceiptPrepared, InTransaction
        <5>5. /\ KeyLock("shadow_execution_receipts", key) \in Locks(op[w])
              /\ KeyLock("shadow_execution_receipts", key) \in Locks(op[v])
          BY <5>4 DEF Locks, SimulationLocks, ChainAndKey
        <5> QED
          BY <1>2, <5>4, <5>5 DEF EventsInv, LocksExclusive
      <4> QED
        BY <2>1, <4>1, <4>2 DEF ReceiptPrepared
    <3>3. ASSUME NEW i \in DOMAIN draft[v], NEW p \in Plans, EventPrepared(v, p, draft[v][i])
          PROVE  EventPrepared(v, p, draft[v][i])'
      <4>1. ReceiptsOf(rows, p) \subseteq ReceiptsOf(rows', p)
        BY <3>1, KeyedMonotone DEF ReceiptsOf
      <4> QED
        BY <2>1, <3>3, <4>1 DEF EventPrepared
    <3> QED
      BY <2>1, <3>2, <3>3 DEF EventsInv, DraftMatches
  <2> QED
    BY <2>2, <2>3 DEF Commit
<1> QED
  BY <1>1, <1>2

LEMMA CommitMatchesEvents ==
    ASSUME TypeOK, EventsInv, NEW w \in Workers, Commit(w)
    PROVE  EventsMatch(rows')
<1>1. CASE UNCHANGED rows
  BY <1>1 DEF EventsInv
<1>2. CASE rows' = Published(rows, draft[w])
  <2>0. DraftMatches(w) /\ EventsMatch(rows)
    BY DEF EventsInv
  <2>1. /\ rows \subseteq rows'
        /\ \A c, k : Keyed(rows, c, k) \subseteq Keyed(rows', c, k)
        /\ \A p : Migrated(rows, p) => Migrated(rows', p)
    BY <1>2, PublishedRows, KeyedMonotone
  <2>2. ASSUME NEW i \in DOMAIN draft[w],
               Keyed(rows, draft[w][i].coll, draft[w][i].key) = {}
        PROVE  \E r \in Keyed(rows', draft[w][i].coll, draft[w][i].key) : r.rec = draft[w][i].rec
    BY <1>2, <2>2, PublishedWrites DEF NewWrites
  <2>3. ASSUME NEW p \in Plans,
               NEW e \in Keyed(rows', "gateway_decision_events", SimulatedKey(p))
        PROVE  \E r \in Keyed(rows', "shadow_execution_receipts", p) : r.rec.id = e.rec.source
    <3>1. CASE e \in rows
      <4>1. e \in Keyed(rows, "gateway_decision_events", SimulatedKey(p))
        BY <3>1 DEF Keyed, Group
      <4> QED
        BY <2>0, <2>1, <4>1 DEF EventsMatch
    <3>2. CASE e \notin rows
      <4>1. e \in rows' /\ e.coll = "gateway_decision_events" /\ e.key = SimulatedKey(p)
        BY DEF Keyed, Group
      <4>2. PICK i \in DOMAIN draft[w] :
               e.coll = draft[w][i].coll /\ e.key = draft[w][i].key /\ e.rec = draft[w][i].rec
        BY <1>2, <3>2, <4>1, PublishedRows DEF NewWrites
      <4>3. EventPrepared(w, p, draft[w][i])
        BY <2>0, <4>1, <4>2 DEF DraftMatches
      <4>4. CASE \E r \in ReceiptsOf(rows, p) : r.rec.id = draft[w][i].rec.source
        BY <2>1, <4>2, <4>4 DEF ReceiptsOf
      <4>5. CASE \E j \in DOMAIN draft[w] :
                   /\ draft[w][j].coll = "shadow_execution_receipts" /\ draft[w][j].key = p
                   /\ draft[w][j].rec.id = draft[w][i].rec.source
        <5>1. PICK j \in DOMAIN draft[w] :
                 /\ draft[w][j].coll = "shadow_execution_receipts" /\ draft[w][j].key = p
                 /\ draft[w][j].rec.id = draft[w][i].rec.source
          BY <4>5
        <5>2. Keyed(rows, draft[w][j].coll, draft[w][j].key) = {}
          BY <2>0, <5>1 DEF DraftMatches, ReceiptPrepared, ReceiptsOf
        <5>3. PICK r \in Keyed(rows', draft[w][j].coll, draft[w][j].key) : r.rec = draft[w][j].rec
          BY <2>2, <5>2
        <5> QED
          BY <4>2, <5>1, <5>3
      <4> QED
        BY <4>3, <4>4, <4>5 DEF EventPrepared
    <3> QED
      BY <3>1, <3>2
  <2>4. ASSUME NEW r \in Group(rows', "shadow_execution_receipts")
        PROVE  \/ Migrated(rows', r.key)
               \/ Keyed(rows', "gateway_decision_events", SimulatedKey(r.key)) # {}
    <3>1. CASE r \in rows
      <4>1. r \in Group(rows, "shadow_execution_receipts")
        BY <3>1 DEF Group
      <4>2. \/ Migrated(rows, r.key)
            \/ Keyed(rows, "gateway_decision_events", SimulatedKey(r.key)) # {}
        BY <2>0, <4>1 DEF EventsMatch
      <4>3. Keyed(rows, "gateway_decision_events", SimulatedKey(r.key))
               \subseteq Keyed(rows', "gateway_decision_events", SimulatedKey(r.key))
        BY <2>1
      <4> QED
        BY <2>1, <4>2, <4>3
    <3>2. CASE r \notin rows
      <4>1. r \in rows' /\ r.coll = "shadow_execution_receipts"
        BY DEF Group
      <4>2. PICK i \in DOMAIN draft[w] :
               r.coll = draft[w][i].coll /\ r.key = draft[w][i].key /\ r.rec = draft[w][i].rec
        BY <1>2, <3>2, <4>1, PublishedRows DEF NewWrites
      <4>3. PICK j \in DOMAIN draft[w] : draft[w][j] = SimulatedWrite(r.key, r.rec.id)
        BY <2>0, <4>1, <4>2 DEF DraftMatches, ReceiptPrepared
      <4>4. draft[w][j].coll = "gateway_decision_events" /\ draft[w][j].key = SimulatedKey(r.key)
        BY <4>3, SimulatedWriteFields
      <4>5. CASE Keyed(rows, draft[w][j].coll, draft[w][j].key) = {}
        <5>1. PICK e \in Keyed(rows', draft[w][j].coll, draft[w][j].key) : e.rec = draft[w][j].rec
          BY <2>2, <4>5
        <5> QED
          BY <4>4, <5>1
      <4>6. CASE Keyed(rows, draft[w][j].coll, draft[w][j].key) # {}
        <5>1. Keyed(rows, draft[w][j].coll, draft[w][j].key)
                 \subseteq Keyed(rows', draft[w][j].coll, draft[w][j].key)
          BY <2>1
        <5> QED
          BY <4>4, <4>6, <5>1
      <4> QED
        BY <4>5, <4>6
    <3> QED
      BY <3>1, <3>2
  <2> QED
    BY <2>3, <2>4 DEF EventsMatch
<1> QED
  BY <1>1, <1>2 DEF Commit

LEMMA WorkEvents ==
    ASSUME TypeOK, EventsInv, NEW w \in Workers, Work(w)
    PROVE  EventsInv'
<1>0. LocksExclusive' /\ \A v \in Workers : DraftMatches(v)
  BY LocksStay DEF EventsInv
<1>1. CASE Commit(w)
  <2>1. EventsMatch(rows)'
    BY <1>1, CommitMatchesEvents DEF EventsMatch, Keyed, Group, Migrated, RecordsIn
  <2>2. \A v \in Workers : DraftMatches(v)'
    BY <1>1, CommitMatchesOthers
  <2> QED
    BY <1>0, <2>1, <2>2 DEF EventsInv
<1>2. CASE ~Commit(w)
  <2>1. /\ UNCHANGED rows
        /\ \A v \in Workers \ {w} :
              draft'[v] = draft[v] /\ phase'[v] = phase[v] /\ op'[v] = op[v]
    BY <1>2, OtherWorkersKept
  <2>2. \A v \in Workers \ {w} : DraftMatches(v)'
    BY <1>0, <2>1, IdleMatches
  <2>3. ASSUME Read(w) \/ Lock(w) PROVE DraftMatches(w)'
    <3>1. UNCHANGED draft /\ phase[w] # "ready"
      BY <2>3 DEF Read, Lock
    <3> QED
      BY <1>0, <2>1, <3>1, PhaseMatches
  <2>4. ASSUME Return(w) \/ Abort(w) PROVE DraftMatches(w)'
    BY <2>4, Drafted, NothingMatches DEF Return, Abort, End
  <2>5. DraftMatches(w)'
    BY <1>0, <1>2, <2>3, <2>4, StartsMatch, CallbackMatches DEF Work
  <2>6. EventsMatch(rows)'
    BY <2>1 DEF EventsInv, EventsMatch, Keyed, Group, Migrated, RecordsIn
  <2> QED
    BY <1>0, <2>2, <2>5, <2>6 DEF EventsInv
<1> QED
  BY <1>1, <1>2

(***************************************************************************)
(* Transactions under way share no lock, and what they have prepared fits  *)
(* the receipts and the events that are there.                             *)
(***************************************************************************)
THEOREM EventsInvariant == Spec => []EventsInv
<1>1. Init => EventsInv
  <2> SUFFICES ASSUME Init PROVE EventsInv
    OBVIOUS
  <2>1. LocksExclusive
    BY DEF Init, LocksExclusive, InTransaction
  <2>2. \A w \in Workers : DraftMatches(w)
    BY DEF Init, DraftMatches
  <2>3. EventsMatch(rows)
    BY LegacyAssumption DEF Init
  <2> QED
    BY <2>1, <2>2, <2>3 DEF EventsInv
<1>2. TypeOK /\ EventsInv /\ [Next]_vars => EventsInv'
  <2> SUFFICES ASSUME TypeOK, EventsInv, [Next]_vars PROVE EventsInv'
    OBVIOUS
  <2>1. CASE Next
    BY <2>1, WorkEvents DEF Next
  <2>2. CASE UNCHANGED vars
    BY <2>2, IdleMatches
    DEF vars, EventsInv, LocksExclusive, InTransaction, EventsMatch, Keyed, Group, Migrated,
        RecordsIn
  <2> QED
    BY <2>1, <2>2
<1> QED
  BY <1>1, <1>2, Typing, PTL DEF Spec

(***************************************************************************)
(* A receipt and its simulation event appear together, and the event names *)
(* the receipt that is stored, however many simulations, backfills and     *)
(* deaths overlap.                                                         *)
(***************************************************************************)
THEOREM Matched == Spec => []EventsMatchReceipts
<1>1. EventsInv => EventsMatchReceipts
  BY DEF EventsInv, EventsMatchReceipts
<1> QED
  BY <1>1, EventsInvariant, PTL

-----------------------------------------------------------------------------
(***************************************************************************)
(* What a step does to the worker that takes it.                           *)
(***************************************************************************)
LEMMA Started ==
    ASSUME TypeOK, NEW w \in Workers, NEW o, NEW writes, NEW next, Start(w, o, writes, next)
    PROVE  /\ draft'[w] = writes /\ op'[w] = o /\ phase'[w] = next
           /\ rows' = rows /\ phase[w] = "idle"
<1>1. DOMAIN draft = Workers /\ DOMAIN phase = Workers /\ DOMAIN op = Workers
  BY DEF TypeOK
<1> QED
  BY <1>1 DEF Start

LEMMA Written ==
    ASSUME TypeOK, NEW w \in Workers, NEW writes, Wrote(w, writes)
    PROVE  draft'[w] = writes /\ op'[w] = op[w] /\ phase'[w] = "ready" /\ rows' = rows
<1>1. DOMAIN draft = Workers /\ DOMAIN phase = Workers
  BY DEF TypeOK
<1> QED
  BY <1>1 DEF Wrote

LEMMA Ended ==
    ASSUME TypeOK, NEW w \in Workers, Return(w) \/ Abort(w)
    PROVE  draft'[w] = << >> /\ op'[w] = NoOp /\ phase'[w] = "idle" /\ rows' = rows
<1>1. DOMAIN draft = Workers /\ DOMAIN phase = Workers /\ DOMAIN op = Workers
  BY DEF TypeOK
<1> QED
  BY <1>1 DEF Return, Abort, End

LEMMA Locked ==
    ASSUME TypeOK, NEW w \in Workers, Lock(w)
    PROVE  /\ draft'[w] = draft[w] /\ op'[w] = op[w] /\ rows' = rows
           /\ phase[w] = "waiting" /\ phase'[w] = "open"
BY DEF Lock, TypeOK

LEMMA Committed ==
    ASSUME TypeOK, NEW w \in Workers, Commit(w)
    PROVE  /\ draft'[w] = << >> /\ op'[w] = op[w] /\ phase[w] = "ready"
           /\ phase'[w] = IF Clash(w) THEN "conflict"
                          ELSE IF op[w].kind = "simulate" THEN "reading" ELSE "returned"
           /\ rows' = IF Clash(w) THEN rows ELSE Published(rows, draft[w])
<1>1. DOMAIN draft = Workers /\ DOMAIN phase = Workers
  BY DEF TypeOK
<1> QED
  BY <1>1 DEF Commit

\* An operation starts with nothing read; an outcome is read for before anything else.
LEMMA OperationStarts ==
    ASSUME TypeOK, NEW w \in Workers,
           \/ Register(w) \/ Authorize(w) \/ CreatePlan(w) \/ Simulate(w)
           \/ RecordOutcome(w) \/ ViewPlan(w) \/ Backfill(w)
    PROVE  /\ op'[w].simulated = FALSE /\ rows' = rows
           /\ phase'[w] \in {"waiting", "reading"}
           /\ op'[w].kind = "outcome" => phase'[w] = "reading"
           /\ op'[w].kind = "backfill" => phase'[w] = "waiting"
<1> SUFFICES \E o, writes, next :
               /\ Start(w, o, writes, next) /\ o.simulated = FALSE
               /\ next \in {"waiting", "reading"} /\ (o.kind = "outcome" => next = "reading")
               /\ o.kind = "backfill" => next = "waiting"
  BY Started
<1>1. CASE Register(w)
  <2>1. PICK e \in Fresh(Envelopes), form \in Forms :
           Start(w, [NoOp EXCEPT !.kind = "register", !.envelope = e],
                 <<EnvelopeWrite(e, form)>>, "waiting")
    BY <1>1 DEF Register
  <2> DEFINE o == [NoOp EXCEPT !.kind = "register", !.envelope = e]
  <2>2. o.simulated = FALSE /\ o.kind = "register"
    BY DEF NoOp
  <2> HIDE DEF o
  <2> QED
    BY <2>1, <2>2 DEF o
<1>2. CASE Authorize(w)
  <2>1. PICK e \in Records("decision_envelopes"), d \in Fresh(Decisions), by \in Authorizers :
           Start(w, [NoOp EXCEPT !.kind = "authorize", !.envelope = e.id, !.decision = d],
                 <<AuthorityWrite(d, e, by)>>, "waiting")
    BY <1>2 DEF Authorize
  <2> DEFINE o == [NoOp EXCEPT !.kind = "authorize", !.envelope = e.id, !.decision = d]
  <2>2. o.simulated = FALSE /\ o.kind = "authorize"
    BY DEF NoOp
  <2> HIDE DEF o
  <2> QED
    BY <2>1, <2>2 DEF o
<1>3. CASE CreatePlan(w)
  BY <1>3, PlanStarts
<1>4. CASE Simulate(w)
  <2>1. PICK q \in Records("execution_requests") :
           Start(w, [NoOp EXCEPT !.kind = "simulate", !.plan = q.id, !.decision = q.decision],
                 << >>, "waiting")
    BY <1>4 DEF Simulate
  <2> DEFINE o == [NoOp EXCEPT !.kind = "simulate", !.plan = q.id, !.decision = q.decision]
  <2>2. o.simulated = FALSE /\ o.kind = "simulate"
    BY DEF NoOp
  <2> HIDE DEF o
  <2> QED
    BY <2>1, <2>2 DEF o
<1>5. CASE RecordOutcome(w)
  <2>1. PICK q \in Records("execution_requests"), assessed \in Assessments :
           Start(w, [NoOp EXCEPT !.kind = "outcome", !.plan = q.id, !.assessed = assessed],
                 << >>, "reading")
    BY <1>5 DEF RecordOutcome
  <2> DEFINE o == [NoOp EXCEPT !.kind = "outcome", !.plan = q.id, !.assessed = assessed]
  <2>2. o.simulated = FALSE /\ o.kind = "outcome"
    BY DEF NoOp
  <2> HIDE DEF o
  <2> QED
    BY <2>1, <2>2 DEF o
<1>6. CASE ViewPlan(w)
  <2>1. PICK q \in Records("execution_requests") :
           Start(w, [NoOp EXCEPT !.kind = "view", !.plan = q.id], << >>, "reading")
    BY <1>6 DEF ViewPlan
  <2> DEFINE o == [NoOp EXCEPT !.kind = "view", !.plan = q.id]
  <2>2. o.simulated = FALSE /\ o.kind = "view"
    BY DEF NoOp
  <2> HIDE DEF o
  <2> QED
    BY <2>1, <2>2 DEF o
<1>7. CASE Backfill(w)
  <2>1. PICK g \in Records("gateway_decisions") :
           Start(w, [NoOp EXCEPT !.kind = "backfill", !.plan = g.id], << >>, "waiting")
    BY <1>7 DEF Backfill
  <2> DEFINE o == [NoOp EXCEPT !.kind = "backfill", !.plan = g.id]
  <2>2. o.simulated = FALSE /\ o.kind = "backfill"
    BY DEF NoOp
  <2> HIDE DEF o
  <2> QED
    BY <2>1, <2>2 DEF o
<1> QED
  BY <1>1, <1>2, <1>3, <1>4, <1>5, <1>6, <1>7

\* A read keeps what the operation is about.
LEMMA ReadKeeps ==
    ASSUME TypeOK, NEW w \in Workers, Read(w)
    PROVE  /\ draft'[w] = draft[w] /\ rows' = rows
           /\ phase[w] \in {"reading", "rereading"}
           /\ \/ phase'[w] = "idle" /\ op'[w] = NoOp
              \/ /\ phase'[w] = IF phase[w] = "reading" THEN "rereading"
                                ELSE IF op[w].kind = "outcome" THEN "waiting" ELSE "returned"
                 /\ op'[w].kind = op[w].kind /\ op'[w].plan = op[w].plan
<1> DEFINE o == op[w]
           receipts == {r.rec.id : r \in Keyed(rows, "shadow_execution_receipts", o.plan)}
           got == IF Reads(w) = "events" THEN [o EXCEPT !.simulated = ShownSimulated(o.plan)]
                  ELSE [o EXCEPT !.receipt = IF receipts = {} THEN NoId
                                             ELSE CHOOSE id \in receipts : TRUE]
<1>1. DOMAIN phase = Workers /\ DOMAIN op = Workers /\ o \in Operations
  BY DEF TypeOK
<1>2. /\ phase[w] \in {"reading", "rereading"} /\ UNCHANGED <<rows, draft>>
      /\ \/ phase' = [phase EXCEPT ![w] = "idle"] /\ op' = [op EXCEPT ![w] = NoOp]
         \/ /\ phase' = [phase EXCEPT ![w] = IF @ = "reading" THEN "rereading"
                                              ELSE IF o.kind = "outcome" THEN "waiting"
                                              ELSE "returned"]
            /\ op' = [op EXCEPT ![w] = got]
  BY DEF Read
<1> HIDE DEF receipts
<1>3. got.kind = o.kind /\ got.plan = o.plan
  BY <1>1 DEF Operations
<1> HIDE DEF got
<1> QED
  BY <1>1, <1>2, <1>3

-----------------------------------------------------------------------------
(***************************************************************************)
(* Retries.  A draft can only clash with a row under its key, and there is *)
(* none under an id that was never drawn before, none under the key of a   *)
(* receipt or an outcome that was looked for under its lock, and under the *)
(* key of an event only the very same event.                               *)
(***************************************************************************)
IdKeyed ==
    {"decision_envelopes", "authority_decisions", "execution_requests", "gateway_decisions"}

NewInLedger(w, collections) ==
    \A i \in DOMAIN draft[w] :
        draft[w][i].coll \in collections => Keyed(rows, draft[w][i].coll, draft[w][i].key) = {}

IdsApart ==
    \A v, w \in Workers : v # w =>
        \A i \in DOMAIN draft[v] : \A j \in DOMAIN draft[w] :
            draft[v][i].coll \in IdKeyed /\ draft[v][i].coll = draft[w][j].coll =>
                draft[v][i].key # draft[w][j].key

\* What the writes of an operation are about.
WriteConcerns(o, x) ==
    /\ x.coll \in {"execution_requests", "gateway_decisions"} => o.kind = "plan" /\ x.key = o.plan
    /\ x.coll = "gateway_decision_events" =>
          \/ x = CreatedWrite(o.plan)
          \/ o.kind \in {"simulate", "backfill"} /\ x.key = SimulatedKey(o.plan)
    /\ x.coll = "shadow_outcomes" =>
          o.kind = "outcome" /\ x.key = o.receipt /\ x.rec.plan = o.plan

Concerns(w) == \A i \in DOMAIN draft[w] : WriteConcerns(op[w], draft[w][i])

\* Only a transaction has writes, and these operations not before their callback.
DraftedInTime(w) ==
    /\ phase[w] \notin {"waiting", "open", "ready"} => draft[w] = << >>
    /\ op[w].kind \in {"simulate", "outcome", "backfill"} /\ phase[w] # "ready" =>
          draft[w] = << >>

CreatedNamesPlan ==
    \A p \in Plans : \A e \in Keyed(rows, "gateway_decision_events", CreatedKey(p)) :
        e.rec = CreatedWrite(p).rec

RetryInv ==
    /\ IdsApart /\ CreatedNamesPlan
    /\ \A w \in Workers :
          /\ NewInLedger(w, IdKeyed \cup {"shadow_outcomes"})
          /\ Concerns(w) /\ DraftedInTime(w)

\* The writes of w after a step are those before it, or under new ids.
IdsDrawn(w) ==
    \A i \in DOMAIN draft'[w] :
        draft'[w][i].coll \in IdKeyed =>
            \/ draft'[w][i].key \notin Used
            \/ \E j \in DOMAIN draft[w] : draft'[w][i] = draft[w][j]

LEMMA UnusedIsNew ==
    ASSUME TypeOK, NEW c \in IdKeyed, NEW k, k \notin Used
    PROVE  /\ Keyed(rows, c, k) = {}
           /\ \A v \in Workers : \A j \in DOMAIN draft[v] :
                 draft[v][j].coll = c => draft[v][j].key # k
<1>1. \A x : KeyOf(c, x) = x.id
  BY DEF KeyOf, IdKeyed
<1>2. ASSUME NEW r \in Keyed(rows, c, k) PROVE FALSE
  <2>1. r \in rows /\ r.coll = c /\ r.key = k /\ WellFormed(r)
    BY DEF Keyed, Group, TypeOK
  <2>2. r.rec.id = k
    BY <1>1, <2>1 DEF WellFormed
  <2> QED
    BY <2>1, <2>2 DEF Used
<1>3. ASSUME NEW v \in Workers, NEW j \in DOMAIN draft[v],
             draft[v][j].coll = c, draft[v][j].key = k
      PROVE  FALSE
  <2>1. WellFormed(draft[v][j])
    BY DEF TypeOK
  <2>2. draft[v][j].rec.id = k
    BY <1>1, <1>3, <2>1 DEF WellFormed
  <2>3. draft[v][j].rec.id \in Used
    BY DEF Used
  <2> QED
    BY <2>2, <2>3
<1> QED
  BY <1>2, <1>3

LEMMA NoWritesConcern ==
    ASSUME NEW w \in Workers, draft'[w] = << >>
    PROVE  Concerns(w)' /\ DraftedInTime(w)' /\ IdsDrawn(w)
           /\ NewInLedger(w, {"shadow_outcomes"})'
BY DEF Concerns, DraftedInTime, IdsDrawn, NewInLedger

\* One write of a collection that no operation with a callback of its own writes to.
LEMMA OneWriteConcerns ==
    ASSUME NEW w \in Workers, NEW x, draft'[w] = <<x>>,
           x.coll \in {"decision_envelopes", "authority_decisions"}, x.key \notin Used,
           phase'[w] = "waiting", op'[w].kind \in {"register", "authorize"}
    PROVE  Concerns(w)' /\ DraftedInTime(w)' /\ IdsDrawn(w)
           /\ NewInLedger(w, {"shadow_outcomes"})'
<1>1. DOMAIN draft'[w] = {1} /\ draft'[w][1] = x
  OBVIOUS
<1> QED
  BY <1>1 DEF Concerns, WriteConcerns, DraftedInTime, IdsDrawn, NewInLedger

LEMMA StartsConcern ==
    ASSUME TypeOK, NEW w \in Workers,
           \/ Register(w) \/ Authorize(w) \/ CreatePlan(w) \/ Simulate(w)
           \/ RecordOutcome(w) \/ ViewPlan(w) \/ Backfill(w)
    PROVE  Concerns(w)' /\ DraftedInTime(w)' /\ IdsDrawn(w)
           /\ NewInLedger(w, {"shadow_outcomes"})'
<1>1. CASE Register(w)
  <2>1. PICK e \in Fresh(Envelopes), form \in Forms :
           Start(w, [NoOp EXCEPT !.kind = "register", !.envelope = e],
                 <<EnvelopeWrite(e, form)>>, "waiting")
    BY <1>1 DEF Register
  <2> DEFINE x == EnvelopeWrite(e, form)
             o == [NoOp EXCEPT !.kind = "register", !.envelope = e]
  <2>2. o.kind = "register" /\ x.coll = "decision_envelopes" /\ x.key = e /\ e \notin Used
    BY DEF NoOp, EnvelopeWrite, Write, Fresh
  <2>3. draft'[w] = <<x>> /\ op'[w] = o /\ phase'[w] = "waiting"
    BY <2>1, Started
  <2> HIDE DEF x, o
  <2> QED
    BY <2>2, <2>3, OneWriteConcerns
<1>2. CASE Authorize(w)
  <2>1. PICK e \in Records("decision_envelopes"), d \in Fresh(Decisions), by \in Authorizers :
           Start(w, [NoOp EXCEPT !.kind = "authorize", !.envelope = e.id, !.decision = d],
                 <<AuthorityWrite(d, e, by)>>, "waiting")
    BY <1>2 DEF Authorize
  <2> DEFINE x == AuthorityWrite(d, e, by)
             o == [NoOp EXCEPT !.kind = "authorize", !.envelope = e.id, !.decision = d]
  <2>2. o.kind = "authorize" /\ x.coll = "authority_decisions" /\ x.key = d /\ d \notin Used
    BY DEF NoOp, AuthorityWrite, Write, Fresh
  <2>3. draft'[w] = <<x>> /\ op'[w] = o /\ phase'[w] = "waiting"
    BY <2>1, Started
  <2> HIDE DEF x, o
  <2> QED
    BY <2>2, <2>3, OneWriteConcerns
<1>3. CASE CreatePlan(w)
  <2>1. PICK p \in Fresh(Plans) : \E o, q, gateway :
           /\ o.kind = "plan" /\ o.plan = p /\ q.id = p
           /\ Start(w, o, <<Write("execution_requests", p, q),
                            Write("gateway_decisions", p, gateway), CreatedWrite(p)>>, "waiting")
    BY <1>3, PlanStarts
  <2>2. PICK o, q, gateway :
           /\ o.kind = "plan" /\ o.plan = p /\ q.id = p
           /\ Start(w, o, <<Write("execution_requests", p, q),
                            Write("gateway_decisions", p, gateway), CreatedWrite(p)>>, "waiting")
    BY <2>1
  <2> DEFINE writes == <<Write("execution_requests", p, q),
                         Write("gateway_decisions", p, gateway), CreatedWrite(p)>>
  <2>3. /\ DOMAIN writes = {1, 2, 3} /\ p \notin Used
        /\ writes[1].coll = "execution_requests" /\ writes[1].key = p
        /\ writes[2].coll = "gateway_decisions" /\ writes[2].key = p
        /\ writes[3] = CreatedWrite(p) /\ writes[3].coll = "gateway_decision_events"
    BY DEF Write, CreatedWrite, EventWrite, Fresh
  <2>4. draft'[w] = writes /\ op'[w] = o /\ phase'[w] = "waiting"
    BY <2>2, Started
  <2> HIDE DEF writes
  <2>5. \A i \in DOMAIN writes : WriteConcerns(o, writes[i])
    BY <2>2, <2>3 DEF WriteConcerns
  <2>6. IdsDrawn(w) /\ NewInLedger(w, {"shadow_outcomes"})'
    BY <2>3, <2>4 DEF IdsDrawn, IdKeyed, NewInLedger
  <2> QED
    BY <2>2, <2>4, <2>5, <2>6 DEF Concerns, DraftedInTime
<1>4. CASE Simulate(w) \/ RecordOutcome(w) \/ ViewPlan(w) \/ Backfill(w)
  <2>1. draft'[w] = << >>
    BY <1>4, Started DEF Simulate, RecordOutcome, ViewPlan, Backfill
  <2> QED
    BY <2>1, NoWritesConcern
<1> QED
  BY <1>1, <1>2, <1>3, <1>4

LEMMA CallbackConcerns ==
    ASSUME TypeOK, NEW w \in Workers, Concerns(w), DraftedInTime(w),
           NewInLedger(w, {"shadow_outcomes"}),
           WritePrepared(w) \/ SimulateCallback(w) \/ OutcomeCallback(w) \/ BackfillCallback(w)
    PROVE  Concerns(w)' /\ DraftedInTime(w)' /\ IdsDrawn(w)
           /\ NewInLedger(w, {"shadow_outcomes"})'
<1>0. /\ \A p : CreatedWrite(p).coll = "gateway_decision_events"
      /\ \A p, s : /\ SimulatedWrite(p, s).coll = "gateway_decision_events"
                   /\ SimulatedWrite(p, s).key = SimulatedKey(p)
  BY DEF CreatedWrite, SimulatedWrite, EventWrite, Write
<1>1. CASE WritePrepared(w)
  <2>1. draft'[w] = draft[w] /\ op'[w] = op[w] /\ phase'[w] = "ready" /\ rows' = rows
    BY <1>1, Written DEF WritePrepared
  <2> QED
    BY <2>1 DEF Concerns, DraftedInTime, IdsDrawn, NewInLedger
<1>2. CASE SimulateCallback(w)
  <2>1. PICK q \in Records("execution_requests") :
           /\ op[w].kind = "simulate" /\ q.id = op[w].plan
           /\ \/ \E source : Wrote(w, <<SimulatedWrite(q.id, source)>>)
              \/ \E id : Wrote(w, <<ReceiptWrite(id, q), SimulatedWrite(q.id, id)>>)
    BY <1>2 DEF SimulateCallback
  <2>2. CASE \E source : Wrote(w, <<SimulatedWrite(q.id, source)>>)
    <3>1. PICK source : Wrote(w, <<SimulatedWrite(q.id, source)>>)
      BY <2>2
    <3>2. draft'[w] = <<SimulatedWrite(q.id, source)>> /\ op'[w] = op[w] /\ phase'[w] = "ready"
      BY <3>1, Written
    <3>3. DOMAIN draft'[w] = {1} /\ draft'[w][1] = SimulatedWrite(q.id, source)
      BY <3>2
    <3> QED
      BY <1>0, <2>1, <3>2, <3>3
      DEF Concerns, WriteConcerns, DraftedInTime, IdsDrawn, IdKeyed, NewInLedger
  <2>3. CASE \E id : Wrote(w, <<ReceiptWrite(id, q), SimulatedWrite(q.id, id)>>)
    <3>1. PICK id : Wrote(w, <<ReceiptWrite(id, q), SimulatedWrite(q.id, id)>>)
      BY <2>3
    <3> DEFINE receipt == ReceiptWrite(id, q)
    <3>2. receipt.coll = "shadow_execution_receipts"
      BY DEF ReceiptWrite, Write
    <3> HIDE DEF receipt
    <3>3. /\ draft'[w] = <<receipt, SimulatedWrite(q.id, id)>>
          /\ op'[w] = op[w] /\ phase'[w] = "ready"
      BY <3>1, Written DEF receipt
    <3>4. /\ DOMAIN draft'[w] = {1, 2}
          /\ draft'[w][1] = receipt /\ draft'[w][2] = SimulatedWrite(q.id, id)
      BY <3>3
    <3> QED
      BY <1>0, <2>1, <3>2, <3>3, <3>4
      DEF Concerns, WriteConcerns, DraftedInTime, IdsDrawn, IdKeyed, NewInLedger
  <2> QED
    BY <2>1, <2>2, <2>3
<1>3. CASE OutcomeCallback(w)
  <2>1. PICK q \in Records("execution_requests") :
           /\ op[w].kind = "outcome" /\ q.id = op[w].plan
           /\ \/ Wrote(w, << >>)
              \/ /\ Keyed(rows, "shadow_outcomes", op[w].receipt) = {}
                 /\ \E id : Wrote(w, <<OutcomeWrite(id, q, op[w].receipt, op[w].assessed)>>)
    BY <1>3 DEF OutcomeCallback
  <2>2. CASE Wrote(w, << >>)
    BY <2>2, Written, NoWritesConcern
  <2>3. CASE /\ Keyed(rows, "shadow_outcomes", op[w].receipt) = {}
             /\ \E id : Wrote(w, <<OutcomeWrite(id, q, op[w].receipt, op[w].assessed)>>)
    <3>1. PICK id : Wrote(w, <<OutcomeWrite(id, q, op[w].receipt, op[w].assessed)>>)
      BY <2>3
    <3> DEFINE x == OutcomeWrite(id, q, op[w].receipt, op[w].assessed)
    <3>2. x.coll = "shadow_outcomes" /\ x.key = op[w].receipt /\ x.rec.plan = op[w].plan
      BY <2>1 DEF OutcomeWrite, Write
    <3> HIDE DEF x
    <3>3. draft'[w] = <<x>> /\ op'[w] = op[w] /\ phase'[w] = "ready" /\ rows' = rows
      BY <3>1, Written DEF x
    <3>4. DOMAIN draft'[w] = {1} /\ draft'[w][1] = x
      BY <3>3
    <3>5. WriteConcerns(op[w], x)
      BY <2>1, <3>2 DEF WriteConcerns
    <3> QED
      BY <2>3, <3>2, <3>3, <3>4, <3>5
      DEF Concerns, DraftedInTime, IdsDrawn, IdKeyed, NewInLedger
  <2> QED
    BY <2>1, <2>2, <2>3
<1>4. CASE BackfillCallback(w)
  <2>1. PICK g \in Records("gateway_decisions") :
           /\ op[w].kind = "backfill" /\ g.id = op[w].plan
           /\ \/ Wrote(w, <<CreatedWrite(g.id)>>)
              \/ \E source : Wrote(w, <<CreatedWrite(g.id), SimulatedWrite(g.id, source)>>)
    BY <1>4 DEF BackfillCallback
  <2>2. CASE Wrote(w, <<CreatedWrite(g.id)>>)
    <3>1. draft'[w] = <<CreatedWrite(g.id)>> /\ op'[w] = op[w] /\ phase'[w] = "ready"
      BY <2>2, Written
    <3>2. DOMAIN draft'[w] = {1} /\ draft'[w][1] = CreatedWrite(g.id)
      BY <3>1
    <3> QED
      BY <1>0, <2>1, <3>1, <3>2
      DEF Concerns, WriteConcerns, DraftedInTime, IdsDrawn, IdKeyed, NewInLedger
  <2>3. CASE \E source : Wrote(w, <<CreatedWrite(g.id), SimulatedWrite(g.id, source)>>)
    <3>1. PICK source : Wrote(w, <<CreatedWrite(g.id), SimulatedWrite(g.id, source)>>)
      BY <2>3
    <3>2. /\ draft'[w] = <<CreatedWrite(g.id), SimulatedWrite(g.id, source)>>
          /\ op'[w] = op[w] /\ phase'[w] = "ready"
      BY <3>1, Written
    <3>3. /\ DOMAIN draft'[w] = {1, 2} /\ draft'[w][1] = CreatedWrite(g.id)
          /\ draft'[w][2] = SimulatedWrite(g.id, source)
      BY <3>2
    <3> QED
      BY <1>0, <2>1, <3>2, <3>3
      DEF Concerns, WriteConcerns, DraftedInTime, IdsDrawn, IdKeyed, NewInLedger
  <2> QED
    BY <2>1, <2>2, <2>3
<1> QED
  BY <1>1, <1>2, <1>3, <1>4

LEMMA WorkConcerns ==
    ASSUME TypeOK, RetryInv, NEW w \in Workers, Work(w)
    PROVE  Concerns(w)' /\ DraftedInTime(w)' /\ IdsDrawn(w)
           /\ NewInLedger(w, {"shadow_outcomes"})'
<1>0. Concerns(w) /\ DraftedInTime(w) /\ NewInLedger(w, {"shadow_outcomes"})
  BY DEF RetryInv, NewInLedger
<1>1. CASE Read(w)
  <2>1. draft[w] = << >>
    BY <1>0, <1>1, ReadKeeps DEF DraftedInTime
  <2> QED
    BY <1>1, <2>1, ReadKeeps, NoWritesConcern
<1>2. CASE Lock(w)
  BY <1>0, <1>2, Locked DEF Concerns, DraftedInTime, IdsDrawn, NewInLedger
<1>3. CASE Commit(w)
  BY <1>3, Committed, NoWritesConcern
<1>4. CASE Return(w) \/ Abort(w)
  BY <1>4, Ended, NoWritesConcern
<1> QED
  BY <1>0, <1>1, <1>2, <1>3, <1>4, StartsConcern, CallbackConcerns DEF Work

LEMMA OneRowUnderKey ==
    ASSUME OneRowPerKey(rows), NEW c, NEW k, NEW r \in Keyed(rows, c, k), NEW s \in Keyed(rows, c, k)
    PROVE  r = s
BY DEF OneRowPerKey, Keyed, Group

\* Two event records of one key that have one source are the same.
LEMMA SameEvent ==
    ASSUME NEW x, NEW y, WellFormed(x), WellFormed(y), x.coll = "gateway_decision_events",
           y.coll = "gateway_decision_events", x.key = y.key, x.rec.source = y.rec.source
    PROVE  x.rec = y.rec
<1>1. x.rec \in RecordOf["gateway_decision_events"] /\ y.rec \in RecordOf["gateway_decision_events"]
  BY DEF WellFormed
<1>2. x.rec.id = x.key /\ y.rec.id = y.key
  BY DEF WellFormed, KeyOf
<1>3. x.rec = [id |-> x.rec.id, source |-> x.rec.source]
      /\ y.rec = [id |-> y.rec.id, source |-> y.rec.source]
  BY <1>1 DEF RecordOf
<1> QED
  BY <1>2, <1>3

LEMMA EventKeys ==
    ASSUME NEW x, WellFormed(x), x.coll = "gateway_decision_events"
    PROVE  \E p \in Plans : x.key = CreatedKey(p) \/ x.key = SimulatedKey(p)
<1>1. x.rec \in RecordOf["gateway_decision_events"] /\ x.key = x.rec.id
  BY DEF WellFormed, KeyOf
<1>2. x.key \in UNION {{CreatedKey(p), SimulatedKey(p)} : p \in Plans}
  BY <1>1 DEF RecordOf
<1> QED
  BY <1>2

LEMMA CreatedKeyNames ==
    \A p, q : CreatedKey(p) = CreatedKey(q) => p = q
BY DEF CreatedKey

\* What is prepared under the key of a row is the record of that row.
LEMMA NoClash ==
    ASSUME TypeOK, LedgerSound, EventsInv, RetryInv, NEW w \in Workers
    PROVE  ~Clash(w)
<1> SUFFICES ASSUME NEW i \in DOMAIN draft[w],
                    NEW r \in Keyed(rows, draft[w][i].coll, draft[w][i].key)
             PROVE  r.rec = draft[w][i].rec
  BY DEF Clash
<1> DEFINE x == draft[w][i]
<1>1. WellFormed(x) /\ WellFormed(r) /\ r.coll = x.coll /\ r.key = x.key
  BY DEF TypeOK, Keyed, Group
<1>2. x.coll \notin IdKeyed \cup {"shadow_outcomes"}
  BY DEF RetryInv, NewInLedger
<1>3. x.coll # "shadow_execution_receipts"
  BY DEF EventsInv, DraftMatches, ReceiptPrepared, ReceiptsOf
<1>4. x.coll = "gateway_decision_events"
  BY <1>1, <1>2, <1>3 DEF WellFormed, Collections, IdKeyed
<1>5. WriteConcerns(op[w], x)
  BY DEF RetryInv, Concerns
<1>6. DraftMatches(w) /\ EventsMatch(rows)
  BY DEF EventsInv
<1> HIDE DEF x
<1>7. PICK p \in Plans : x.key = CreatedKey(p) \/ x.key = SimulatedKey(p)
  BY <1>1, <1>4, EventKeys
<1>8. CASE x.key = CreatedKey(p)
  <2>1. x = CreatedWrite(op[w].plan)
    BY <1>4, <1>5, <1>8, KeysDiffer DEF WriteConcerns
  <2>2. op[w].plan = p
    BY <1>8, <2>1, CreatedKeyNames DEF CreatedWrite, EventWrite, Write
  <2>3. r \in Keyed(rows, "gateway_decision_events", CreatedKey(p))
    BY <1>4, <1>8 DEF x
  <2>4. r.rec = CreatedWrite(p).rec
    BY <2>3 DEF RetryInv, CreatedNamesPlan
  <2> QED
    BY <2>1, <2>2, <2>4 DEF x
<1>9. CASE x.key = SimulatedKey(p)
  <2>1. r \in Keyed(rows, "gateway_decision_events", SimulatedKey(p))
    BY <1>4, <1>9 DEF x
  <2>2. PICK s \in ReceiptsOf(rows, p) : s.rec.id = r.rec.source
    BY <1>6, <2>1 DEF EventsMatch, ReceiptsOf
  <2>3. EventPrepared(w, p, x)
    BY <1>4, <1>6, <1>9 DEF DraftMatches, x
  <2>4. ~\E j \in DOMAIN draft[w] :
            draft[w][j].coll = "shadow_execution_receipts" /\ draft[w][j].key = p
    BY <1>6, <2>2 DEF DraftMatches, ReceiptPrepared
  <2>5. PICK t \in ReceiptsOf(rows, p) : t.rec.id = x.rec.source
    BY <2>3, <2>4 DEF EventPrepared
  <2>6. s = t
    BY OneRowUnderKey DEF ReceiptsOf, LedgerSound
  <2>7. r.rec.source = x.rec.source
    BY <2>2, <2>5, <2>6
  <2> QED
    BY <1>1, <1>4, <2>7, SameEvent DEF x
<1> QED
  BY <1>7, <1>8, <1>9 DEF x

\* A new row is one that was prepared.
LEMMA NewRowWasDrafted ==
    ASSUME TypeOK, NEW w \in Workers, Commit(w), NEW r \in rows', r \notin rows
    PROVE  \E i \in DOMAIN draft[w] :
              r.coll = draft[w][i].coll /\ r.key = draft[w][i].key /\ r.rec = draft[w][i].rec
<1>1. rows' = Published(rows, draft[w])
  BY Committed
<1> QED
  BY <1>1, PublishedRows DEF NewWrites

LEMMA RowsGrow ==
    ASSUME TypeOK, NEW w \in Workers, Work(w)
    PROVE  rows \subseteq rows'
<1>1. CASE Commit(w)
  BY <1>1, Committed, PublishedRows
<1> QED
  BY <1>1, OtherWorkersKept

(***************************************************************************)
(* No two transactions that are under way publish under the same key of an *)
(* outcome: they would have the same lock.                                 *)
(***************************************************************************)
LEMMA OneOutcomeUnderWay ==
    ASSUME TypeOK, LocksExclusive, RetryInv, NEW v \in Workers, NEW w \in Workers, v # w,
           NEW i \in DOMAIN draft[v], NEW j \in DOMAIN draft[w],
           draft[v][i].coll = "shadow_outcomes", draft[w][j].coll = "shadow_outcomes"
    PROVE  draft[v][i].key # draft[w][j].key
<1> SUFFICES ASSUME draft[v][i].key = draft[w][j].key PROVE FALSE
  OBVIOUS
<1>1. WriteConcerns(op[v], draft[v][i]) /\ WriteConcerns(op[w], draft[w][j])
  BY DEF RetryInv, Concerns
<1>2. /\ op[v].kind = "outcome" /\ op[w].kind = "outcome"
      /\ op[v].receipt = op[w].receipt
  BY <1>1 DEF WriteConcerns
<1>3. InTransaction(v) /\ InTransaction(w)
  BY <1>2 DEF RetryInv, DraftedInTime, InTransaction
<1>4. /\ KeyLock("shadow_outcomes", op[v].receipt) \in Locks(op[v])
      /\ KeyLock("shadow_outcomes", op[v].receipt) \in Locks(op[w])
  BY <1>2 DEF Locks, OutcomeLocks, ChainAndKey
<1> QED
  BY <1>3, <1>4 DEF LocksExclusive

LEMMA OthersStayNew ==
    ASSUME TypeOK, LocksExclusive, RetryInv, NEW w \in Workers, Work(w),
           NEW v \in Workers, v # w
    PROVE  NewInLedger(v, IdKeyed \cup {"shadow_outcomes"})'
<1>1. draft'[v] = draft[v] /\ (Commit(w) \/ UNCHANGED rows)
  BY OtherWorkersKept
<1>2. NewInLedger(v, IdKeyed \cup {"shadow_outcomes"})
  BY DEF RetryInv
<1>3. CASE UNCHANGED rows
  BY <1>1, <1>2, <1>3 DEF NewInLedger
<1>4. CASE Commit(w)
  <2> SUFFICES ASSUME NEW i \in DOMAIN draft[v],
                      draft[v][i].coll \in IdKeyed \cup {"shadow_outcomes"},
                      NEW r \in Keyed(rows', draft[v][i].coll, draft[v][i].key)
               PROVE  FALSE
    BY <1>1 DEF NewInLedger
  <2>1. r \in rows' /\ r.coll = draft[v][i].coll /\ r.key = draft[v][i].key
    BY DEF Keyed, Group
  <2>2. r \notin rows
    BY <1>2, <2>1 DEF NewInLedger, Keyed, Group
  <2>3. PICK j \in DOMAIN draft[w] : r.coll = draft[w][j].coll /\ r.key = draft[w][j].key
    BY <1>4, <2>1, <2>2, NewRowWasDrafted
  <2>4. CASE draft[v][i].coll \in IdKeyed
    BY <2>1, <2>3, <2>4 DEF RetryInv, IdsApart
  <2>5. CASE draft[v][i].coll = "shadow_outcomes"
    BY <2>1, <2>3, <2>5, OneOutcomeUnderWay
  <2> QED
    BY <2>4, <2>5
<1> QED
  BY <1>1, <1>3, <1>4

LEMMA WorkRetries ==
    ASSUME TypeOK, LocksExclusive, RetryInv, NEW w \in Workers, Work(w)
    PROVE  RetryInv'
<1>0. /\ \A v \in Workers \ {w} : draft'[v] = draft[v] /\ phase'[v] = phase[v] /\ op'[v] = op[v]
      /\ Commit(w) \/ UNCHANGED rows
  BY OtherWorkersKept
<1>1. IdsDrawn(w) /\ Concerns(w)' /\ DraftedInTime(w)' /\ NewInLedger(w, {"shadow_outcomes"})'
  BY WorkConcerns
<1>2. ASSUME NEW i \in DOMAIN draft'[w], draft'[w][i].coll \in IdKeyed
      PROVE  /\ UNCHANGED rows => Keyed(rows, draft'[w][i].coll, draft'[w][i].key) = {}
             /\ \A v \in Workers \ {w} : \A j \in DOMAIN draft[v] :
                   draft[v][j].coll = draft'[w][i].coll => draft[v][j].key # draft'[w][i].key
  <2>1. CASE draft'[w][i].key \notin Used
    BY <1>2, <2>1, UnusedIsNew
  <2>2. CASE \E j \in DOMAIN draft[w] : draft'[w][i] = draft[w][j]
    BY <1>2, <2>2 DEF RetryInv, IdsApart, NewInLedger
  <2> QED
    BY <1>1, <1>2, <2>1, <2>2 DEF IdsDrawn
<1>3. NewInLedger(w, IdKeyed \cup {"shadow_outcomes"})'
  <2>1. CASE Commit(w)
    BY <2>1, Committed DEF NewInLedger
  <2>2. CASE UNCHANGED rows
    BY <1>1, <1>2, <2>2 DEF NewInLedger
  <2> QED
    BY <1>0, <2>1, <2>2
<1>4. IdsApart'
  <2> SUFFICES ASSUME NEW u \in Workers, NEW v \in Workers, u # v,
                      NEW i \in DOMAIN draft'[u], NEW j \in DOMAIN draft'[v],
                      draft'[u][i].coll \in IdKeyed, draft'[u][i].coll = draft'[v][j].coll
               PROVE  draft'[u][i].key # draft'[v][j].key
    BY DEF IdsApart
  <2>1. CASE u = w
    BY <1>0, <1>2, <2>1
  <2>2. CASE v = w
    BY <1>0, <1>2, <2>2
  <2>3. CASE u # w /\ v # w
    BY <1>0, <2>3 DEF RetryInv, IdsApart
  <2> QED
    BY <2>1, <2>2, <2>3
<1>5. CreatedNamesPlan'
  <2> SUFFICES ASSUME NEW p \in Plans,
                      NEW e \in Keyed(rows', "gateway_decision_events", CreatedKey(p))
               PROVE  e.rec = CreatedWrite(p).rec
    BY DEF CreatedNamesPlan
  <2>1. e \in rows' /\ e.coll = "gateway_decision_events" /\ e.key = CreatedKey(p)
    BY DEF Keyed, Group
  <2>2. CASE e \in rows
    BY <2>1, <2>2 DEF RetryInv, CreatedNamesPlan, Keyed, Group
  <2>3. CASE e \notin rows
    <3>1. PICK i \in DOMAIN draft[w] :
             e.coll = draft[w][i].coll /\ e.key = draft[w][i].key /\ e.rec = draft[w][i].rec
      BY <1>0, <2>1, <2>3, NewRowWasDrafted
    <3>2. WriteConcerns(op[w], draft[w][i])
      BY DEF RetryInv, Concerns
    <3>3. draft[w][i] = CreatedWrite(op[w].plan)
      BY <2>1, <3>1, <3>2, KeysDiffer DEF WriteConcerns
    <3>4. op[w].plan = p
      <4>1. \A q : CreatedWrite(q).key = CreatedKey(q)
        BY DEF CreatedWrite, EventWrite, Write
      <4>2. CreatedKey(op[w].plan) = CreatedKey(p)
        BY ONLY <2>1, <3>1, <3>3, <4>1
      <4> QED
        BY ONLY <4>2, CreatedKeyNames
    <3> QED
      BY <3>1, <3>3, <3>4
  <2> QED
    BY <2>2, <2>3
<1>6. ASSUME NEW v \in Workers, v # w
      PROVE  /\ NewInLedger(v, IdKeyed \cup {"shadow_outcomes"})'
             /\ Concerns(v)' /\ DraftedInTime(v)'
  <2>1. Concerns(v) /\ DraftedInTime(v)
    BY DEF RetryInv
  <2>2. draft'[v] = draft[v] /\ phase'[v] = phase[v] /\ op'[v] = op[v]
    BY <1>0, <1>6
  <2>3. Concerns(v)' /\ DraftedInTime(v)'
    BY <2>1, <2>2 DEF Concerns, DraftedInTime
  <2>4. NewInLedger(v, IdKeyed \cup {"shadow_outcomes"})'
    BY <1>6, OthersStayNew
  <2> QED
    BY <2>3, <2>4
<1> QED
  BY <1>1, <1>3, <1>4, <1>5, <1>6 DEF RetryInv

LEMMA InitRetries == Init => RetryInv
<1> SUFFICES ASSUME Init PROVE RetryInv
  OBVIOUS
<1>1. CreatedNamesPlan
  BY LegacyAssumption DEF Init, LineageIntact, CreatedNamesPlan
<1>2. \A w \in Workers : draft[w] = << >>
  BY DEF Init
<1> QED
  BY <1>1, <1>2 DEF RetryInv, IdsApart, NewInLedger, Concerns, DraftedInTime

\* What is about to be written is new, or the very record that is there.
THEOREM RetriesInvariant == Spec => []RetryInv
<1>1. TypeOK /\ EventsInv /\ RetryInv /\ [Next]_vars => RetryInv'
  <2> SUFFICES ASSUME TypeOK, EventsInv, RetryInv, [Next]_vars PROVE RetryInv'
    OBVIOUS
  <2>1. CASE Next
    BY <2>1, WorkRetries DEF Next, EventsInv
  <2>2. CASE UNCHANGED vars
    BY <2>2 DEF vars, RetryInv, IdsApart, CreatedNamesPlan, NewInLedger, Concerns, DraftedInTime
  <2> QED
    BY <2>1, <2>2
<1> QED
  BY <1>1, InitRetries, Typing, EventsInvariant, PTL DEF Spec

LEMMA NoConflictArises ==
    ASSUME TypeOK, LedgerSound, EventsInv, RetryInv, RetriesNeverConflict, NEW w \in Workers, Work(w)
    PROVE  RetriesNeverConflict'
<1>1. \A v \in Workers \ {w} : phase'[v] = phase[v]
  BY OtherWorkersKept
<1>2. phase'[w] # "conflict"
  <2>1. CASE \/ Register(w) \/ Authorize(w) \/ CreatePlan(w) \/ Simulate(w)
             \/ RecordOutcome(w) \/ ViewPlan(w) \/ Backfill(w)
    BY ONLY <2>1, OperationStarts, TypeOK, w \in Workers
  <2>4. CASE Read(w)
    BY <2>4, ReadKeeps
  <2>5. CASE Lock(w)
    BY <2>5, Locked
  <2>6. CASE WritePrepared(w) \/ SimulateCallback(w) \/ OutcomeCallback(w) \/ BackfillCallback(w)
    <3>1. \E writes : Wrote(w, writes)
      BY <2>6 DEF WritePrepared, SimulateCallback, OutcomeCallback, BackfillCallback
    <3> QED
      BY <3>1, Written
  <2>7. CASE Commit(w)
    BY <2>7, Committed, NoClash
  <2>8. CASE Return(w) \/ Abort(w)
    BY <2>8, Ended
  <2> QED
    BY <2>1, <2>4, <2>5, <2>6, <2>7, <2>8 DEF Work
<1> QED
  BY <1>1, <1>2 DEF RetriesNeverConflict

(***************************************************************************)
(* No caller is told DuplicateCanonicalKey, however many simulations,      *)
(* outcomes, backfills and retries of them overlap.                        *)
(***************************************************************************)
THEOREM Retries == Spec => []RetriesNeverConflict
<1>1. Init => RetriesNeverConflict
  BY DEF Init, RetriesNeverConflict
<1>2. TypeOK /\ LedgerSound /\ EventsInv /\ RetryInv /\ RetriesNeverConflict /\ [Next]_vars
         => RetriesNeverConflict'
  <2>1. ASSUME TypeOK, LedgerSound, EventsInv, RetryInv, RetriesNeverConflict, Next
        PROVE  RetriesNeverConflict'
    BY <2>1, NoConflictArises DEF Next
  <2>2. ASSUME RetriesNeverConflict, UNCHANGED vars PROVE RetriesNeverConflict'
    BY <2>2 DEF vars, RetriesNeverConflict
  <2> QED
    BY <2>1, <2>2
<1> QED
  BY <1>1, <1>2, Typing, Soundness, EventsInvariant, RetriesInvariant, PTL DEF Spec

-----------------------------------------------------------------------------
(***************************************************************************)
(* Views.  What was read of a plan's events stays true, because rows never *)
(* change; so the receipt, which is there with its event, is found by the  *)
(* read that comes after.                                                  *)
(***************************************************************************)
EventOf(R, p) == Keyed(R, "gateway_decision_events", SimulatedKey(p))

ReadInv(w) ==
    /\ op[w].simulated => EventOf(rows, op[w].plan) # {}
    /\ op[w].simulated /\ phase[w] \notin {"reading", "rereading"} => op[w].receipt \in Receipts
    /\ op[w].kind = "outcome" /\ phase[w] \in {"rereading", "waiting", "open", "ready"} =>
          op[w].simulated

AllRead == \A w \in Workers : ReadInv(w)

LEMMA SimulatedHasReceipt ==
    ASSUME TypeOK, EventsMatch(rows), NEW p, EventOf(rows, p) # {}
    PROVE  p \in Plans /\ ReceiptsOf(rows, p) # {}
<1>1. PICK e \in rows : e.coll = "gateway_decision_events" /\ e.key = SimulatedKey(p)
  BY DEF EventOf, Keyed, Group
<1>2. WellFormed(e)
  BY DEF TypeOK
<1>3. PICK q \in Plans : e.key = CreatedKey(q) \/ e.key = SimulatedKey(q)
  BY <1>1, <1>2, EventKeys
<1>4. p = q
  BY <1>1, <1>3, KeysDiffer
<1> QED
  BY <1>3, <1>4 DEF EventsMatch, EventOf, ReceiptsOf

LEMMA ReadReads ==
    ASSUME TypeOK, EventsMatch(rows), NEW w \in Workers, ReadInv(w), Read(w)
    PROVE  ReadInv(w)'
<1> DEFINE o == op[w]
           receipts == {r.rec.id : r \in Keyed(rows, "shadow_execution_receipts", o.plan)}
           got == IF Reads(w) = "events" THEN [o EXCEPT !.simulated = ShownSimulated(o.plan)]
                  ELSE [o EXCEPT !.receipt = IF receipts = {} THEN NoId
                                             ELSE CHOOSE id \in receipts : TRUE]
           missed == IF Reads(w) = "events" THEN ~got.simulated ELSE got.receipt = NoId
<1>1. DOMAIN phase = Workers /\ DOMAIN op = Workers /\ o \in Operations
  BY DEF TypeOK
<1>2. /\ phase[w] \in {"reading", "rereading"} /\ rows' = rows
      /\ \/ phase' = [phase EXCEPT ![w] = "idle"] /\ op' = [op EXCEPT ![w] = NoOp]
         \/ /\ ~(o.kind = "outcome" /\ missed)
            /\ phase' = [phase EXCEPT ![w] = IF @ = "reading" THEN "rereading"
                                              ELSE IF o.kind = "outcome" THEN "waiting"
                                              ELSE "returned"]
            /\ op' = [op EXCEPT ![w] = got]
  BY DEF Read
<1>3. receipts \subseteq Receipts
  BY ReceiptIds
<1>4. (phase[w] = "reading") <=> (Reads(w) = "events")
  BY DEF Reads, ReadOrder
<1>5. o.simulated => receipts # {}
  BY SimulatedHasReceipt DEF ReadInv, ReceiptsOf
<1>6. CASE op'[w] = NoOp /\ phase'[w] = "idle"
  BY <1>6 DEF ReadInv, NoOp
<1>7. CASE /\ phase[w] = "reading" /\ phase'[w] = "rereading" /\ op'[w] = got
           /\ ~(o.kind = "outcome" /\ missed)
  <2>1. Reads(w) = "events"
    BY <1>4, <1>7
  <2>2. /\ got.simulated = ShownSimulated(o.plan) /\ got.kind = o.kind /\ got.plan = o.plan
    <3>1. got = [o EXCEPT !.simulated = ShownSimulated(o.plan)]
      BY <2>1
    <3> HIDE DEF got, o
    <3> QED
      BY <1>1, <3>1 DEF Operations
  <2>3. got.kind = "outcome" => got.simulated
    BY <1>7, <2>1, <2>2
  <2>4. ShownSimulated(o.plan) => EventOf(rows, o.plan) # {}
    BY DEF ShownSimulated, FirstPage, EventOf, Keyed
  <2> HIDE DEF got
  <2> QED
    BY <1>2, <1>7, <2>2, <2>3, <2>4 DEF ReadInv
<1>8. CASE phase[w] = "rereading" /\ op'[w] = got
  <2>1. Reads(w) # "events"
    BY <1>2, <1>4, <1>8
  <2>2. receipts # {} => (CHOOSE id \in receipts : TRUE) \in Receipts
    BY <1>3
  <2> HIDE DEF receipts
  <2>3. /\ got.simulated = o.simulated /\ got.kind = o.kind /\ got.plan = o.plan
        /\ receipts # {} => got.receipt \in Receipts
    BY <1>1, <2>1, <2>2 DEF Operations
  <2>4. op[w].kind = "outcome" => op[w].simulated
    BY <1>8 DEF ReadInv
  <2> HIDE DEF got
  <2> QED
    BY <1>2, <1>5, <1>8, <2>3, <2>4 DEF ReadInv
<1> HIDE DEF got, missed, o
<1> QED
  BY <1>1, <1>2, <1>6, <1>7, <1>8

LEMMA WorkReads ==
    ASSUME TypeOK, EventsMatch(rows), NEW w \in Workers, Work(w), ReadInv(w)
    PROVE  ReadInv(w)'
<1>0. NoOp.simulated = FALSE
  BY DEF NoOp
<1>1. CASE \/ Register(w) \/ Authorize(w) \/ CreatePlan(w) \/ Simulate(w)
           \/ RecordOutcome(w) \/ ViewPlan(w) \/ Backfill(w)
  BY <1>1, OperationStarts DEF ReadInv
<1>5. CASE Lock(w)
  BY <1>5, Locked DEF ReadInv
<1>6. CASE WritePrepared(w) \/ SimulateCallback(w) \/ OutcomeCallback(w) \/ BackfillCallback(w)
  <2>1. phase[w] = "open" /\ \E writes : Wrote(w, writes)
    BY <1>6 DEF WritePrepared, SimulateCallback, OutcomeCallback, BackfillCallback
  <2> QED
    BY <2>1, Written DEF ReadInv
<1>7. CASE Commit(w)
  <2>1. \A k : EventOf(rows, k) \subseteq EventOf(rows', k)
    BY RowsGrow, KeyedMonotone DEF EventOf
  <2>2. op'[w] = op[w] /\ phase[w] = "ready" /\ phase'[w] \in {"conflict", "reading", "returned"}
    BY <1>7, Committed
  <2> QED
    BY <2>1, <2>2 DEF ReadInv
<1>8. CASE Return(w) \/ Abort(w)
  BY <1>0, <1>8, Ended DEF ReadInv, NoOp
<1> QED
  BY <1>1, <1>5, <1>6, <1>7, <1>8, ReadReads DEF Work

LEMMA OthersRead ==
    ASSUME TypeOK, NEW w \in Workers, Work(w), NEW v \in Workers, v # w, ReadInv(v)
    PROVE  ReadInv(v)'
<1>1. op'[v] = op[v] /\ phase'[v] = phase[v]
  BY OtherWorkersKept
<1>2. \A k : EventOf(rows, k) \subseteq EventOf(rows', k)
  BY RowsGrow, KeyedMonotone DEF EventOf
<1> QED
  BY <1>1, <1>2 DEF ReadInv

\* What an operation has read of a plan's events and receipt is still there.
THEOREM ReadsInvariant == Spec => []AllRead
<1>1. Init => AllRead
  BY DEF Init, AllRead, ReadInv, NoOp
<1>2. TypeOK /\ EventsInv /\ AllRead /\ [Next]_vars => AllRead'
  <2> SUFFICES ASSUME TypeOK, EventsInv, AllRead, [Next]_vars, NEW v \in Workers
               PROVE  ReadInv(v)'
    BY DEF AllRead
  <2>1. CASE Next
    BY <2>1, WorkReads, OthersRead DEF Next, EventsInv, AllRead
  <2>2. CASE UNCHANGED vars
    BY <2>2 DEF vars, ReadInv, AllRead
  <2> QED
    BY <2>1, <2>2
<1> QED
  BY <1>1, <1>2, Typing, EventsInvariant, PTL DEF Spec

(***************************************************************************)
(* A plan shown as SIMULATED is shown with its receipt, although the two   *)
(* are read in two snapshots.                                              *)
(***************************************************************************)
THEOREM Views == Spec => []SimulatedViewHasReceipt
<1>1. AllRead => SimulatedViewHasReceipt
  BY NoIdAssumption DEF AllRead, ReadInv, SimulatedViewHasReceipt
<1> QED
  BY <1>1, ReadsInvariant, PTL

(***************************************************************************)
(* A plan that once reads as SIMULATED always will: rows keep their place  *)
(* in the listing, so no later event pushes its event off the first page.  *)
(***************************************************************************)
THEOREM ShownForGood == Spec => SimulatedForGood
<1>1. TypeOK /\ [Next]_vars => [\A p \in Plans : ShownSimulated(p) => ShownSimulated(p)']_vars
  <2> SUFFICES ASSUME TypeOK, [Next]_vars, NEW p \in Plans, ShownSimulated(p)
               PROVE  ShownSimulated(p)'
    OBVIOUS
  <2>1. rows \subseteq rows'
    BY RowsGrow DEF Next, vars
  <2> QED
    BY <2>1 DEF ShownSimulated, FirstPage, Group
<1> QED
  BY <1>1, Typing, PTL DEF Spec, SimulatedForGood

-----------------------------------------------------------------------------
(***************************************************************************)
(* Backfills.  The callback prepares what the plan lacks, and a receipt    *)
(* that is committed after it has looked comes with its event.             *)
(***************************************************************************)
Backfilled(R, p) ==
    /\ Keyed(R, "gateway_decision_events", CreatedKey(p)) # {}
    /\ ReceiptsOf(R, p) # {} => EventOf(R, p) # {}

WillBeBackfilled(R, d, p) ==
    /\ \E i \in DOMAIN d : d[i] = CreatedWrite(p)
    /\ ReceiptsOf(R, p) # {} =>
          \/ EventOf(R, p) # {}
          \/ \E i \in DOMAIN d :
                d[i].coll = "gateway_decision_events" /\ d[i].key = SimulatedKey(p)

BackfillInv(w) ==
    op[w].kind = "backfill" =>
        /\ phase[w] \notin {"reading", "rereading"}
        /\ phase[w] = "ready" => WillBeBackfilled(rows, draft[w], op[w].plan)
        /\ phase[w] = "returned" => Backfilled(rows, op[w].plan)

LEMMA OneGateway ==
    ASSUME TypeOK, OneRowPerKey(rows)
    PROVE  \A g, h \in Records("gateway_decisions") : g.id = h.id => g = h
BY DEF TypeOK, WellFormed, KeyOf, OneRowPerKey, Records, RecordsIn, Group

LEMMA ReceiptWasDrafted ==
    ASSUME TypeOK, EventsInv, NEW w \in Workers, Commit(w), NEW p,
           NEW r \in ReceiptsOf(rows', p), r \notin rows
    PROVE  /\ op[w].kind = "simulate" /\ op[w].plan = p /\ phase[w] = "ready"
           /\ \E i \in DOMAIN draft[w] : draft[w][i] = SimulatedWrite(p, r.rec.id)
<1>1. r \in rows' /\ r.coll = "shadow_execution_receipts" /\ r.key = p
  BY DEF ReceiptsOf, Keyed, Group
<1>2. PICK i \in DOMAIN draft[w] :
         r.coll = draft[w][i].coll /\ r.key = draft[w][i].key /\ r.rec = draft[w][i].rec
  BY <1>1, NewRowWasDrafted
<1>3. ReceiptPrepared(w, draft[w][i])
  BY <1>1, <1>2 DEF EventsInv, DraftMatches
<1> QED
  BY <1>1, <1>2, <1>3 DEF ReceiptPrepared

\* After a commit there is a row under the key of each of its writes.
LEMMA CommittedWrites ==
    ASSUME TypeOK, NEW w \in Workers, Commit(w), rows' = Published(rows, draft[w]),
           NEW i \in DOMAIN draft[w]
    PROVE  Keyed(rows', draft[w][i].coll, draft[w][i].key) # {}
<1>1. CASE i \in NewWrites(rows, draft[w])
  BY <1>1, PublishedWrites
<1>2. CASE Keyed(rows, draft[w][i].coll, draft[w][i].key) # {}
  BY <1>2, PublishedRows, KeyedMonotone
<1> QED
  BY <1>1, <1>2 DEF NewWrites

LEMMA ReceiptComesWithEvent ==
    ASSUME TypeOK, EventsInv, NEW w \in Workers, Commit(w), NEW p,
           NEW r \in ReceiptsOf(rows', p), r \notin rows
    PROVE  EventOf(rows', p) # {}
<1>1. PICK i \in DOMAIN draft[w] : draft[w][i] = SimulatedWrite(p, r.rec.id)
  BY ReceiptWasDrafted
<1>2. draft[w][i].coll = "gateway_decision_events" /\ draft[w][i].key = SimulatedKey(p)
  BY <1>1, SimulatedWriteFields
<1>3. rows' = Published(rows, draft[w])
  BY Committed DEF ReceiptsOf, Keyed, Group
<1> QED
  BY <1>2, <1>3, CommittedWrites DEF EventOf

LEMMA BackfillPrepares ==
    ASSUME TypeOK, LedgerSound, EventsInv, NEW w \in Workers, BackfillCallback(w)
    PROVE  BackfillInv(w)'
<1>1. PICK g \in Records("gateway_decisions") :
         LET receipts == IF g.simulated
                         THEN Keyed(rows, "shadow_execution_receipts", g.id) ELSE {}
         IN  /\ g.id = op[w].plan
             /\ IF receipts = {} THEN Wrote(w, <<CreatedWrite(g.id)>>)
                ELSE \E r \in receipts :
                        Wrote(w, <<CreatedWrite(g.id), SimulatedWrite(g.id, r.rec.id)>>)
  BY DEF BackfillCallback
<1> DEFINE p == op[w].plan
<1>2. /\ g.id = p
      /\ \/ /\ ~g.simulated \/ ReceiptsOf(rows, p) = {}
            /\ Wrote(w, <<CreatedWrite(p)>>)
         \/ \E source : Wrote(w, <<CreatedWrite(p), SimulatedWrite(p, source)>>)
  BY <1>1 DEF ReceiptsOf
<1> HIDE DEF p
<1>3. WillBeBackfilled(rows, draft'[w], p) /\ op'[w] = op[w] /\ phase'[w] = "ready" /\ rows' = rows
  <2>1. CASE /\ ~g.simulated \/ ReceiptsOf(rows, p) = {}
             /\ Wrote(w, <<CreatedWrite(p)>>)
    <3>1. draft'[w] = <<CreatedWrite(p)>> /\ op'[w] = op[w] /\ phase'[w] = "ready" /\ rows' = rows
      BY <2>1, Written
    <3>2. ASSUME NEW r \in ReceiptsOf(rows, p) PROVE EventOf(rows, p) # {}
      <4>1. r \in Group(rows, "shadow_execution_receipts") /\ r.key = p
        BY DEF ReceiptsOf, Keyed, Group
      <4>2. Migrated(rows, p) \/ EventOf(rows, p) # {}
        BY <4>1 DEF EventsInv, EventsMatch, EventOf
      <4>3. ~g.simulated
        BY <2>1
      <4>4. ~Migrated(rows, p)
        BY <1>2, <4>3, OneGateway DEF Migrated, Records, LedgerSound
      <4> QED
        BY <4>2, <4>4
    <3>3. 1 \in DOMAIN draft'[w] /\ draft'[w][1] = CreatedWrite(p)
      BY <3>1
    <3> QED
      BY <3>1, <3>2, <3>3 DEF WillBeBackfilled
  <2>2. CASE \E source : Wrote(w, <<CreatedWrite(p), SimulatedWrite(p, source)>>)
    <3>1. PICK source : Wrote(w, <<CreatedWrite(p), SimulatedWrite(p, source)>>)
      BY <2>2
    <3>2. /\ draft'[w] = <<CreatedWrite(p), SimulatedWrite(p, source)>>
          /\ op'[w] = op[w] /\ phase'[w] = "ready" /\ rows' = rows
      BY <3>1, Written
    <3>3. /\ 1 \in DOMAIN draft'[w] /\ draft'[w][1] = CreatedWrite(p)
          /\ 2 \in DOMAIN draft'[w] /\ draft'[w][2] = SimulatedWrite(p, source)
      BY <3>2
    <3> QED
      BY <3>2, <3>3, SimulatedWriteFields DEF WillBeBackfilled
  <2> QED
    BY <1>2, <2>1, <2>2
<1> QED
  BY <1>3 DEF BackfillInv, p

LEMMA BackfillCommits ==
    ASSUME TypeOK, EventsInv, NEW w \in Workers, Commit(w), BackfillInv(w)
    PROVE  BackfillInv(w)'
<1> SUFFICES ASSUME op[w].kind = "backfill"
             PROVE  /\ phase'[w] \notin {"reading", "rereading", "ready"}
                    /\ phase'[w] = "returned" => Backfilled(rows', op[w].plan)
  BY Committed DEF BackfillInv
<1>1. /\ phase[w] = "ready" /\ phase'[w] \in {"conflict", "returned"}
      /\ phase'[w] = "returned" => rows' = Published(rows, draft[w])
  BY Committed
<1> SUFFICES ASSUME rows' = Published(rows, draft[w]) PROVE Backfilled(rows', op[w].plan)
  BY <1>1
<1> DEFINE p == op[w].plan
<1>2. WillBeBackfilled(rows, draft[w], p)
  BY <1>1 DEF BackfillInv
<1> HIDE DEF p
<1>3. Keyed(rows', "gateway_decision_events", CreatedKey(p)) # {}
  <2>1. PICK i \in DOMAIN draft[w] : draft[w][i] = CreatedWrite(p)
    BY <1>2 DEF WillBeBackfilled
  <2>2. draft[w][i].coll = "gateway_decision_events" /\ draft[w][i].key = CreatedKey(p)
    BY <2>1 DEF CreatedWrite, EventWrite, Write
  <2> QED
    BY <2>2, CommittedWrites
<1>4. ASSUME NEW r \in ReceiptsOf(rows', p) PROVE EventOf(rows', p) # {}
  <2>1. CASE r \notin rows
    BY <2>1, ReceiptComesWithEvent
  <2>2. CASE r \in rows
    <3>1. r \in ReceiptsOf(rows, p)
      BY <2>2 DEF ReceiptsOf, Keyed, Group
    <3>2. CASE EventOf(rows, p) # {}
      BY <3>2, PublishedRows, KeyedMonotone DEF EventOf
    <3>3. CASE \E i \in DOMAIN draft[w] :
                  draft[w][i].coll = "gateway_decision_events" /\ draft[w][i].key = SimulatedKey(p)
      BY <3>3, CommittedWrites DEF EventOf
    <3> QED
      BY <1>2, <3>1, <3>2, <3>3 DEF WillBeBackfilled
  <2> QED
    BY <2>1, <2>2
<1> QED
  BY <1>3, <1>4 DEF Backfilled, p

LEMMA WorkBackfills ==
    ASSUME TypeOK, LedgerSound, EventsInv, NEW w \in Workers, Work(w), BackfillInv(w)
    PROVE  BackfillInv(w)'
<1>1. CASE \/ Register(w) \/ Authorize(w) \/ CreatePlan(w) \/ Simulate(w)
           \/ RecordOutcome(w) \/ ViewPlan(w) \/ Backfill(w)
  BY <1>1, OperationStarts DEF BackfillInv
<1>2. CASE Read(w)
  BY <1>2, ReadKeeps DEF BackfillInv, NoOp
<1>3. CASE Lock(w)
  BY <1>3, Locked DEF BackfillInv
<1>4. CASE WritePrepared(w) \/ SimulateCallback(w) \/ OutcomeCallback(w)
  <2>1. op[w].kind # "backfill" /\ \E writes : Wrote(w, writes)
    BY <1>4 DEF WritePrepared, SimulateCallback, OutcomeCallback
  <2> QED
    BY <2>1, Written DEF BackfillInv
<1>5. CASE Return(w) \/ Abort(w)
  BY <1>5, Ended DEF BackfillInv, NoOp
<1> QED
  BY <1>1, <1>2, <1>3, <1>4, <1>5, BackfillPrepares, BackfillCommits DEF Work

LEMMA OthersBackfill ==
    ASSUME TypeOK, EventsInv, NEW w \in Workers, Work(w), NEW v \in Workers, v # w, BackfillInv(v)
    PROVE  BackfillInv(v)'
<1>1. /\ op'[v] = op[v] /\ phase'[v] = phase[v] /\ draft'[v] = draft[v]
      /\ Commit(w) \/ UNCHANGED rows
  BY OtherWorkersKept
<1>2. CASE UNCHANGED rows
  BY <1>1, <1>2 DEF BackfillInv
<1>3. CASE Commit(w)
  <2> DEFINE p == op[v].plan
  <2>1. \A c, k : Keyed(rows, c, k) \subseteq Keyed(rows', c, k)
    BY RowsGrow, KeyedMonotone
  <2>2. ASSUME NEW r \in ReceiptsOf(rows', p) PROVE ReceiptsOf(rows, p) # {} \/ EventOf(rows', p) # {}
    <3>1. CASE r \in rows
      BY <3>1 DEF ReceiptsOf, Keyed, Group
    <3>2. CASE r \notin rows
      BY <1>3, <3>2, ReceiptComesWithEvent
    <3> QED
      BY <3>1, <3>2
  <2> HIDE DEF p
  <2>3. WillBeBackfilled(rows, draft[v], p) => WillBeBackfilled(rows', draft[v], p)
    BY <2>1, <2>2 DEF WillBeBackfilled, EventOf
  <2>4. Backfilled(rows, p) => Backfilled(rows', p)
    BY <2>1, <2>2 DEF Backfilled, EventOf
  <2> QED
    BY <1>1, <2>3, <2>4 DEF BackfillInv, p
<1> QED
  BY <1>1, <1>2, <1>3

\* A backfill on its way has written, or prepared, the events it passed.
THEOREM BackfillInvariant == Spec => [](\A w \in Workers : BackfillInv(w))
<1>1. Init => \A w \in Workers : BackfillInv(w)
  BY DEF Init, BackfillInv, NoOp
<1>2. /\ TypeOK /\ LedgerSound /\ EventsInv /\ (\A w \in Workers : BackfillInv(w)) /\ [Next]_vars
         => (\A w \in Workers : BackfillInv(w))'
  <2> SUFFICES ASSUME TypeOK, LedgerSound, EventsInv, \A w \in Workers : BackfillInv(w), [Next]_vars,
                      NEW v \in Workers
               PROVE  BackfillInv(v)'
    OBVIOUS
  <2>1. CASE Next
    BY <2>1, WorkBackfills, OthersBackfill DEF Next
  <2>2. CASE UNCHANGED vars
    BY <2>2 DEF vars, BackfillInv
  <2> QED
    BY <2>1, <2>2
<1> QED
  BY <1>1, <1>2, Typing, Soundness, EventsInvariant, PTL DEF Spec

(***************************************************************************)
(* When the backfill of a plan has returned, the plan has its first event  *)
(* and, if it has a receipt, its second one, for as long as the answer is  *)
(* with its caller and whatever else is simulated meanwhile.               *)
(***************************************************************************)
THEOREM Backfills == Spec => []BackfillLeavesNothing
<1>1. (\A w \in Workers : BackfillInv(w)) => BackfillLeavesNothing
  BY DEF BackfillInv, Backfilled, BackfillLeavesNothing, ReceiptsOf, EventOf
<1> QED
  BY <1>1, BackfillInvariant, PTL

-----------------------------------------------------------------------------
(***************************************************************************)
(* Lineage.  The records of a plan belong together in the ledger, because  *)
(* they do in every draft: a transaction publishes all its writes, and     *)
(* what they rest on is never changed.                                     *)
(***************************************************************************)
Repeats(r, q) ==
    /\ r.plan = q.id /\ r.envelope = q.envelope /\ r.decision = q.decision
    /\ r.action = q.action

LineageDrafted(R, d) ==
    \A i \in DOMAIN d :
        /\ d[i].coll = "execution_requests" =>
              \E j \in DOMAIN d :
                  d[j].coll = "gateway_decisions" /\ GatewayGrounded(R, d[i].rec, d[j].rec)
        /\ d[i].coll = "gateway_decisions" =>
              \E j \in DOMAIN d : d[j].coll = "execution_requests" /\ d[j].key = d[i].key
        /\ d[i].coll = "shadow_execution_receipts" =>
              \E q \in RecordsIn(R, "execution_requests") : Repeats(d[i].rec, q)

LineageInv == LineageIntact(rows) /\ \A w \in Workers : LineageDrafted(rows, draft[w])

LEMMA RecordsGrow ==
    ASSUME NEW R, NEW S, R \subseteq S
    PROVE  /\ \A c : RecordsIn(R, c) \subseteq RecordsIn(S, c)
           /\ \A q, g : GatewayGrounded(R, q, g) => GatewayGrounded(S, q, g)
           /\ \A d : LineageDrafted(R, d) => LineageDrafted(S, d)
<1>1. \A c : RecordsIn(R, c) \subseteq RecordsIn(S, c)
  BY DEF RecordsIn, Group
<1>2. \A q, g : GatewayGrounded(R, q, g) => GatewayGrounded(S, q, g)
  BY <1>1 DEF GatewayGrounded
<1> QED
  BY <1>1, <1>2 DEF LineageDrafted

LEMMA NoLineageDrafted ==
    ASSUME NEW d, \A i \in DOMAIN d : d[i].coll \notin
               {"execution_requests", "gateway_decisions", "shadow_execution_receipts"}
    PROVE  LineageDrafted(rows, d)
BY DEF LineageDrafted

\* A step leaves its worker with writes that belong together.
LEMMA WorkDrafts ==
    ASSUME TypeOK, LineageInv, NEW w \in Workers, Work(w)
    PROVE  LineageDrafted(rows, draft'[w])
<1>1. CASE Register(w)
  <2>1. PICK e, form : draft'[w] = <<EnvelopeWrite(e, form)>>
    BY <1>1, Started DEF Register
  <2>2. DOMAIN draft'[w] = {1} /\ draft'[w][1].coll = "decision_envelopes"
    BY <2>1 DEF EnvelopeWrite, Write
  <2> QED
    BY <2>2, NoLineageDrafted
<1>2. CASE Authorize(w)
  <2>1. PICK e \in Records("decision_envelopes"), d \in Fresh(Decisions), by \in Authorizers :
           draft'[w] = <<AuthorityWrite(d, e, by)>>
    BY <1>2, Started DEF Authorize
  <2>2. DOMAIN draft'[w] = {1} /\ draft'[w][1].coll = "authority_decisions"
    BY <2>1 DEF AuthorityWrite, Write
  <2> QED
    BY <2>2, NoLineageDrafted
<1>3. CASE CreatePlan(w)
  <2>1. PICK p \in Fresh(Plans) : \E o, q, gateway :
           /\ GatewayGrounded(rows, q, gateway)
           /\ Start(w, o, <<Write("execution_requests", p, q),
                            Write("gateway_decisions", p, gateway), CreatedWrite(p)>>, "waiting")
    BY <1>3, PlanStarts
  <2>2. PICK o, q, gateway :
           /\ GatewayGrounded(rows, q, gateway)
           /\ Start(w, o, <<Write("execution_requests", p, q),
                            Write("gateway_decisions", p, gateway), CreatedWrite(p)>>, "waiting")
    BY <2>1
  <2> DEFINE writes == <<Write("execution_requests", p, q),
                         Write("gateway_decisions", p, gateway), CreatedWrite(p)>>
  <2>3. /\ DOMAIN writes = {1, 2, 3}
        /\ writes[1].coll = "execution_requests" /\ writes[1].key = p /\ writes[1].rec = q
        /\ writes[2].coll = "gateway_decisions" /\ writes[2].key = p /\ writes[2].rec = gateway
        /\ writes[3].coll = "gateway_decision_events"
    BY DEF Write, CreatedWrite, EventWrite
  <2>4. draft'[w] = writes
    BY <2>2, Started
  <2> HIDE DEF writes
  <2> QED
    BY <2>2, <2>3, <2>4 DEF LineageDrafted
<1>4. CASE draft'[w] = << >>
  BY <1>4 DEF LineageDrafted
<1>5. CASE draft'[w] = draft[w]
  BY <1>5 DEF LineageInv
<1>6. CASE SimulateCallback(w)
  <2>1. PICK q \in Records("execution_requests") :
           \/ \E source : Wrote(w, <<SimulatedWrite(q.id, source)>>)
           \/ \E id : Wrote(w, <<ReceiptWrite(id, q), SimulatedWrite(q.id, id)>>)
    BY <1>6 DEF SimulateCallback
  <2>2. CASE \E source : Wrote(w, <<SimulatedWrite(q.id, source)>>)
    <3>1. PICK source : draft'[w] = <<SimulatedWrite(q.id, source)>>
      BY <2>2, Written
    <3>2. DOMAIN draft'[w] = {1} /\ draft'[w][1].coll = "gateway_decision_events"
      BY <3>1, SimulatedWriteFields
    <3> QED
      BY <3>2, NoLineageDrafted
  <2>3. CASE \E id : Wrote(w, <<ReceiptWrite(id, q), SimulatedWrite(q.id, id)>>)
    <3>1. PICK id : draft'[w] = <<ReceiptWrite(id, q), SimulatedWrite(q.id, id)>>
      BY <2>3, Written
    <3>2. /\ DOMAIN draft'[w] = {1, 2}
          /\ draft'[w][1].coll = "shadow_execution_receipts" /\ Repeats(draft'[w][1].rec, q)
          /\ draft'[w][2].coll = "gateway_decision_events"
      BY <3>1, SimulatedWriteFields DEF ReceiptWrite, Write, Repeats
    <3> QED
      BY <3>2 DEF LineageDrafted, Records
  <2> QED
    BY <2>1, <2>2, <2>3
<1>7. CASE OutcomeCallback(w)
  <2>1. \/ Wrote(w, << >>)
        \/ \E id, q : Wrote(w, <<OutcomeWrite(id, q, op[w].receipt, op[w].assessed)>>)
    BY <1>7 DEF OutcomeCallback
  <2>2. CASE \E id, q : Wrote(w, <<OutcomeWrite(id, q, op[w].receipt, op[w].assessed)>>)
    <3>1. PICK id, q : draft'[w] = <<OutcomeWrite(id, q, op[w].receipt, op[w].assessed)>>
      BY <2>2, Written
    <3>2. DOMAIN draft'[w] = {1} /\ draft'[w][1].coll = "shadow_outcomes"
      BY <3>1 DEF OutcomeWrite, Write
    <3> QED
      BY <3>2, NoLineageDrafted
  <2> QED
    BY <1>4, <2>1, <2>2, Written
<1>8. CASE BackfillCallback(w)
  <2>1. PICK g \in Records("gateway_decisions") :
           \/ Wrote(w, <<CreatedWrite(g.id)>>)
           \/ \E source : Wrote(w, <<CreatedWrite(g.id), SimulatedWrite(g.id, source)>>)
    BY <1>8 DEF BackfillCallback
  <2>2. /\ CreatedWrite(g.id).coll = "gateway_decision_events"
        /\ \A source : SimulatedWrite(g.id, source).coll = "gateway_decision_events"
    BY DEF CreatedWrite, SimulatedWrite, EventWrite, Write
  <2>3. CASE Wrote(w, <<CreatedWrite(g.id)>>)
    BY <2>2, <2>3, Written, NoLineageDrafted
  <2>4. CASE \E source : Wrote(w, <<CreatedWrite(g.id), SimulatedWrite(g.id, source)>>)
    BY <2>2, <2>4, Written, NoLineageDrafted
  <2> QED
    BY <2>1, <2>3, <2>4
<1>9. CASE Simulate(w) \/ RecordOutcome(w) \/ ViewPlan(w) \/ Backfill(w)
  BY <1>4, <1>9, Started DEF Simulate, RecordOutcome, ViewPlan, Backfill
<1>10. CASE Read(w) \/ Lock(w) \/ WritePrepared(w)
  BY <1>5, <1>10, ReadKeeps, Locked, Written DEF WritePrepared
<1>11. CASE Commit(w) \/ Return(w) \/ Abort(w)
  BY <1>4, <1>11, Committed, Ended
<1> QED
  BY <1>1, <1>2, <1>3, <1>6, <1>7, <1>8, <1>9, <1>10, <1>11 DEF Work

LEMMA CommitLineage ==
    ASSUME TypeOK, EventsInv, RetryInv, LineageInv, NEW w \in Workers, ReadInv(w), Commit(w),
           rows' = Published(rows, draft[w]), CreatedNamesPlan'
    PROVE  LineageIntact(rows')
<1>0. /\ LineageIntact(rows) /\ LineageDrafted(rows', draft[w])
      /\ \A c : RecordsIn(rows, c) \subseteq RecordsIn(rows', c)
      /\ \A c, k : Keyed(rows, c, k) \subseteq Keyed(rows', c, k)
      /\ \A q, g : GatewayGrounded(rows, q, g) => GatewayGrounded(rows', q, g)
  BY PublishedRows, RecordsGrow, KeyedMonotone DEF LineageInv
<1>1. ASSUME NEW c, NEW x \in RecordsIn(rows', c), x \notin RecordsIn(rows, c)
      PROVE  \E i \in DOMAIN draft[w] : draft[w][i].coll = c /\ draft[w][i].rec = x
  <2>1. PICK r \in rows' : r.coll = c /\ r.rec = x
    BY DEF RecordsIn, Group
  <2>2. r \notin rows
    BY <1>1, <2>1 DEF RecordsIn, Group
  <2> QED
    BY <2>1, <2>2, NewRowWasDrafted
<1>2. ASSUME NEW q \in RecordsIn(rows', "execution_requests")
      PROVE  \E g \in RecordsIn(rows', "gateway_decisions") : GatewayGrounded(rows', q, g)
  <2>1. CASE q \in RecordsIn(rows, "execution_requests")
    BY <1>0, <2>1 DEF LineageIntact
  <2>2. CASE q \notin RecordsIn(rows, "execution_requests")
    <3>1. PICK i \in DOMAIN draft[w] : draft[w][i].coll = "execution_requests" /\ draft[w][i].rec = q
      BY <1>1, <2>2
    <3>2. PICK j \in DOMAIN draft[w] :
             draft[w][j].coll = "gateway_decisions" /\ GatewayGrounded(rows', q, draft[w][j].rec)
      BY <1>0, <3>1 DEF LineageDrafted
    <3>3. j \in NewWrites(rows, draft[w])
      BY <3>2 DEF RetryInv, NewInLedger, IdKeyed, NewWrites
    <3>4. draft[w][j].rec \in RecordsIn(rows', "gateway_decisions")
      BY <3>2, <3>3, PublishedWrites DEF RecordsIn, Keyed
    <3> QED
      BY <3>2, <3>4
  <2> QED
    BY <2>1, <2>2
<1>3. ASSUME NEW g \in RecordsIn(rows', "gateway_decisions")
      PROVE  Keyed(rows', "execution_requests", g.id) # {}
  <2>1. CASE g \in RecordsIn(rows, "gateway_decisions")
    BY <1>0, <2>1 DEF LineageIntact
  <2>2. CASE g \notin RecordsIn(rows, "gateway_decisions")
    <3>1. PICK i \in DOMAIN draft[w] : draft[w][i].coll = "gateway_decisions" /\ draft[w][i].rec = g
      BY <1>1, <2>2
    <3>2. PICK j \in DOMAIN draft[w] :
             draft[w][j].coll = "execution_requests" /\ draft[w][j].key = draft[w][i].key
      BY <1>0, <3>1 DEF LineageDrafted
    <3>3. WellFormed(draft[w][i])
      BY DEF TypeOK
    <3>4. draft[w][i].key = g.id
      BY <3>1, <3>3 DEF WellFormed, KeyOf
    <3> QED
      BY <3>2, <3>4, CommittedWrites
  <2> QED
    BY <2>1, <2>2
<1>4. ASSUME NEW r \in RecordsIn(rows', "shadow_execution_receipts")
      PROVE  \E q \in RecordsIn(rows', "execution_requests") : Repeats(r, q)
  <2>1. CASE r \in RecordsIn(rows, "shadow_execution_receipts")
    BY <1>0, <2>1 DEF LineageIntact, Repeats
  <2>2. CASE r \notin RecordsIn(rows, "shadow_execution_receipts")
    BY <1>0, <1>1, <2>2 DEF LineageDrafted
  <2> QED
    BY <2>1, <2>2
<1>5. ASSUME NEW x \in RecordsIn(rows', "shadow_outcomes")
      PROVE  Keyed(rows', "shadow_execution_receipts", x.plan) # {}
  <2>1. CASE x \in RecordsIn(rows, "shadow_outcomes")
    BY <1>0, <2>1 DEF LineageIntact
  <2>2. CASE x \notin RecordsIn(rows, "shadow_outcomes")
    <3>1. PICK i \in DOMAIN draft[w] : draft[w][i].coll = "shadow_outcomes" /\ draft[w][i].rec = x
      BY <1>1, <2>2
    <3>2. WriteConcerns(op[w], draft[w][i]) /\ phase[w] = "ready"
      BY Committed DEF RetryInv, Concerns
    <3>3. op[w].kind = "outcome" /\ x.plan = op[w].plan
      BY <3>1, <3>2 DEF WriteConcerns
    <3>4. EventOf(rows, x.plan) # {}
      BY <3>2, <3>3 DEF ReadInv
    <3>5. ReceiptsOf(rows, x.plan) # {}
      BY <3>4, SimulatedHasReceipt DEF EventsInv
    <3> QED
      BY <1>0, <3>5 DEF ReceiptsOf
  <2> QED
    BY <2>1, <2>2
<1> QED
  BY <1>2, <1>3, <1>4, <1>5 DEF LineageIntact, Repeats, CreatedNamesPlan

LEMMA WorkLineage ==
    ASSUME TypeOK, EventsInv, RetryInv, LineageInv, NEW w \in Workers, ReadInv(w), Work(w)
    PROVE  LineageInv'
<1>1. LineageIntact(rows')
  <2>1. CASE rows' = Published(rows, draft[w]) /\ Commit(w)
    BY <2>1, CommitLineage, WorkRetries DEF RetryInv, EventsInv
  <2>2. CASE UNCHANGED rows
    BY <2>2 DEF LineageInv
  <2> QED
    BY <2>1, <2>2, Committed, OtherWorkersKept
<1>2. ASSUME NEW v \in Workers PROVE LineageDrafted(rows', draft'[v])
  <2>1. LineageDrafted(rows, draft'[v])
    BY WorkDrafts, OtherWorkersKept DEF LineageInv
  <2> QED
    BY <2>1, RowsGrow, RecordsGrow
<1> QED
  BY <1>1, <1>2 DEF LineageInv, LineageIntact, LineageDrafted, RecordsIn, Keyed, Group,
                    GatewayGrounded

\* Every record of a plan has the records before it, whoever wrote them.
THEOREM LineageInvariant == Spec => []LineageInv
<1>1. Init => LineageInv
  <2> SUFFICES ASSUME Init PROVE LineageInv
    OBVIOUS
  <2>1. LineageIntact(rows)
    BY LegacyAssumption DEF Init
  <2>2. \A w \in Workers : draft[w] = << >>
    BY DEF Init
  <2> QED
    BY <2>1, <2>2 DEF LineageInv, LineageDrafted
<1>2. TypeOK /\ EventsInv /\ RetryInv /\ AllRead /\ LineageInv /\ [Next]_vars => LineageInv'
  <2> SUFFICES ASSUME TypeOK, EventsInv, RetryInv, AllRead, LineageInv, [Next]_vars
               PROVE  LineageInv'
    OBVIOUS
  <2>1. CASE Next
    BY <2>1, WorkLineage DEF Next, AllRead
  <2>2. CASE UNCHANGED vars
    <3>1. UNCHANGED rows /\ UNCHANGED draft
      BY <2>2 DEF vars
    <3>2. LineageIntact(rows)'
      BY <2>2, <3>1 DEF LineageInv, LineageIntact, RecordsIn, Keyed, Group, GatewayGrounded
    <3>3. \A w \in Workers : LineageDrafted(rows, draft[w])'
      BY <2>2, <3>1 DEF LineageInv, LineageDrafted, RecordsIn, Group, GatewayGrounded
    <3> QED
      BY <3>2, <3>3 DEF LineageInv
  <2> QED
    BY <2>1, <2>2
<1> QED
  BY <1>1, <1>2, Typing, EventsInvariant, RetriesInvariant, ReadsInvariant, PTL DEF Spec

-----------------------------------------------------------------------------
(***************************************************************************)
(* The pipeline.  How far a plan is, as a function of the rows: a plan has *)
(* a request before it has anything else, and whatever is simulated or     *)
(* observed was eligible, because its receipt was grounded in the very     *)
(* records its gateway decision was made of.                               *)
(***************************************************************************)
PlansSound == TypeOK /\ LedgerSound /\ EventsInv /\ RetryInv /\ LineageInv /\ AllRead

HasRequest(R, p) == Keyed(R, "execution_requests", p) # {}
HasOutcome(R, p) == \E x \in RecordsIn(R, "shadow_outcomes") : x.plan = p
Eligibles(R) == {p \in Plans : \E g \in RecordsIn(R, "gateway_decisions") : g.id = p /\ g.eligible}

StageIn(R, p) ==
    IF HasOutcome(R, p) THEN "observed"
    ELSE IF EventOf(R, p) # {} THEN "simulated"
    ELSE IF HasRequest(R, p) THEN "planned"
    ELSE "absent"

\* A record is stored under its id: two of one id are one.
LEMMA OneRecord ==
    ASSUME TypeOK, LedgerSound, NEW c \in IdKeyed, NEW x \in RecordsIn(rows, c),
           NEW y \in RecordsIn(rows, c), x.id = y.id
    PROVE  x = y
<1>1. PICK r \in rows, s \in rows : r.coll = c /\ r.rec = x /\ s.coll = c /\ s.rec = y
  BY DEF RecordsIn, Group
<1>2. r.key = x.id /\ s.key = y.id
  BY <1>1 DEF TypeOK, WellFormed, KeyOf, IdKeyed
<1>3. r = s
  BY <1>1, <1>2 DEF LedgerSound, OneRowPerKey
<1> QED
  BY <1>1, <1>3

LEMMA ReceiptWasEligible ==
    ASSUME PlansSound, NEW p \in Plans, ReceiptsOf(rows, p) # {}
    PROVE  p \in Eligibles(rows)
<1>0. TypeOK /\ LedgerSound /\ LineageIntact(rows)
  BY DEF PlansSound, LineageInv
<1>1. PICK r \in rows : r.coll = "shadow_execution_receipts" /\ r.key = p
  BY DEF ReceiptsOf, Keyed, Group
<1>2. r.rec \in RecordsIn(rows, "shadow_execution_receipts") /\ r.rec.plan = p
  BY <1>0, <1>1 DEF RecordsIn, Group, TypeOK, WellFormed, KeyOf
<1>3. PICK q \in RecordsIn(rows, "execution_requests") : Repeats(r.rec, q)
  BY <1>0, <1>2 DEF LineageIntact, Repeats
<1>4. PICK g \in RecordsIn(rows, "gateway_decisions") : GatewayGrounded(rows, q, g)
  BY <1>0, <1>3 DEF LineageIntact
<1>5. PICK e \in RecordsIn(rows, "decision_envelopes"), d \in RecordsIn(rows, "authority_decisions") :
         q.envelope = e.id /\ q.decision = d.id /\ g.eligible = Eligible(e, d, q)
  BY <1>4 DEF GatewayGrounded
<1>6. ReceiptGrounded(rows, r.rec)
  BY <1>0, <1>1 DEF LedgerSound, Grounded
<1>7. PICK f \in RecordsIn(rows, "decision_envelopes"), c \in RecordsIn(rows, "authority_decisions") :
         /\ r.rec.envelope = f.id /\ r.rec.decision = c.id /\ c.envelope = f.id
         /\ c.verified /\ c.state = "AUTHORIZED" /\ r.rec.action = f.form.action
  BY <1>6 DEF ReceiptGrounded
<1>8. f = e
  BY <1>0, <1>3, <1>5, <1>7, OneRecord DEF Repeats, IdKeyed
<1>9. c = d
  BY <1>0, <1>3, <1>5, <1>7, OneRecord DEF Repeats, IdKeyed
<1>10. Eligible(e, d, q)
  BY <1>3, <1>5, <1>7, <1>8, <1>9 DEF Eligible, Repeats
<1>11. g.id = p /\ g.eligible
  BY <1>2, <1>3, <1>4, <1>5, <1>10 DEF GatewayGrounded, Repeats
<1> QED
  BY <1>11 DEF Eligibles

LEMMA Reached ==
    ASSUME PlansSound, NEW p \in Plans
    PROVE  /\ EventOf(rows, p) # {} \/ HasOutcome(rows, p) => p \in Eligibles(rows)
           /\ p \in Eligibles(rows) => HasRequest(rows, p)
<1>0. TypeOK /\ EventsMatch(rows) /\ LineageIntact(rows)
  BY DEF PlansSound, LineageInv, EventsInv
<1>1. ASSUME EventOf(rows, p) # {} \/ HasOutcome(rows, p) PROVE ReceiptsOf(rows, p) # {}
  <2>1. CASE EventOf(rows, p) # {}
    BY <1>0, <2>1, SimulatedHasReceipt
  <2>2. CASE HasOutcome(rows, p)
    BY <1>0, <2>2 DEF HasOutcome, LineageIntact, ReceiptsOf
  <2> QED
    BY <1>1, <2>1, <2>2
<1>2. p \in Eligibles(rows) => HasRequest(rows, p)
  BY <1>0 DEF Eligibles, HasRequest, LineageIntact
<1> QED
  BY <1>1, <1>2, ReceiptWasEligible

\* What a commit adds for a plan comes from an operation on that plan.
LEMMA CommitAdds ==
    ASSUME PlansSound, NEW w \in Workers, Commit(w), NEW p \in Plans
    PROVE  /\ HasRequest(rows', p) /\ ~HasRequest(rows, p) => op[w].kind = "plan" /\ op[w].plan = p
           /\ p \in Eligibles(rows') \ Eligibles(rows) =>
                 op[w].kind = "plan" /\ op[w].plan = p /\ ~HasRequest(rows, p) /\ HasRequest(rows', p)
           /\ EventOf(rows', p) # {} /\ EventOf(rows, p) = {} =>
                 op[w].kind \in {"simulate", "backfill"} /\ op[w].plan = p
           /\ HasOutcome(rows', p) /\ ~HasOutcome(rows, p) =>
                 op[w].kind = "outcome" /\ op[w].plan = p /\ EventOf(rows, p) # {}
<1>0. /\ TypeOK /\ RetryInv /\ LineageInv /\ ReadInv(w) /\ phase[w] = "ready"
      /\ \A i \in DOMAIN draft[w] : WellFormed(draft[w][i]) /\ WriteConcerns(op[w], draft[w][i])
  BY Committed DEF PlansSound, AllRead, RetryInv, Concerns, TypeOK
<1>1. ASSUME NEW c, NEW x \in RecordsIn(rows', c), x \notin RecordsIn(rows, c)
      PROVE  \E i \in DOMAIN draft[w] : draft[w][i].coll = c /\ draft[w][i].rec = x
  <2>1. PICK r \in rows' : r.coll = c /\ r.rec = x
    BY DEF RecordsIn, Group
  <2>2. r \notin rows
    BY <1>1, <2>1 DEF RecordsIn, Group
  <2> QED
    BY <1>0, <2>1, <2>2, NewRowWasDrafted
<1>2. ASSUME NEW c, NEW k, Keyed(rows', c, k) # {}, Keyed(rows, c, k) = {}
      PROVE  \E i \in DOMAIN draft[w] : draft[w][i].coll = c /\ draft[w][i].key = k
  <2>1. PICK r \in rows' : r.coll = c /\ r.key = k
    BY <1>2 DEF Keyed, Group
  <2>2. r \notin rows
    BY <1>2, <2>1 DEF Keyed, Group
  <2> QED
    BY <1>0, <2>1, <2>2, NewRowWasDrafted
<1>3. ASSUME HasRequest(rows', p), ~HasRequest(rows, p)
      PROVE  op[w].kind = "plan" /\ op[w].plan = p
  <2>1. PICK i \in DOMAIN draft[w] :
           draft[w][i].coll = "execution_requests" /\ draft[w][i].key = p
    BY <1>2, <1>3 DEF HasRequest
  <2> QED
    BY <1>0, <2>1 DEF WriteConcerns
<1>4. ASSUME p \in Eligibles(rows') \ Eligibles(rows)
      PROVE  op[w].kind = "plan" /\ op[w].plan = p /\ ~HasRequest(rows, p) /\ HasRequest(rows', p)
  <2>1. PICK g \in RecordsIn(rows', "gateway_decisions") : g.id = p /\ g.eligible
    BY <1>4 DEF Eligibles
  <2>2. g \notin RecordsIn(rows, "gateway_decisions")
    BY <1>4, <2>1 DEF Eligibles
  <2>3. PICK i \in DOMAIN draft[w] : draft[w][i].coll = "gateway_decisions" /\ draft[w][i].rec = g
    BY <1>1, <2>2
  <2>4. draft[w][i].key = p
    BY <1>0, <2>1, <2>3 DEF WellFormed, KeyOf
  <2>5. op[w].kind = "plan" /\ op[w].plan = p
    BY <1>0, <2>3, <2>4 DEF WriteConcerns
  <2>6. PICK j \in DOMAIN draft[w] : draft[w][j].coll = "execution_requests" /\ draft[w][j].key = p
    BY <1>0, <2>3, <2>4 DEF LineageInv, LineageDrafted
  <2>7. ~HasRequest(rows, p)
    BY <1>0, <2>6 DEF RetryInv, NewInLedger, IdKeyed, HasRequest
  <2>8. ~Clash(w)
    BY NoClash DEF PlansSound
  <2>9. HasRequest(rows', p)
    BY <1>0, <2>6, <2>8, Committed, CommittedWrites DEF HasRequest
  <2> QED
    BY <2>5, <2>7, <2>9
<1>5. ASSUME EventOf(rows', p) # {}, EventOf(rows, p) = {}
      PROVE  op[w].kind \in {"simulate", "backfill"} /\ op[w].plan = p
  <2>1. PICK i \in DOMAIN draft[w] :
           draft[w][i].coll = "gateway_decision_events" /\ draft[w][i].key = SimulatedKey(p)
    BY <1>2, <1>5 DEF EventOf
  <2>2. draft[w][i] # CreatedWrite(op[w].plan)
    BY <2>1, KeysDiffer DEF CreatedWrite, EventWrite, Write
  <2>3. op[w].kind \in {"simulate", "backfill"} /\ SimulatedKey(p) = SimulatedKey(op[w].plan)
    BY <1>0, <2>1, <2>2 DEF WriteConcerns
  <2> QED
    BY <2>3 DEF SimulatedKey
<1>6. ASSUME HasOutcome(rows', p), ~HasOutcome(rows, p)
      PROVE  op[w].kind = "outcome" /\ op[w].plan = p /\ EventOf(rows, p) # {}
  <2>1. PICK x \in RecordsIn(rows', "shadow_outcomes") : x.plan = p
    BY <1>6 DEF HasOutcome
  <2>2. x \notin RecordsIn(rows, "shadow_outcomes")
    BY <1>6, <2>1 DEF HasOutcome
  <2>3. PICK i \in DOMAIN draft[w] : draft[w][i].coll = "shadow_outcomes" /\ draft[w][i].rec = x
    BY <1>1, <2>2
  <2> QED
    BY <1>0, <2>1, <2>3 DEF WriteConcerns, ReadInv
<1> QED
  BY <1>3, <1>4, <1>5, <1>6

\* What a plan has it keeps.
LEMMA PlansKept ==
    ASSUME TypeOK, NEW w \in Workers, Work(w), NEW p \in Plans
    PROVE  /\ HasRequest(rows, p) => HasRequest(rows', p)
           /\ EventOf(rows, p) # {} => EventOf(rows', p) # {}
           /\ HasOutcome(rows, p) => HasOutcome(rows', p)
           /\ p \in Eligibles(rows) => p \in Eligibles(rows')
<1>1. rows \subseteq rows'
  BY RowsGrow
<1>2. /\ \A c, k : Keyed(rows, c, k) \subseteq Keyed(rows', c, k)
      /\ \A c : RecordsIn(rows, c) \subseteq RecordsIn(rows', c)
  BY <1>1, KeyedMonotone, RecordsGrow
<1> QED
  BY <1>2 DEF HasRequest, EventOf, HasOutcome, Eligibles

(***************************************************************************)
(* The operations implement DecisionPipeline: a step that commits moves    *)
(* the plan of its operation by one stage, or none, and the others not at  *)
(* all; only plans that were eligible when they were created get further.  *)
(***************************************************************************)
Stages == [p \in Plans |-> StageIn(rows, p)]

LEMMA CommitImplements ==
    ASSUME PlansSound, NEW w \in Workers, Commit(w),
           \A p \in Plans : EventOf(rows', p) # {} => p \in Eligibles(rows')
    PROVE  \/ Stages' = Stages /\ Eligibles(rows') = Eligibles(rows)
           \/ \E p \in Plans :
                 \/ /\ Stages[p] = "absent" /\ Stages' = [Stages EXCEPT ![p] = "planned"]
                    /\ Eligibles(rows') \in {Eligibles(rows), Eligibles(rows) \cup {p}}
                 \/ /\ Stages[p] = "planned" /\ p \in Eligibles(rows)
                    /\ Stages' = [Stages EXCEPT ![p] = "simulated"]
                    /\ Eligibles(rows') = Eligibles(rows)
                 \/ /\ Stages[p] = "simulated" /\ Stages' = [Stages EXCEPT ![p] = "observed"]
                    /\ Eligibles(rows') = Eligibles(rows)
<1> DEFINE o == op[w]
<1>0. /\ Work(w) /\ TypeOK
      /\ Eligibles(rows) \subseteq Plans /\ Eligibles(rows') \subseteq Plans
  BY DEF Work, PlansSound, Eligibles
<1>1. \A q \in Plans :
         /\ HasRequest(rows, q) => HasRequest(rows', q)
         /\ EventOf(rows, q) # {} => EventOf(rows', q) # {}
         /\ HasOutcome(rows, q) => HasOutcome(rows', q)
         /\ q \in Eligibles(rows) => q \in Eligibles(rows')
         /\ EventOf(rows, q) # {} \/ HasOutcome(rows, q) => q \in Eligibles(rows)
         /\ q \in Eligibles(rows) => HasRequest(rows, q)
  BY <1>0, PlansKept, Reached
<1>2. \A q \in Plans :
         /\ HasRequest(rows', q) /\ ~HasRequest(rows, q) => o.kind = "plan" /\ o.plan = q
         /\ q \in Eligibles(rows') \ Eligibles(rows) =>
               o.kind = "plan" /\ o.plan = q /\ ~HasRequest(rows, q) /\ HasRequest(rows', q)
         /\ EventOf(rows', q) # {} /\ EventOf(rows, q) = {} =>
               o.kind \in {"simulate", "backfill"} /\ o.plan = q
         /\ HasOutcome(rows', q) /\ ~HasOutcome(rows, q) =>
               o.kind = "outcome" /\ o.plan = q /\ EventOf(rows, q) # {}
  BY CommitAdds
<1> HIDE DEF o
<1>3. ASSUME NEW p, \A q \in Plans : q # p => StageIn(rows', q) = StageIn(rows, q), NEW s,
             p \in Plans => StageIn(rows', p) = s
      PROVE  Stages' = [Stages EXCEPT ![p] = s]
  BY <1>3 DEF Stages
<1>4. \A q \in Plans : q # o.plan => StageIn(rows', q) = StageIn(rows, q)
  BY <1>1, <1>2 DEF StageIn
<1>5. \A q \in Plans : o.kind \notin {"plan", "simulate", "backfill", "outcome"} =>
          StageIn(rows', q) = StageIn(rows, q)
  BY <1>1, <1>2 DEF StageIn
<1>6. CASE \A q \in Plans : StageIn(rows', q) = StageIn(rows, q)
  <2>1. Stages' = Stages
    BY <1>6 DEF Stages
  <2>2. Eligibles(rows') \subseteq Eligibles(rows)
    <3> SUFFICES ASSUME NEW q \in Eligibles(rows') \ Eligibles(rows) PROVE FALSE
      OBVIOUS
    <3>1. q \in Plans /\ ~HasRequest(rows, q) /\ HasRequest(rows', q) /\ o.kind = "plan"
      BY <1>0, <1>2
    <3>2. ~HasOutcome(rows, q) /\ EventOf(rows, q) = {}
      BY <1>1, <3>1
    <3>3. ~HasOutcome(rows', q) /\ EventOf(rows', q) = {}
      BY <1>2, <3>1, <3>2
    <3> QED
      BY <1>6, <3>1, <3>2, <3>3 DEF StageIn
  <2> QED
    BY <1>0, <1>1, <2>1, <2>2
<1>7. CASE \E q \in Plans : StageIn(rows', q) # StageIn(rows, q)
  <2> DEFINE p == o.plan
  <2>1. p \in Plans /\ StageIn(rows', p) # StageIn(rows, p)
    BY <1>4, <1>7
  <2> HIDE DEF p
  <2>2. Stages[p] = StageIn(rows, p)
    BY <2>1 DEF Stages
  <2>3. \A q \in Plans : q # p => StageIn(rows', q) = StageIn(rows, q)
    BY <1>4 DEF p
  <2>4. CASE o.kind = "plan"
    <3>1. /\ HasRequest(rows', p) /\ ~HasRequest(rows, p)
          /\ ~HasOutcome(rows', p) /\ EventOf(rows', p) = {}
          /\ ~HasOutcome(rows, p) /\ EventOf(rows, p) = {}
      BY <1>1, <1>2, <2>1, <2>4 DEF StageIn
    <3>2. StageIn(rows, p) = "absent" /\ StageIn(rows', p) = "planned"
      BY <3>1 DEF StageIn
    <3>3. Eligibles(rows') \in {Eligibles(rows), Eligibles(rows) \cup {p}}
      BY <1>0, <1>1, <1>2 DEF p
    <3>4. Stages' = [Stages EXCEPT ![p] = "planned"]
      BY <1>3, <2>3, <3>2
    <3> QED
      BY <2>1, <2>2, <3>2, <3>3, <3>4
  <2>5. CASE o.kind # "plan"
    <3>1. Eligibles(rows') = Eligibles(rows)
      BY <1>0, <1>1, <1>2, <2>5
    <3>2. HasRequest(rows', p) => HasRequest(rows, p)
      BY <1>2, <2>1, <2>5
    <3>3. CASE o.kind = "outcome"
      <4>1. StageIn(rows, p) = "simulated" /\ StageIn(rows', p) = "observed"
        BY <1>1, <1>2, <2>1, <3>2, <3>3 DEF StageIn
      <4>2. Stages' = [Stages EXCEPT ![p] = "observed"]
        BY <1>3, <2>3, <4>1
      <4> QED
        BY <2>1, <2>2, <3>1, <4>1, <4>2
    <3>4. CASE o.kind # "outcome"
      <4>1. HasOutcome(rows', p) => HasOutcome(rows, p)
        BY <1>2, <2>1, <3>4
      <4>2. /\ EventOf(rows', p) # {} /\ EventOf(rows, p) = {}
            /\ ~HasOutcome(rows', p) /\ ~HasOutcome(rows, p)
        BY <1>1, <2>1, <3>2, <4>1 DEF StageIn
      <4>3. p \in Eligibles(rows) /\ HasRequest(rows, p)
        BY <1>1, <2>1, <3>1, <4>2
      <4>4. StageIn(rows, p) = "planned" /\ StageIn(rows', p) = "simulated"
        BY <4>2, <4>3 DEF StageIn
      <4>5. Stages' = [Stages EXCEPT ![p] = "simulated"]
        BY <1>3, <2>3, <4>4
      <4> QED
        BY <2>1, <2>2, <3>1, <4>3, <4>4, <4>5
    <3> QED
      BY <3>3, <3>4
  <2> QED
    BY <2>4, <2>5
<1> QED
  BY <1>6, <1>7

Matching == \A p \in Plans : EventOf(rows, p) # {} => p \in Eligibles(rows)

(***************************************************************************)
(* The services of grdi/service.py implement the abstract pipeline: every  *)
(* commit of any of them moves a plan by one stage, in the order planned,  *)
(* simulated, observed, or moves none.                                     *)
(***************************************************************************)
THEOREM Implements == Spec => ImplementsPipeline
<1>1. Stages = [p \in Plans |-> StageOf(p)]
  BY DEF Stages, StageIn, StageOf, HasOutcome, HasRequest, EventOf, Records
<1>2. Eligibles(rows) = {p \in Plans : \E g \in Records("gateway_decisions") : g.id = p /\ g.eligible}
  BY DEF Eligibles, Records
<1>3. PlansSound => Matching
  BY Reached DEF Matching
<1>4. PlansSound => Pipeline!Init
  <2> SUFFICES ASSUME PlansSound
               PROVE  /\ Stages \in [Plans -> {"absent", "planned", "simulated", "observed"}]
                      /\ Eligibles(rows) \subseteq {p \in Plans : Stages[p] # "absent"}
                      /\ {p \in Plans : Stages[p] \in {"simulated", "observed"}}
                            \subseteq Eligibles(rows)
    BY <1>1, <1>2 DEF Pipeline!Init, Pipeline!Stages
  <2>1. \A p \in Plans : Stages[p] = StageIn(rows, p)
    BY DEF Stages
  <2> QED
    BY <2>1, Reached DEF Stages, StageIn, Eligibles
<1>5. PlansSound /\ Matching' /\ [Next]_vars => [Pipeline!Next]_(Pipeline!vars)
  <2> SUFFICES ASSUME PlansSound, Matching', [Next]_vars
               PROVE  [Pipeline!Next]_(Pipeline!vars)
    OBVIOUS
  <2>1. \/ Stages' = Stages /\ Eligibles(rows') = Eligibles(rows)
        \/ \E p \in Plans :
              \/ /\ Stages[p] = "absent" /\ Stages' = [Stages EXCEPT ![p] = "planned"]
                 /\ Eligibles(rows') \in {Eligibles(rows), Eligibles(rows) \cup {p}}
              \/ /\ Stages[p] = "planned" /\ p \in Eligibles(rows)
                 /\ Stages' = [Stages EXCEPT ![p] = "simulated"]
                 /\ Eligibles(rows') = Eligibles(rows)
              \/ /\ Stages[p] = "simulated" /\ Stages' = [Stages EXCEPT ![p] = "observed"]
                 /\ Eligibles(rows') = Eligibles(rows)
    <3>1. CASE UNCHANGED rows
      BY <3>1 DEF Stages
    <3>2. CASE rows' # rows
      <4>1. PICK w \in Workers : Work(w)
        BY <3>2 DEF Next, vars
      <4>2. Commit(w)
        BY <3>2, <4>1, OtherWorkersKept DEF PlansSound
      <4>3. \A p \in Plans : EventOf(rows', p) # {} => p \in Eligibles(rows')
        BY DEF Matching
      <4> QED
        BY <4>2, <4>3, CommitImplements
    <3> QED
      BY <3>1, <3>2
  <2>2. Stages' = [p \in Plans |-> StageOf(p)]'
    BY DEF Stages, StageIn, StageOf, HasOutcome, HasRequest, EventOf, Records
  <2>3. Eligibles(rows')
          = {p \in Plans : \E g \in Records("gateway_decisions") : g.id = p /\ g.eligible}'
    BY DEF Eligibles, Records
  <2> QED
    BY ONLY <1>1, <1>2, <2>1, <2>2, <2>3
    DEF Pipeline!Next, Pipeline!Create, Pipeline!Simulate, Pipeline!Observe, Pipeline!vars
<1>6. Spec => []PlansSound
  BY Typing, Soundness, EventsInvariant, RetriesInvariant, LineageInvariant, ReadsInvariant,
     PTL DEF PlansSound
<1> QED
  BY <1>3, <1>4, <1>5, <1>6, PTL DEF Spec, ImplementsPipeline, Pipeline!Spec

-----------------------------------------------------------------------------
(***************************************************************************)
(* The ledger beneath: auditors leave it alone, and it stays finite, since *)
(* a transaction writes at most three rows.                                *)
(***************************************************************************)
LEMMA AuditorsOnlyRead ==
    ASSUME NEW a \in Auditors, Auditing(a)
    PROVE  UNCHANGED <<vars, damaged>>
BY DEF Auditing, Snapshot, Persist, StoreReport, GetReport, ListReports, ReadSources,
       CompareHeads, LoadPair, StoreComparison, GetComparison, Answered, Answer, Move

\* What the services do beside the auditors is what they do without them.
LEMMA ServicesGoOn == ReplaySpec => Spec
<1>1. ReplayInit => Init
  BY DEF ReplayInit
<1>2. [ReplayNext]_allVars => [Next]_vars
  BY AuditorsOnlyRead DEF ReplayNext, Damage, Restore, allVars
<1> QED
  BY <1>1, <1>2, PTL DEF ReplaySpec, Spec

ShortDrafts == \A w \in Workers : DOMAIN draft[w] \subseteq 1..3

LEMMA WorkShort ==
    ASSUME TypeOK, ShortDrafts, NEW w \in Workers, Work(w)
    PROVE  DOMAIN draft'[w] \subseteq 1..3
<1>1. /\ DOMAIN << >> \subseteq 1..3
      /\ \A x : DOMAIN <<x>> \subseteq 1..3
      /\ \A x, y : DOMAIN <<x, y>> \subseteq 1..3
      /\ \A x, y, z : DOMAIN <<x, y, z>> \subseteq 1..3
  OBVIOUS
<1>2. \A o, writes, next : Start(w, o, writes, next) => draft'[w] = writes
  BY Started
<1>3. \A writes : Wrote(w, writes) => draft'[w] = writes
  BY Written
<1>4. CASE Register(w)
  BY <1>1, <1>2, <1>4 DEF Register
<1>5. CASE Authorize(w)
  BY <1>1, <1>2, <1>5 DEF Authorize
<1>6. CASE CreatePlan(w)
  BY <1>1, <1>2, <1>6 DEF CreatePlan
<1>7. CASE Simulate(w) \/ RecordOutcome(w)
  BY <1>1, <1>2, <1>7 DEF Simulate, RecordOutcome
<1>8. CASE ViewPlan(w) \/ Backfill(w)
  BY <1>1, <1>2, <1>8 DEF ViewPlan, Backfill
<1>9. CASE Read(w) \/ Lock(w)
  BY <1>9 DEF Read, Lock, ShortDrafts
<1>10. CASE WritePrepared(w)
  BY <1>3, <1>10 DEF WritePrepared, ShortDrafts
<1>11. CASE SimulateCallback(w)
  BY <1>1, <1>3, <1>11 DEF SimulateCallback
<1>12. CASE OutcomeCallback(w)
  BY <1>1, <1>3, <1>12 DEF OutcomeCallback
<1>13. CASE BackfillCallback(w)
  BY <1>1, <1>3, <1>13 DEF BackfillCallback
<1>14. CASE Commit(w)
  BY <1>1, <1>14, Committed
<1>15. CASE Return(w) \/ Abort(w)
  BY <1>1, <1>15, Ended
<1> QED
  BY <1>4, <1>5, <1>6, <1>7, <1>8, <1>9, <1>10, <1>11, <1>12, <1>13, <1>14, <1>15 DEF Work

LEMMA PublishedFinite ==
    ASSUME NEW R, IsFiniteSet(R), NEW d, DOMAIN d \subseteq 1..3
    PROVE  IsFiniteSet(Published(R, d))
<1> DEFINE Row(i) ==
        [coll |-> d[i].coll, key |-> d[i].key, rec |-> d[i].rec,
         seq |-> Cardinality(Group(R, d[i].coll))
                 + Cardinality({j \in NewWrites(R, d) : j <= i /\ d[j].coll = d[i].coll})]
           All == ((R \cup {Row(1)}) \cup {Row(2)}) \cup {Row(3)}
<1>1. Published(R, d) = R \cup {Row(i) : i \in NewWrites(R, d)}
  BY Zenon DEF Published
<1>2. NewWrites(R, d) \subseteq {1, 2, 3}
  <2>1. NewWrites(R, d) \subseteq 1..3
    BY Zenon DEF NewWrites
  <2> QED
    BY <2>1
<1> HIDE DEF Row
<1>3. Published(R, d) \in SUBSET All
  BY <1>1, <1>2
<1>4. IsFiniteSet(All)
  BY FS_AddElement
<1> HIDE DEF All
<1> QED
  BY <1>3, <1>4, FS_Subset

\* The ledger is finite at every moment (the rows that append_scoped_once adds).
THEOREM LedgerIsFinite == Spec => [](ShortDrafts /\ IsFiniteSet(rows))
<1>1. Init => ShortDrafts /\ IsFiniteSet(rows)
  BY ReplayAssumption DEF Init, ShortDrafts
<1>2. TypeOK /\ ShortDrafts /\ IsFiniteSet(rows) /\ [Next]_vars => (ShortDrafts /\ IsFiniteSet(rows))'
  <2> SUFFICES ASSUME TypeOK, ShortDrafts, IsFiniteSet(rows), [Next]_vars
               PROVE  ShortDrafts' /\ IsFiniteSet(rows')
    OBVIOUS
  <2>1. CASE UNCHANGED vars
    BY <2>1 DEF vars, ShortDrafts
  <2>2. CASE Next
    <3>1. PICK w \in Workers : Work(w)
      BY <2>2 DEF Next
    <3>2. ShortDrafts'
      BY <3>1, WorkShort, OtherWorkersKept DEF ShortDrafts
    <3>3. CASE Commit(w)
      <4>1. IsFiniteSet(Published(rows, draft[w]))
        BY PublishedFinite DEF ShortDrafts
      <4>2. rows' = rows \/ rows' = Published(rows, draft[w])
        BY <3>3, Committed
      <4> QED
        BY <3>2, <4>1, <4>2
    <3> QED
      BY <3>1, <3>2, <3>3, OtherWorkersKept
  <2> QED
    BY <2>1, <2>2
<1> QED
  BY <1>1, <1>2, Typing, PTL DEF Spec

-----------------------------------------------------------------------------
(***************************************************************************)
(* What a report is about.  HeadsOf(R) are the heads of a ledger with the  *)
(* rows R, none of them damaged, and IntactRows(R, p) what _load_chain_rows *)
(* finds there.                                                            *)
(***************************************************************************)
HeadsOf(R) == [c \in Audited |-> Cardinality(Group(R, c))]

IntactRows(R, p) == {[coll |-> r.coll, rec |-> r.rec, intact |-> TRUE] : r \in Found(R, p)}

LEMMA HeadsAreHeads ==
    ASSUME NEW R
    PROVE  HeadsOf(R) # NoHeads
<1>1. "execution_requests" \in DOMAIN HeadsOf(R)
  BY DEF HeadsOf, Audited, Collections
<1>2. DOMAIN NoHeads = {}
  BY DEF NoHeads
<1> QED
  BY <1>1, <1>2

LEMMA UndamagedLedger ==
    ASSUME damaged = {}
    PROVE  ChainHeads = HeadsOf(rows) /\ \A p : ChainRows(p) = IntactRows(rows, p)
BY DEF ChainHeads, HeadsOf, ChainRows, IntactRows

LEMMA HeadsMeanUndamaged ==
    ASSUME ChainHeads # NoHeads
    PROVE  damaged = {}
BY DEF ChainHeads

\* Rows are only ever added, so two states with the same heads have the same rows in
\* every chain that a replay reads.
LEMMA SameHeadsSameRows ==
    ASSUME IsFiniteSet(rows), NEW R \in SUBSET rows, HeadsOf(R) = HeadsOf(rows)
    PROVE  \A p : Found(R, p) = Found(rows, p)
<1>1. ASSUME NEW c \in Audited PROVE Group(R, c) = Group(rows, c)
  <2>1. Cardinality(Group(R, c)) = Cardinality(Group(rows, c))
    BY Zenon DEF HeadsOf
  <2>2. Group(R, c) \in SUBSET Group(rows, c)
    BY DEF Group
  <2>3. IsFiniteSet(Group(rows, c))
    <3>1. Group(rows, c) \in SUBSET rows
      BY DEF Group
    <3> QED
      BY <3>1, FS_Subset
  <2> QED
    BY <2>1, <2>2, <2>3, FS_Subset
<1>2. \A c \in Audited : \A k : Keyed(R, c, k) = Keyed(rows, c, k)
  BY <1>1 DEF Keyed
<1>3. {"execution_requests", "shadow_execution_receipts", "gateway_decisions",
       "decision_envelopes", "authority_decisions", "shadow_outcomes"} \subseteq Audited
  BY DEF Audited, Collections
<1> QED
  BY <1>2, <1>3 DEF Found

-----------------------------------------------------------------------------
(***************************************************************************)
(* The inductive invariant.  Reports are told apart by id, by place and by *)
(* what they are about; one that has heads is about a state of the ledger  *)
(* that has only grown since; a comparison is of two reports, under the    *)
(* key of the two; and an auditor works with reports that are stored.      *)
(***************************************************************************)
ReportsApart ==
    /\ IsFiniteSet(reports)
    /\ \A x \in reports :
          /\ x.id \in Reports
          /\ x.seq \in 1..Cardinality(reports)
          /\ x.hash = [records |-> x.hash.records, version |-> x.hash.version]
    /\ \A x, y \in reports : x.id = y.id \/ x.seq = y.seq \/ x.hash = y.hash => x = y

AboutLedger(x) ==
    x.heads # NoHeads =>
        \E R \in SUBSET rows : x.heads = HeadsOf(R) /\ x.hash.records = IntactRows(R, x.plan)

ComparisonsApart ==
    /\ \A c \in comparisons :
          /\ c.id \in Comparisons
          /\ c.base \in reports /\ c.with \in reports
          /\ c.key = ComparisonKey(c.base, c.with)
          /\ c.state = ComparisonState(c.base, c.with)
    /\ \A c, d \in comparisons : c.id = d.id \/ c.key = d.key => c = d

AuditSound(a) ==
    /\ audit[a].phase \in {"reading", "compared"} => audit[a].todo \subseteq reports
    /\ audit[a].phase = "loaded" =>
          /\ audit[a].answer = NoId
          /\ \E x, y \in reports : audit[a].pair = <<x, y>>

ReplayInv ==
    /\ DOMAIN audit = Auditors
    /\ ReportsApart
    /\ \A x \in reports : AboutLedger(x)
    /\ ComparisonsApart
    /\ \A a \in Auditors : AuditSound(a)

\* The services, the damage and its repair leave the reports alone.
LEMMA LedgerMoves ==
    ASSUME ReplayInv, rows \subseteq rows', UNCHANGED <<reports, comparisons, audit>>
    PROVE  ReplayInv'
<1>1. \A x \in reports : AboutLedger(x)'
  BY DEF ReplayInv, AboutLedger
<1> QED
  BY <1>1 DEF ReplayInv, ReportsApart, ComparisonsApart, AuditSound

LEMMA AuditorMoves ==
    ASSUME ReplayInv, NEW a \in Auditors, NEW state, Move(a, state), reports \subseteq reports',
           state.phase \in {"reading", "compared"} => state.todo \subseteq reports,
           state.phase = "loaded" =>
              state.answer = NoId /\ \E x, y \in reports : state.pair = <<x, y>>
    PROVE  /\ DOMAIN audit' = Auditors
           /\ audit'[a] = state
           /\ \A b \in Auditors \ {a} : audit'[b] = audit[b]
           /\ \A b \in Auditors : AuditSound(b)'
           /\ UNCHANGED <<rows, damaged>>
<1>1. DOMAIN audit' = Auditors /\ audit'[a] = state /\ \A b \in Auditors \ {a} : audit'[b] = audit[b]
  BY DEF ReplayInv, Move
<1>2. AuditSound(a)'
  BY <1>1 DEF AuditSound
<1>3. ASSUME NEW b \in Auditors \ {a} PROVE AuditSound(b)'
  BY <1>1, <1>3 DEF AuditSound, ReplayInv
<1>4. UNCHANGED <<rows, damaged>>
  BY DEF Move, vars
<1> QED
  BY <1>1, <1>2, <1>3, <1>4

\* An auditor that writes nothing.
LEMMA AuditorReads ==
    ASSUME ReplayInv, NEW a \in Auditors, NEW state, Move(a, state), UNCHANGED <<reports, comparisons>>,
           state.phase \in {"reading", "compared"} => state.todo \subseteq reports,
           state.phase = "loaded" =>
              state.answer = NoId /\ \E x, y \in reports : state.pair = <<x, y>>
    PROVE  ReplayInv'
<1>1. /\ DOMAIN audit' = Auditors
      /\ \A b \in Auditors : AuditSound(b)'
      /\ UNCHANGED <<rows, damaged>>
  BY AuditorMoves
<1>2. \A x \in reports : AboutLedger(x)'
  BY <1>1 DEF ReplayInv, AboutLedger
<1> QED
  BY <1>1, <1>2 DEF ReplayInv, ReportsApart, ComparisonsApart

\* A returned answer is neither read on nor compared.
LEMMA AnsweredState ==
    ASSUME NEW id
    PROVE  /\ [Idle EXCEPT !.phase = "returned", !.answer = id].phase = "returned"
           /\ [Idle EXCEPT !.phase = "returned", !.answer = id].answer = id
BY DEF Idle

-----------------------------------------------------------------------------
(***************************************************************************)
(* What Persist stores: a report that no other is about, of the ledger as  *)
(* it is.                                                                  *)
(***************************************************************************)
LEMMA NewReportApart ==
    ASSUME ReportsApart, NEW p, NEW version, NEW id \in Reports \ {x.id : x \in reports},
           {x \in reports : x.hash = ManifestHash(Manifest(p, version))} = {},
           reports' = reports \cup {NewReport(id, p, Manifest(p, version))}
    PROVE  ReportsApart'
<1> DEFINE new == NewReport(id, p, Manifest(p, version))
<1>1. /\ new.id = id /\ new.seq = Cardinality(reports) + 1
      /\ new.hash = ManifestHash(Manifest(p, version))
      /\ new.hash = [records |-> new.hash.records, version |-> new.hash.version]
  BY DEF NewReport, Manifest, ManifestHash
<1>2. new \notin reports
  BY <1>1
<1> HIDE DEF new
<1>3. reports' = reports \cup {new}
  BY DEF new
<1>4. /\ IsFiniteSet(reports') /\ Cardinality(reports') = Cardinality(reports) + 1
      /\ Cardinality(reports) \in Nat
  <2>1. IsFiniteSet(reports)
    BY DEF ReportsApart
  <2> QED
    BY <1>2, <1>3, <2>1, FS_AddElement, FS_CardinalityType
<1>5. ASSUME NEW x \in reports'
      PROVE  /\ x.id \in Reports
             /\ x.seq \in 1..Cardinality(reports')
             /\ x.hash = [records |-> x.hash.records, version |-> x.hash.version]
  BY <1>1, <1>3, <1>4, <1>5 DEF ReportsApart
<1>6. ASSUME NEW x \in reports
      PROVE  x.id # new.id /\ x.seq # new.seq /\ x.hash # new.hash
  <2>1. x.id # new.id
    <3>1. x.id # id
      BY <1>6
    <3> QED
      BY <1>1, <3>1
  <2>2. x.seq # new.seq
    <3>1. x.seq \in 1..Cardinality(reports)
      BY <1>6 DEF ReportsApart
    <3>2. x.seq <= Cardinality(reports) /\ x.seq \in Nat
      BY <1>4, <3>1
    <3> QED
      BY <1>1, <1>4, <3>2
  <2>3. x.hash # new.hash
    <3>1. x.hash # ManifestHash(Manifest(p, version))
      BY <1>6
    <3> QED
      BY <1>1, <3>1
  <2> QED
    BY <2>1, <2>2, <2>3
<1>7. ASSUME NEW x \in reports', NEW y \in reports',
             x.id = y.id \/ x.seq = y.seq \/ x.hash = y.hash
      PROVE  x = y
  BY <1>3, <1>6, <1>7 DEF ReportsApart
<1> QED
  BY <1>4, <1>5, <1>7 DEF ReportsApart

LEMMA NewReportAboutLedger ==
    ASSUME NEW id, NEW p, NEW version
    PROVE  AboutLedger(NewReport(id, p, Manifest(p, version)))
<1> DEFINE new == NewReport(id, p, Manifest(p, version))
<1>1. new.plan = p /\ new.heads = ChainHeads /\ new.hash.records = ChainRows(p)
  BY DEF NewReport, Manifest, ManifestHash
<1> HIDE DEF new
<1>2. CASE ChainHeads = NoHeads
  BY <1>1, <1>2 DEF AboutLedger, new
<1>3. CASE ChainHeads # NoHeads
  <2>1. ChainHeads = HeadsOf(rows) /\ ChainRows(p) = IntactRows(rows, p)
    BY <1>3, HeadsMeanUndamaged, UndamagedLedger
  <2>2. new.heads = HeadsOf(rows) /\ new.hash.records = IntactRows(rows, new.plan)
    BY <1>1, <2>1
  <2>3. AboutLedger(new)
    BY <2>2 DEF AboutLedger
  <2> QED
    BY <2>3 DEF new
<1> QED
  BY <1>2, <1>3

\* The two ends of StoreReport.
LEMMA Stored ==
    ASSUME NEW a \in Auditors, Persist(a), reports' # reports
    PROVE  \E p, version : \E id \in Reports \ {x.id : x \in reports} :
              /\ {x \in reports : x.hash = ManifestHash(Manifest(p, version))} = {}
              /\ reports' = reports \cup {NewReport(id, p, Manifest(p, version))}
              /\ Answer(a, id)
              /\ UNCHANGED comparisons
BY DEF Persist, StoreReport

LEMMA NothingStored ==
    ASSUME NEW a \in Auditors, Persist(a), reports' = reports
    PROVE  UNCHANGED comparisons /\ (Move(a, Idle) \/ \E id : Answer(a, id))
BY DEF Persist, StoreReport

LEMMA PersistKeeps ==
    ASSUME ReplayInv, NEW a \in Auditors, Persist(a)
    PROVE  ReplayInv'
<1>1. CASE reports' = reports
  <2>1. CASE Move(a, Idle)
    BY <1>1, <2>1, NothingStored, AuditorReads DEF Idle
  <2>2. CASE \E id : Answer(a, id)
    BY <1>1, <2>2, NothingStored, AuditorReads, AnsweredState DEF Answer
  <2> QED
    BY <1>1, <2>1, <2>2, NothingStored
<1>2. CASE reports' # reports
  <2>1. PICK p, version : \E id \in Reports \ {x.id : x \in reports} :
              /\ {x \in reports : x.hash = ManifestHash(Manifest(p, version))} = {}
              /\ reports' = reports \cup {NewReport(id, p, Manifest(p, version))}
              /\ Answer(a, id)
              /\ UNCHANGED comparisons
    BY <1>2, Stored
  <2>2. PICK id \in Reports \ {x.id : x \in reports} :
              /\ {x \in reports : x.hash = ManifestHash(Manifest(p, version))} = {}
              /\ reports' = reports \cup {NewReport(id, p, Manifest(p, version))}
              /\ Answer(a, id)
              /\ UNCHANGED comparisons
    BY <2>1
  <2>3. ReportsApart'
    BY <2>2, NewReportApart DEF ReplayInv
  <2>4. /\ DOMAIN audit' = Auditors
        /\ \A b \in Auditors : AuditSound(b)'
        /\ UNCHANGED <<rows, damaged>>
    BY <2>2, AuditorMoves, AnsweredState DEF Answer
  <2>5. \A x \in reports' : AboutLedger(x)
    BY <2>2, NewReportAboutLedger DEF ReplayInv
  <2>6. \A x \in reports' : AboutLedger(x)'
    BY <2>4, <2>5 DEF AboutLedger
  <2>7. ComparisonsApart'
    BY <2>2 DEF ReplayInv, ComparisonsApart
  <2> QED
    BY <2>3, <2>4, <2>6, <2>7 DEF ReplayInv
<1> QED
  BY <1>1, <1>2

(***************************************************************************)
(* What StoreComparison stores: a comparison of the two reports that were  *)
(* loaded, under a key that no other has.                                  *)
(***************************************************************************)
LEMMA LoadedPair ==
    ASSUME ReplayInv, NEW a \in Auditors, StoreComparison(a)
    PROVE  \E x, y \in reports :
              /\ audit[a].pair = <<x, y>>
              /\ LET same == {c \in comparisons : c.key = ComparisonKey(x, y)}
                 IN  \/ \E c \in same : Answer(a, c.id) /\ UNCHANGED comparisons
                     \/ /\ same = {}
                        /\ \E id \in Comparisons \ {c.id : c \in comparisons} :
                              /\ comparisons' = comparisons \cup {NewComparison(id, x, y)}
                              /\ Answer(a, id)
<1>1. PICK x \in reports, y \in reports : audit[a].pair = <<x, y>>
  BY DEF StoreComparison, ReplayInv, AuditSound
<1>2. audit[a].pair[1] = x /\ audit[a].pair[2] = y
  BY <1>1
<1> QED
  BY <1>1, <1>2 DEF StoreComparison

LEMMA NewComparisonApart ==
    ASSUME ComparisonsApart, NEW x \in reports, NEW y \in reports,
           NEW id \in Comparisons \ {c.id : c \in comparisons},
           {c \in comparisons : c.key = ComparisonKey(x, y)} = {},
           comparisons' = comparisons \cup {NewComparison(id, x, y)}, UNCHANGED reports
    PROVE  ComparisonsApart'
<1> DEFINE new == NewComparison(id, x, y)
<1>1. /\ new.id = id /\ new.base = x /\ new.with = y
      /\ new.key = ComparisonKey(x, y) /\ new.state = ComparisonState(x, y)
  BY DEF NewComparison
<1> HIDE DEF new
<1>2. comparisons' = comparisons \cup {new}
  BY DEF new
<1> QED
  BY <1>1, <1>2 DEF ComparisonsApart

LEMMA StoreComparisonKeeps ==
    ASSUME ReplayInv, NEW a \in Auditors, StoreComparison(a)
    PROVE  ReplayInv'
<1>1. PICK x \in reports, y \in reports :
              /\ audit[a].pair = <<x, y>>
              /\ LET same == {c \in comparisons : c.key = ComparisonKey(x, y)}
                 IN  \/ \E c \in same : Answer(a, c.id) /\ UNCHANGED comparisons
                     \/ /\ same = {}
                        /\ \E id \in Comparisons \ {c.id : c \in comparisons} :
                              /\ comparisons' = comparisons \cup {NewComparison(id, x, y)}
                              /\ Answer(a, id)
  BY LoadedPair
<1>2. UNCHANGED reports
  BY DEF StoreComparison
<1>3. ComparisonsApart'
  <2>1. CASE UNCHANGED comparisons
    BY <1>2, <2>1 DEF ReplayInv, ComparisonsApart
  <2>2. CASE comparisons' # comparisons
    BY <1>1, <1>2, <2>2, NewComparisonApart DEF ReplayInv
  <2> QED
    BY <2>1, <2>2
<1>4. PICK id : Answer(a, id)
  BY <1>1
<1>5. /\ DOMAIN audit' = Auditors
      /\ \A b \in Auditors : AuditSound(b)'
      /\ UNCHANGED <<rows, damaged>>
  BY <1>2, <1>4, AuditorMoves, AnsweredState DEF Answer
<1> QED
  BY <1>2, <1>3, <1>5 DEF ReplayInv, ReportsApart, AboutLedger

\* The actions that only read.
LEMMA ReadingKeeps ==
    ASSUME ReplayInv, NEW a \in Auditors,
           \/ Snapshot(a) \/ GetReport(a) \/ ListReports(a) \/ ReadSources(a) \/ CompareHeads(a)
           \/ LoadPair(a) \/ GetComparison(a) \/ Answered(a)
    PROVE  ReplayInv'
<1>1. CASE Snapshot(a)
  <2>1. PICK q \in Records("execution_requests"), version \in Versions :
           Move(a, [Idle EXCEPT !.phase = "built", !.plan = q.id,
                                !.snapshot = ManifestHash(Manifest(q.id, version))])
    BY <1>1 DEF Snapshot
  <2> DEFINE state == [Idle EXCEPT !.phase = "built", !.plan = q.id,
                                   !.snapshot = ManifestHash(Manifest(q.id, version))]
  <2>2. state.phase = "built"
    BY DEF Idle
  <2>3. Move(a, state) /\ UNCHANGED <<reports, comparisons>>
    BY <1>1, <2>1 DEF Snapshot
  <2> HIDE DEF state
  <2> QED
    BY <2>2, <2>3, AuditorReads
<1>2. CASE GetReport(a)
  <2>1. PICK x \in Listed : Move(a, [Idle EXCEPT !.phase = "reading", !.todo = {x}])
    BY <1>2 DEF GetReport
  <2> DEFINE state == [Idle EXCEPT !.phase = "reading", !.todo = {x}]
  <2>2. state.phase = "reading" /\ state.todo \subseteq reports
    BY DEF Idle, Listed
  <2>3. Move(a, state) /\ UNCHANGED <<reports, comparisons>>
    BY <1>2, <2>1 DEF GetReport
  <2> HIDE DEF state
  <2> QED
    BY <2>2, <2>3, AuditorReads
<1>3. CASE ListReports(a)
  <2>1. PICK p \in Plans : Move(a, [Idle EXCEPT !.phase = "reading", !.todo = Prior(p)])
    BY <1>3 DEF ListReports
  <2> DEFINE state == [Idle EXCEPT !.phase = "reading", !.todo = Prior(p)]
  <2>2. state.phase = "reading" /\ state.todo \subseteq reports
    BY DEF Idle, Prior
  <2>3. Move(a, state) /\ UNCHANGED <<reports, comparisons>>
    BY <1>3, <2>1 DEF ListReports
  <2> HIDE DEF state
  <2> QED
    BY <2>2, <2>3, AuditorReads
<1>4. CASE ReadSources(a)
  <2> DEFINE state == [Idle EXCEPT !.phase = "compared", !.todo = audit[a].todo]
  <2>1. state.phase = "compared" /\ state.todo \subseteq reports
    BY <1>4 DEF Idle, ReadSources, ReplayInv, AuditSound
  <2>2. Move(a, Idle) \/ Move(a, state)
    BY <1>4 DEF ReadSources
  <2>3. UNCHANGED <<reports, comparisons>>
    BY <1>4 DEF ReadSources
  <2>4. Idle.phase = "idle"
    BY DEF Idle
  <2> HIDE DEF state
  <2> QED
    BY <2>1, <2>2, <2>3, <2>4, AuditorReads
<1>5. CASE CompareHeads(a)
  <2>1. PICK x \in FirstOf(audit[a].todo) :
           \/ Move(a, Idle)
           \/ Answer(a, x.id)
           \/ Move(a, [Idle EXCEPT !.phase = "reading", !.todo = audit[a].todo \ {x}])
    BY <1>5 DEF CompareHeads
  <2> DEFINE state == [Idle EXCEPT !.phase = "reading", !.todo = audit[a].todo \ {x}]
  <2>2. state.phase = "reading" /\ state.todo \subseteq reports
    BY <1>5 DEF Idle, CompareHeads, ReplayInv, AuditSound
  <2>3. UNCHANGED <<reports, comparisons>>
    BY <1>5 DEF CompareHeads
  <2>4. CASE Move(a, state)
    <3> HIDE DEF state
    <3> QED
      BY <2>2, <2>3, <2>4, AuditorReads
  <2>5. CASE Move(a, Idle)
    BY <2>3, <2>5, AuditorReads DEF Idle
  <2>6. CASE Answer(a, x.id)
    BY <2>3, <2>6, AuditorReads, AnsweredState DEF Answer
  <2> QED
    BY <2>1, <2>4, <2>5, <2>6
<1>6. CASE LoadPair(a)
  <2>1. PICK x \in Listed, y \in Listed : Move(a, [Idle EXCEPT !.phase = "loaded", !.pair = <<x, y>>])
    BY <1>6 DEF LoadPair
  <2> DEFINE state == [Idle EXCEPT !.phase = "loaded", !.pair = <<x, y>>]
  <2>2. state.phase = "loaded" /\ state.answer = NoId /\ state.pair = <<x, y>>
    BY DEF Idle
  <2>3. x \in reports /\ y \in reports
    BY DEF Listed
  <2>4. Move(a, state) /\ UNCHANGED <<reports, comparisons>>
    BY <1>6, <2>1 DEF LoadPair
  <2> HIDE DEF state
  <2> QED
    BY <2>2, <2>3, <2>4, AuditorReads
<1>7. CASE GetComparison(a)
  <2>1. UNCHANGED <<reports, comparisons>> /\ (Move(a, Idle) \/ \E id : Answer(a, id))
    BY <1>7 DEF GetComparison
  <2>2. CASE Move(a, Idle)
    BY <2>1, <2>2, AuditorReads DEF Idle
  <2>3. CASE \E id : Answer(a, id)
    BY <2>1, <2>3, AuditorReads, AnsweredState DEF Answer
  <2> QED
    BY <2>1, <2>2, <2>3
<1>8. CASE Answered(a)
  BY <1>8, AuditorReads DEF Answered, Idle
<1> QED
  BY <1>1, <1>2, <1>3, <1>4, <1>5, <1>6, <1>7, <1>8

LEMMA InitAudits == ReplayInit => ReplayInv
<1> SUFFICES ASSUME ReplayInit PROVE ReplayInv
  OBVIOUS
<1>1. reports = {} /\ comparisons = {} /\ DOMAIN audit = Auditors
  BY DEF ReplayInit
<1>2. IsFiniteSet(reports)
  BY <1>1, FS_EmptySet
<1>3. \A a \in Auditors : audit[a].phase = "idle"
  BY DEF ReplayInit, Idle
<1> QED
  BY <1>1, <1>2, <1>3 DEF ReplayInv, ReportsApart, ComparisonsApart, AuditSound

LEMMA StepAudits == TypeOK /\ ReplayInv /\ [ReplayNext]_allVars => ReplayInv'
<1> SUFFICES ASSUME TypeOK, ReplayInv, [ReplayNext]_allVars PROVE ReplayInv'
  OBVIOUS
<1>1. CASE Next /\ UNCHANGED replayVars
  BY <1>1, RowsGrow, LedgerMoves DEF Next, replayVars
<1>2. CASE Damage \/ Restore
  BY <1>2, LedgerMoves DEF Damage, Restore, vars
<1>3. CASE \E a \in Auditors : Auditing(a)
  BY <1>3, PersistKeeps, StoreComparisonKeeps, ReadingKeeps DEF Auditing
<1>4. CASE UNCHANGED allVars
  BY <1>4, LedgerMoves DEF allVars, vars, replayVars
<1> QED
  BY <1>1, <1>2, <1>3, <1>4 DEF ReplayNext

\* What the auditors keep, on the ledger of the services (grdi/replay.py).
THEOREM ReplayInvariant == ReplaySpec => [](TypeOK /\ IsFiniteSet(rows) /\ ReplayInv)
<1> QED
  BY InitAudits, StepAudits, ServicesGoOn, Typing, LedgerIsFinite, PTL DEF ReplaySpec

-----------------------------------------------------------------------------
(***************************************************************************)
(* One snapshot of a plan has one report, however many auditors replay it  *)
(* and whatever is written meanwhile.                                      *)
(***************************************************************************)
THEOREM OneReport == ReplaySpec => []OneReportPerSnapshot
<1>1. ReplayInv => OneReportPerSnapshot
  BY DEF ReplayInv, ReportsApart, OneReportPerSnapshot
<1> QED
  BY <1>1, ReplayInvariant, PTL

(***************************************************************************)
(* A report is about the rows of its plan as they are when it is stored,   *)
(* and when get_replay_report returns it: the rows are read before the     *)
(* heads, but a chain has the same head only if it has the same rows, so   *)
(* the heads answer for the rows that were read before them.               *)
(***************************************************************************)
LEMMA NewReportIsCurrent ==
    ASSUME NEW a \in Auditors, Persist(a), NEW x \in reports' \ reports
    PROVE  x.hash.records = ChainRows(x.plan)
<1>1. PICK p, version : \E id \in Reports \ {y.id : y \in reports} :
           reports' = reports \cup {NewReport(id, p, Manifest(p, version))}
  BY Stored
<1>2. PICK id : x = NewReport(id, p, Manifest(p, version))
  BY <1>1
<1> QED
  BY <1>2 DEF NewReport, Manifest, ManifestHash

LEMMA ReturnedReportIsCurrent ==
    ASSUME IsFiniteSet(rows), ReplayInv, NEW a \in Auditors, CompareHeads(a),
           audit'[a].phase = "returned", NEW x \in reports, audit'[a].answer = x.id
    PROVE  x.hash.records = ChainRows(x.plan)
<1>1. PICK y \in FirstOf(audit[a].todo) :
         IF damaged # {} \/ y.heads # ChainHeads THEN Move(a, Idle)
         ELSE IF audit[a].todo \ {y} = {} THEN Answer(a, y.id)
         ELSE Move(a, [Idle EXCEPT !.phase = "reading", !.todo = audit[a].todo \ {y}])
  BY DEF CompareHeads
<1>2. ASSUME NEW state, Move(a, state) PROVE audit'[a] = state
  BY <1>2 DEF Move, ReplayInv
<1>3. ~Move(a, Idle) /\ ~Move(a, [Idle EXCEPT !.phase = "reading", !.todo = audit[a].todo \ {y}])
  <2> DEFINE state == [Idle EXCEPT !.phase = "reading", !.todo = audit[a].todo \ {y}]
  <2>1. Idle.phase = "idle" /\ state.phase = "reading"
    BY DEF Idle
  <2>2. Move(a, Idle) => audit'[a].phase = "idle"
    BY <1>2, <2>1
  <2> HIDE DEF state
  <2>3. Move(a, state) => audit'[a].phase = "reading"
    BY <1>2, <2>1
  <2>4. ~Move(a, Idle) /\ ~Move(a, state)
    BY <2>2, <2>3
  <2> QED
    BY <2>4 DEF state
<1>4. damaged = {} /\ y.heads = ChainHeads /\ Answer(a, y.id)
  BY <1>1, <1>3
<1>5. y \in reports
  BY DEF CompareHeads, ReplayInv, AuditSound, FirstOf
<1>6. y = x
  <2>1. y.id = x.id
    BY <1>2, <1>4, AnsweredState DEF Answer
  <2> QED
    BY <1>5, <2>1 DEF ReplayInv, ReportsApart
<1>7. ChainHeads = HeadsOf(rows) /\ ChainRows(x.plan) = IntactRows(rows, x.plan)
  BY <1>4, UndamagedLedger
<1>8. PICK R \in SUBSET rows : x.heads = HeadsOf(R) /\ x.hash.records = IntactRows(R, x.plan)
  <2>1. x.heads # NoHeads
    BY <1>4, <1>6, <1>7, HeadsAreHeads
  <2> QED
    BY <2>1 DEF ReplayInv, AboutLedger
<1>9. Found(R, x.plan) = Found(rows, x.plan)
  BY <1>4, <1>6, <1>7, <1>8, SameHeadsSameRows
<1> QED
  BY <1>7, <1>8, <1>9 DEF IntactRows

LEMMA StepIsCurrent ==
    ASSUME IsFiniteSet(rows), ReplayInv, [ReplayNext]_allVars
    PROVE  /\ \A x \in reports' \ reports : x.hash.records = ChainRows(x.plan)
           /\ \A a \in Auditors, x \in reports :
                 audit[a].phase = "compared" /\ audit'[a].phase = "returned"
                 /\ audit'[a].answer = x.id => x.hash.records = ChainRows(x.plan)
<1>1. ASSUME NEW x \in reports' \ reports PROVE x.hash.records = ChainRows(x.plan)
  <2>1. PICK a \in Auditors : Auditing(a)
    BY <1>1 DEF ReplayNext, Damage, Restore, replayVars, allVars
  <2>2. Persist(a)
    BY <1>1, <2>1 DEF Auditing, Snapshot, GetReport, ListReports, ReadSources, CompareHeads,
                      LoadPair, StoreComparison, GetComparison, Answered
  <2> QED
    BY <1>1, <2>2, NewReportIsCurrent
<1>2. ASSUME NEW a \in Auditors, NEW x \in reports, audit[a].phase = "compared",
             audit'[a].phase = "returned", audit'[a].answer = x.id
      PROVE  x.hash.records = ChainRows(x.plan)
  <2>1. audit' # audit
    BY <1>2
  <2>2. PICK b \in Auditors : Auditing(b)
    BY <2>1 DEF ReplayNext, Damage, Restore, replayVars, allVars
  <2>3. b = a
    <3>1. \E state : Move(b, state)
      BY <2>2 DEF Auditing, Snapshot, Persist, StoreReport, GetReport, ListReports, ReadSources,
                  CompareHeads, LoadPair, StoreComparison, GetComparison, Answered, Answer
    <3> QED
      BY <1>2, <3>1 DEF Move, ReplayInv
  <2>4. CompareHeads(a)
    BY <1>2, <2>2, <2>3 DEF Auditing, Snapshot, Persist, GetReport, ListReports, ReadSources,
                            LoadPair, StoreComparison, GetComparison, Answered
  <2> QED
    BY <1>2, <2>4, ReturnedReportIsCurrent
<1> QED
  BY <1>1, <1>2

(***************************************************************************)
(* A report is about the records of its plan as they are when it is stored *)
(* and when it is returned (validate_report_against_sources).              *)
(***************************************************************************)
THEOREM Current == ReplaySpec => ReportsAreCurrent
<1>1. IsFiniteSet(rows) /\ ReplayInv /\ [ReplayNext]_allVars =>
        [/\ \A x \in reports' \ reports : x.hash.records = ChainRows(x.plan)
         /\ \A a \in Auditors, x \in reports :
               audit[a].phase = "compared" /\ audit'[a].phase = "returned"
               /\ audit'[a].answer = x.id => x.hash.records = ChainRows(x.plan)]_allVars
  BY StepIsCurrent
<1> QED
  BY <1>1, ReplayInvariant, PTL DEF ReplaySpec, ReportsAreCurrent

-----------------------------------------------------------------------------
(***************************************************************************)
(* A comparison answers for the two reports asked for, in their order; one *)
(* snapshot has one report, so only a report compared with itself is found *)
(* EQUIVALENT; and two subjects are never DIFFERENT.                       *)
(***************************************************************************)
\* Whoever has a pair loaded and an answer next has stored or found the comparison.
LEMMA LoadedAnswers ==
    ASSUME ReplayInv, ReplayInv', [ReplayNext]_allVars, NEW a \in Auditors, NEW c \in comparisons',
           audit[a].phase = "loaded", audit'[a].answer = c.id
    PROVE  StoreComparison(a)
<1>1. audit'[a] # audit[a]
  <2>1. audit[a].answer = NoId
    BY DEF ReplayInv, AuditSound
  <2>2. c.id # NoId
    BY ReplayAssumption DEF ReplayInv, ComparisonsApart
  <2> QED
    BY <2>1, <2>2
<1>2. PICK b \in Auditors : Auditing(b)
  BY <1>1 DEF ReplayNext, Damage, Restore, replayVars, allVars
<1>3. b = a
  <2>1. \E state : Move(b, state)
    BY <1>2 DEF Auditing, Snapshot, Persist, StoreReport, GetReport, ListReports, ReadSources,
                CompareHeads, LoadPair, StoreComparison, GetComparison, Answered, Answer
  <2> QED
    BY <1>1, <2>1 DEF Move, ReplayInv
<1> QED
  BY <1>2, <1>3 DEF Auditing, Snapshot, Persist, GetReport, ListReports, ReadSources,
                    CompareHeads, LoadPair, GetComparison, Answered

LEMMA AnsweredPair ==
    ASSUME ReplayInv, ReplayInv', NEW a \in Auditors, StoreComparison(a),
           NEW c \in comparisons', audit'[a].answer = c.id
    PROVE  <<c.base, c.with>> = audit[a].pair
<1>1. PICK x \in reports, y \in reports :
              /\ audit[a].pair = <<x, y>>
              /\ LET same == {d \in comparisons : d.key = ComparisonKey(x, y)}
                 IN  \/ \E d \in same : Answer(a, d.id) /\ UNCHANGED comparisons
                     \/ /\ same = {}
                        /\ \E id \in Comparisons \ {d.id : d \in comparisons} :
                              /\ comparisons' = comparisons \cup {NewComparison(id, x, y)}
                              /\ Answer(a, id)
  BY LoadedPair
<1>2. \A id : Answer(a, id) => audit'[a].answer = id
  BY AnsweredState DEF Answer, Move, ReplayInv
<1>3. \E d \in comparisons' : d.key = ComparisonKey(x, y) /\ audit'[a].answer = d.id
  <2>1. \A id : NewComparison(id, x, y).id = id /\ NewComparison(id, x, y).key = ComparisonKey(x, y)
    BY DEF NewComparison
  <2> QED
    BY <1>1, <1>2, <2>1
<1>4. c.key = ComparisonKey(x, y) /\ c.key = ComparisonKey(c.base, c.with)
  BY <1>3 DEF ReplayInv, ComparisonsApart
<1>5. UNCHANGED reports
  BY DEF StoreComparison
<1>6. c.base \in reports /\ c.with \in reports
  BY <1>5 DEF ReplayInv, ComparisonsApart
<1>7. c.base.id = x.id /\ c.with.id = y.id
  BY <1>4 DEF ComparisonKey
<1>8. c.base = x /\ c.with = y
  BY <1>6, <1>7 DEF ReplayInv, ReportsApart
<1> QED
  BY <1>1, <1>8

LEMMA ComparisonsSay ==
    ASSUME ReplayInv, NEW c \in comparisons
    PROVE  /\ \A d \in comparisons : d.base = c.base /\ d.with = c.with => d = c
           /\ c.state = "EQUIVALENT" => c.base = c.with
           /\ c.state = "DIFFERENT" =>
                 Identity(c.base.hash.records) = Identity(c.with.hash.records)
<1>1. \A d \in comparisons : d.base = c.base /\ d.with = c.with => d = c
  BY DEF ReplayInv, ComparisonsApart
<1>2. c.state = ComparisonState(c.base, c.with)
  BY DEF ReplayInv, ComparisonsApart
<1>3. c.state = "EQUIVALENT" => c.base.hash = c.with.hash
  BY <1>2 DEF ComparisonState
<1>4. c.base.hash = c.with.hash => c.base = c.with
  BY DEF ReplayInv, ComparisonsApart, ReportsApart
<1>5. c.state = "DIFFERENT" => Identity(c.base.hash.records) = Identity(c.with.hash.records)
  BY <1>2 DEF ComparisonState
<1> QED
  BY <1>1, <1>3, <1>4, <1>5

(***************************************************************************)
(* compare_replays answers for the pair it was asked about, with one       *)
(* comparison per ordered pair and a state that follows from the two.      *)
(***************************************************************************)
THEOREM ComparisonsAnswered == ReplaySpec => ComparisonsAnswer
<1> DEFINE Says ==
        \A a \in Auditors, c \in comparisons' :
          audit[a].phase = "loaded" /\ audit'[a].answer = c.id =>
              /\ <<c.base, c.with>> = audit[a].pair
              /\ \A d \in comparisons' : d.base = c.base /\ d.with = c.with => d = c
              /\ c.state = "EQUIVALENT" => c.base = c.with
              /\ c.state = "DIFFERENT" =>
                    Identity(c.base.hash.records) = Identity(c.with.hash.records)
<1>1. ReplayInv => \A c \in comparisons :
              /\ \A d \in comparisons : d.base = c.base /\ d.with = c.with => d = c
              /\ c.state = "EQUIVALENT" => c.base = c.with
              /\ c.state = "DIFFERENT" =>
                    Identity(c.base.hash.records) = Identity(c.with.hash.records)
  BY ComparisonsSay
<1>2. ReplayInv' => (\A c \in comparisons :
              /\ \A d \in comparisons : d.base = c.base /\ d.with = c.with => d = c
              /\ c.state = "EQUIVALENT" => c.base = c.with
              /\ c.state = "DIFFERENT" =>
                    Identity(c.base.hash.records) = Identity(c.with.hash.records))'
  BY <1>1, PTL
<1>3. ReplayInv /\ ReplayInv' /\ [ReplayNext]_allVars => Says
  BY <1>2, LoadedAnswers, AnsweredPair
<1>4. ReplayInv /\ ReplayInv' /\ [ReplayNext]_allVars => [Says]_allVars
  BY <1>3
<1> QED
  BY <1>4, ReplayInvariant, PTL DEF ReplaySpec, ComparisonsAnswer

-----------------------------------------------------------------------------
(***************************************************************************)
(* The states of the reports.  A plan's earlier reports are looked for on  *)
(* the first page of the project's reports: REPRODUCED and DRIFTED mean    *)
(* what they say as long as all of them are on it.                         *)
(***************************************************************************)
LEMMA ReportsFit ==
    ASSUME ReportsApart, IsFiniteSet(Reports), Cardinality(Reports) <= MaxList
    PROVE  \A p : Prior(p) = {x \in reports : x.plan = p}
<1> DEFINE f == [x \in reports |-> x.id]
<1>1. f \in Injection(reports, Reports)
  BY DEF ReportsApart, Injection, IsInjective
<1>2. Cardinality(reports) <= Cardinality(Reports)
  BY <1>1, FS_Injection
<1>3. Cardinality(reports) \in Nat /\ Cardinality(Reports) \in Nat
  BY FS_CardinalityType DEF ReportsApart
<1>4. Cardinality(reports) <= MaxList
  BY <1>2, <1>3, ReplayAssumption
<1>5. \A x \in reports : x.seq \in 1..Cardinality(reports)
  BY DEF ReportsApart
<1>6. \A x \in reports : x.seq <= MaxList
  BY <1>3, <1>4, <1>5, ReplayAssumption
<1> QED
  BY <1>6 DEF Prior

\* The envelope found is the one the request names, and so is the decision's.
LEMMA LinksMean ==
    ASSUME TypeOK, NEW p, LinksHold(ChainRows(p)),
           NEW d \in In(ChainRows(p), "authority_decisions"),
           NEW e \in In(ChainRows(p), "decision_envelopes")
    PROVE  d.envelope = e.id
<1>1. PICK r \in Found(rows, p) : r.coll = "decision_envelopes" /\ r.rec = e
  <2>1. PICK x \in ChainRows(p) : x.coll = "decision_envelopes" /\ x.rec = e
    BY DEF In, Group
  <2> QED
    BY <2>1 DEF ChainRows
<1>2. PICK q \in Keyed(rows, "execution_requests", p) :
         r \in Keyed(rows, "decision_envelopes", q.rec.envelope)
  <2> DEFINE Q == Keyed(rows, "execution_requests", p)
             X == Keyed(rows, "shadow_execution_receipts", p)
  <2>1. \A c, k : \A x \in Keyed(rows, c, k) : x.coll = c
    BY DEF Keyed, Group
  <2>2. \/ r \in Q \/ r \in X \/ r \in Keyed(rows, "gateway_decisions", p)
        \/ \E q \in Q : r \in Keyed(rows, "decision_envelopes", q.rec.envelope)
        \/ \E q \in Q : r \in Keyed(rows, "authority_decisions", q.rec.decision)
        \/ \E x \in X : r \in Keyed(rows, "shadow_outcomes", x.rec.id)
    BY <1>1 DEF Found
  <2> HIDE DEF Q, X
  <2>3. r \notin Q /\ r \notin X
    BY <1>1, <2>1 DEF Q, X
  <2>4. \E q \in Q : r \in Keyed(rows, "decision_envelopes", q.rec.envelope)
    BY <1>1, <2>1, <2>2, <2>3
  <2> QED
    BY <2>4 DEF Q
<1>3. e.id = q.rec.envelope
  <2>1. r \in rows /\ r.key = q.rec.envelope
    BY <1>2 DEF Keyed, Group
  <2>2. r.key = r.rec.id
    BY <1>1, <2>1 DEF TypeOK, WellFormed, KeyOf
  <2> QED
    BY <1>1, <2>1, <2>2
<1>4. q.rec \in In(ChainRows(p), "execution_requests")
  <2> DEFINE x == [coll |-> q.coll, rec |-> q.rec, intact |-> q \notin damaged]
  <2>1. x \in ChainRows(p)
    BY DEF ChainRows, Found
  <2>2. x.coll = "execution_requests" /\ x.rec = q.rec
    BY DEF Keyed, Group
  <2> HIDE DEF x
  <2> QED
    BY <2>1, <2>2 DEF In, Group
<1>5. d.envelope = q.rec.envelope
  BY <1>4 DEF LinksHold
<1> QED
  BY <1>3, <1>5

\* What the state of a report says of its records, and of those stored before it.
AboutRecords(x) ==
    /\ x.state \in {"REPRODUCED", "DRIFTED"} =>
          /\ Complete(x.hash.records)
          /\ \A r \in x.hash.records : r.intact
          /\ \A d \in In(x.hash.records, "authority_decisions"),
                e \in In(x.hash.records, "decision_envelopes") : d.envelope = e.id
    /\ x.state = "INCOMPLETE" => ~Complete(x.hash.records)
    /\ x.state = "INVALID" => x.heads = NoHeads \/ ~LinksHold(x.hash.records)

AboutEarlier(x) ==
    /\ x.state = "REPRODUCED" => Earlier(x) = {}
    /\ x.state = "DRIFTED" => \E y \in Earlier(x) : y.hash # x.hash

LEMMA NewAboutRecords ==
    ASSUME TypeOK, NEW id, NEW p, NEW version
    PROVE  AboutRecords(NewReport(id, p, Manifest(p, version)))
<1> DEFINE m == Manifest(p, version)
           new == NewReport(id, p, m)
<1>1. /\ new.heads = ChainHeads /\ new.hash.records = ChainRows(p)
      /\ new.state = ReplayState(p, m)
      /\ m.heads = ChainHeads /\ m.records = ChainRows(p)
  BY DEF NewReport, Manifest, ManifestHash
<1> HIDE DEF new, m
<1>2. new.state \in {"REPRODUCED", "DRIFTED"} =>
         /\ ChainHeads # NoHeads /\ LinksHold(ChainRows(p)) /\ Complete(ChainRows(p))
  BY <1>1 DEF ReplayState
<1>3. ChainHeads # NoHeads => \A r \in ChainRows(p) : r.intact
  <2>1. damaged = {} => \A r \in IntactRows(rows, p) : r.intact
    BY DEF IntactRows
  <2> QED
    BY <2>1, HeadsMeanUndamaged, UndamagedLedger
<1>4. new.state = "INCOMPLETE" => ~Complete(ChainRows(p))
  BY <1>1 DEF ReplayState
<1>5. new.state = "INVALID" => ChainHeads = NoHeads \/ ~LinksHold(ChainRows(p))
  BY <1>1 DEF ReplayState
<1>6. AboutRecords(new)
  BY <1>1, <1>2, <1>3, <1>4, <1>5, LinksMean DEF AboutRecords
<1> QED
  BY <1>6 DEF new, m

LEMMA NewAboutEarlier ==
    ASSUME ReportsApart, IsFiniteSet(Reports), Cardinality(Reports) <= MaxList,
           NEW id, NEW p, NEW version, NEW new,
           new = NewReport(id, p, Manifest(p, version)),
           {x \in reports : x.hash = ManifestHash(Manifest(p, version))} = {},
           reports' = reports \cup {new}
    PROVE  AboutEarlier(new)' /\ \A x \in reports : Earlier(x)' = Earlier(x)
<1> DEFINE m == Manifest(p, version)
<1>1. /\ new.plan = p /\ new.hash = ManifestHash(m) /\ new.state = ReplayState(p, m)
      /\ new.seq = Cardinality(reports) + 1
  BY DEF NewReport, Manifest, ManifestHash
<1>2. \A x \in reports : x.hash # ManifestHash(m)
  OBVIOUS
<1> HIDE DEF m
<1>3. reports' = reports \cup {new}
  OBVIOUS
<1>4. \A x \in reports : x.seq \in Nat /\ x.seq < new.seq
  <2>1. Cardinality(reports) \in Nat
    BY FS_CardinalityType DEF ReportsApart
  <2>2. \A x \in reports : x.seq \in 1..Cardinality(reports)
    BY DEF ReportsApart
  <2> QED
    BY <1>1, <2>1, <2>2
<1>5. new.seq \in Nat
  BY <1>1, FS_CardinalityType DEF ReportsApart
<1>6. {y \in reports' : y.plan = new.plan /\ y.seq < new.seq} = Prior(p)
  <2>1. Prior(p) = {x \in reports : x.plan = p}
    BY ReportsFit
  <2> QED
    BY <1>1, <1>3, <1>4, <1>5, <2>1
<1>7. new.state = "REPRODUCED" => Prior(p) = {}
  BY <1>1, <1>2 DEF ReplayState, Prior
<1>8. new.state = "DRIFTED" => \E y \in Prior(p) : y.hash # new.hash
  BY <1>1, <1>2 DEF ReplayState, Prior
<1>9. \A x \in reports : Earlier(x)' = Earlier(x)
  BY <1>3, <1>4, <1>5 DEF Earlier
<1>10. /\ new.state = "REPRODUCED" => {y \in reports' : y.plan = new.plan /\ y.seq < new.seq} = {}
       /\ new.state = "DRIFTED" =>
             \E y \in {y \in reports' : y.plan = new.plan /\ y.seq < new.seq} : y.hash # new.hash
  BY <1>6, <1>7, <1>8
<1> QED
  BY <1>9, <1>10 DEF AboutEarlier, Earlier

\* A step that stores no report, and one that does.
LEMMA StepJustifies ==
    ASSUME TypeOK, ReplayInv, StatesAreJustified, [ReplayNext]_allVars,
           IsFiniteSet(Reports), Cardinality(Reports) <= MaxList
    PROVE  StatesAreJustified'
<1>1. CASE reports' = reports
  BY <1>1 DEF StatesAreJustified, Earlier
<1>2. CASE reports' # reports
  <2>1. PICK a \in Auditors : Persist(a)
    BY <1>2 DEF ReplayNext, Damage, Restore, replayVars, allVars, Auditing, Snapshot, GetReport,
                ListReports, ReadSources, CompareHeads, LoadPair, StoreComparison,
                GetComparison, Answered
  <2>2. PICK p, version : \E id \in Reports \ {x.id : x \in reports} :
           /\ {x \in reports : x.hash = ManifestHash(Manifest(p, version))} = {}
           /\ reports' = reports \cup {NewReport(id, p, Manifest(p, version))}
    BY <1>2, <2>1, Stored
  <2>3. PICK id : /\ {x \in reports : x.hash = ManifestHash(Manifest(p, version))} = {}
                  /\ reports' = reports \cup {NewReport(id, p, Manifest(p, version))}
    BY <2>2
  <2>4. PICK new : new = NewReport(id, p, Manifest(p, version))
    OBVIOUS
  <2>5. AboutRecords(new)
    BY <2>4, NewAboutRecords
  <2>6. AboutEarlier(new)' /\ \A x \in reports : Earlier(x)' = Earlier(x)
    BY <2>3, <2>4, NewAboutEarlier DEF ReplayInv
  <2>7. \A x \in reports : AboutRecords(x) /\ AboutEarlier(x)
    BY DEF StatesAreJustified, AboutRecords, AboutEarlier
  <2>8. \A x \in reports : AboutEarlier(x)'
    BY <2>6, <2>7 DEF AboutEarlier
  <2>9. reports' = reports \cup {new}
    BY <2>3, <2>4
  <2>10. \A x \in reports' : AboutRecords(x) /\ AboutEarlier(x)'
    BY <2>5, <2>6, <2>7, <2>8, <2>9
  <2>11. \A x : AboutRecords(x)' <=> AboutRecords(x)
    BY DEF AboutRecords
  <2>12. \A x \in reports' : AboutRecords(x)' /\ AboutEarlier(x)'
    BY <2>10, <2>11
  <2> QED
    BY <2>12 DEF StatesAreJustified, AboutRecords, AboutEarlier
<1> QED
  BY <1>1, <1>2

(***************************************************************************)
(* REPRODUCED is kept for the first report of a plan, DRIFTED has an       *)
(* earlier one that differs, and neither is said of records that are not   *)
(* all there, intact and about one another.                                *)
(***************************************************************************)
THEOREM Justified ==
    ASSUME IsFiniteSet(Reports), Cardinality(Reports) <= MaxList
    PROVE  ReplaySpec => []StatesAreJustified
<1>1. ReplayInit => StatesAreJustified
  BY DEF ReplayInit, StatesAreJustified
<1>2. TypeOK /\ ReplayInv /\ StatesAreJustified /\ [ReplayNext]_allVars => StatesAreJustified'
  BY StepJustifies
<1> QED
  BY <1>1, <1>2, ReplayInvariant, PTL DEF ReplaySpec
=============================================================================
