---------------------------- MODULE MCGrdiReplay ----------------------------
(***************************************************************************)
(* Instances of GrdiReplay: a plan that is still to be simulated, one that *)
(* was blocked because its decision is about another envelope, or two that *)
(* are done, about different subjects; and auditors beside the worker that *)
(* writes.                                                                 *)
(***************************************************************************)
EXTENDS GrdiReplay, TLC

CONSTANTS e1, e2, d1, d2, p1, p2, r1, r2, o1, o2, Ann, Bob, act, Loan, Rate

FormAbout(subject) ==
    [proposer |-> Ann, required |-> "verifier", risky |-> FALSE,
     verdict |-> "PASS", action |-> act, subject |-> subject]

TwoForms == {FormAbout(Loan), FormAbout(Rate)}
OneAuthorizer == {[subject |-> Bob, role |-> "verifier", approvals |-> {}]}
OneRequest == {[action |-> act, effects |-> {}]}
NoAssessments == {<< >>}

\* What register_envelope, authorize and create_execution_plan leave.
Registered(e, subject) ==
    [coll |-> "decision_envelopes", key |-> e, rec |-> [id |-> e, form |-> FormAbout(subject)]]

Decided(d, e) ==
    [coll |-> "authority_decisions", key |-> d,
     rec |-> [id |-> d, envelope |-> e, by |-> CHOOSE b \in OneAuthorizer : TRUE,
              verified |-> TRUE, state |-> "AUTHORIZED"]]

Planned(p, e, d, eligible) ==
    {[coll |-> "execution_requests", key |-> p,
      rec |-> [id |-> p, envelope |-> e, decision |-> d, action |-> act, effects |-> {}]],
     [coll |-> "gateway_decisions", key |-> p,
      rec |-> [id |-> p, eligible |-> eligible, simulated |-> FALSE]],
     [coll |-> "gateway_decision_events", key |-> CreatedKey(p),
      rec |-> [id |-> CreatedKey(p), source |-> p]]}

\* What simulate_execution_plan and record_shadow_outcome add to it.
Observed(p, e, d, receipt, outcome) ==
    {[coll |-> "shadow_execution_receipts", key |-> p,
      rec |-> [id |-> receipt, plan |-> p, envelope |-> e, decision |-> d, action |-> act]],
     [coll |-> "gateway_decision_events", key |-> SimulatedKey(p),
      rec |-> [id |-> SimulatedKey(p), source |-> receipt]],
     [coll |-> "shadow_outcomes", key |-> receipt,
      rec |-> [id |-> outcome, plan |-> p, receipt |-> receipt, assessed |-> << >>,
               state |-> "NOT_EVALUATED"]]}

\* One event per plan and kind; of anything else, one row per plan.
Numbered(plans) ==
    UNION {{[coll |-> x.coll, key |-> x.key, rec |-> x.rec,
             seq |-> IF x.coll = "gateway_decision_events"
                     THEN 2 * i - (IF x.key[2] = "SIMULATION_RECORDED" THEN 0 ELSE 1)
                     ELSE i] : x \in plans[i]} : i \in DOMAIN plans}

Open == {Registered(e1, Loan), Decided(d1, e1)} \cup Planned(p1, e1, d1, TRUE)
DoneFor(subject) ==
    {Registered(e2, subject), Decided(d2, e2)} \cup Planned(p2, e2, d2, TRUE)
    \cup Observed(p2, e2, d2, r2, o2)
Blocked == {Registered(e2, Rate), Decided(d2, e2)} \cup Planned(p2, e2, d1, FALSE)
DoneToo == Open \cup Observed(p1, e1, d1, r1, o1)

SomePlans ==
    {Numbered(<<Open, Blocked>>)} \cup {Numbered(<<DoneToo, DoneFor(s)>>) : s \in {Loan, Rate}}

\* Bounds: nobody writes any more once p1 has its outcome, and only in a ledger
\* that was done from the start are there processes of the second version.
WorkersRest ==
    \A w \in Workers : phase[w] = "idle" /\ phase'[w] # "idle" => StageOf(p1) # "observed"

RolloutComesLate ==
    \A a \in Auditors :
        audit'[a].phase = "built" /\ audit'[a].snapshot.version > 1 => StageOf(p2) = "observed"

AuditorSymmetry ==
    Permutations(Auditors) \cup Permutations(Reports) \cup Permutations(Comparisons)
=============================================================================
