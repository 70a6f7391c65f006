--------------------------- MODULE MCGrdiPipeline ---------------------------
(***************************************************************************)
(* Instances of GrdiPipeline.  Ids are model values; the ledger starts     *)
(* empty, or with what a migration of legacy rows leaves behind.           *)
(***************************************************************************)
EXTENDS GrdiPipeline, TLC

CONSTANTS e1, d1, p1, r1, Ann, Bob, act, other, eff

Form(risky, verdict) ==
    [proposer |-> Ann, required |-> "verifier", risky |-> risky,
     verdict |-> verdict, action |-> act]

By(who, role, approvals) == [subject |-> who, role |-> role, approvals |-> approvals]
Approves(who) == {[approver |-> who, approved |-> TRUE]}
Rejects(who) == {[approver |-> who, approved |-> FALSE]}

SomeForms ==
    {Form(risky, "PASS") : risky \in BOOLEAN} \cup {Form(FALSE, "REVIEW"), Form(FALSE, "BLOCK")}

\* Good and bad authorisers, and approvals that are missing, refused or the
\* proposer's own.
SomeAuthorizers ==
    {By(Bob, "verifier", {}), By(Bob, "verifier", Approves(Bob)), By(Bob, "admin", Rejects(Bob)),
     By(Bob, "viewer", {}), By(Ann, "admin", {}), By(Bob, "admin", Approves(Ann))}

\* The envelope's action, with an effect to assess, and another one.
SomeRequests == {[action |-> act, effects |-> {eff}], [action |-> other, effects |-> {}]}
SomeAssessments == [{eff} -> {"MATCHED", "DEVIATED"}]

NumberedRow(w, n) == [coll |-> w.coll, key |-> w.key, rec |-> w.rec, seq |-> n]

\* A legacy plan, its gateway row marked SIMULATED or not, without events.
LegacyPlan(simulated) ==
    LET envelope == [id |-> e1, form |-> Form(FALSE, "PASS")]
        decision == AuthorityWrite(d1, envelope, By(Bob, "verifier", {}))
        request == [id |-> p1, envelope |-> e1, decision |-> d1, action |-> act, effects |-> {}]
        gateway == [id |-> p1, eligible |-> TRUE, simulated |-> simulated]
    IN  {NumberedRow(w, 1) : w \in
            {EnvelopeWrite(e1, envelope.form), decision,
             Write("execution_requests", p1, request), Write("gateway_decisions", p1, gateway)}}

LegacyReceipt ==
    NumberedRow(Write("shadow_execution_receipts", p1,
                      [id |-> r1, plan |-> p1, envelope |-> e1, decision |-> d1, action |-> act]), 1)

SomethingMigrated ==
    {{}, LegacyPlan(FALSE), LegacyPlan(TRUE), LegacyPlan(TRUE) \cup {LegacyReceipt}}

WorkerSymmetry == Permutations(Workers)
=============================================================================
