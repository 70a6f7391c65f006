---------------------------- MODULE GrdiDecisions ----------------------------
(***************************************************************************)
(* What GRDI decides from the records alone: whether a decision envelope   *)
(* is authorised, whether a plan may be simulated, and what an outcome     *)
(* amounts to.  Reasons, policies and timestamps are left out.             *)
(*                                                                         *)
(* An envelope's form is [proposer, required, risky, verdict, action]:     *)
(* "risky" is risk_level high or critical; the verdict is PASS, REVIEW     *)
(* (WARN, HUMAN_REVIEW) or BLOCK (everything else, and a PASS whose        *)
(* signature or scope is wrong).  An authoriser is [subject, role,         *)
(* approvals], an approval [approver, approved].                           *)
(***************************************************************************)
EXTENDS FiniteSets

Verified(form) == form.verdict = "PASS"

Refused(form, by) ==
    \/ by.subject = form.proposer
    \/ by.role \notin {form.required, "admin"}
    \/ \E a \in by.approvals : ~a.approved
    \/ \E a \in by.approvals : a.approver = form.proposer

NeedsApproval(form, by) == form.risky /\ by.approvals = {}

\* Mutant: the proposer may authorise the proposal.
SelfAuthorization(form, by) ==
    IF Verified(form) /\ by.role \in {form.required, "admin"} /\ ~NeedsApproval(form, by)
    THEN "AUTHORIZED" ELSE "NOT_AUTHORIZED"

\* AuthorityEngine.evaluate: the authorization state of the decision.
Authorization(form, by) ==
    CASE form.verdict = "REVIEW" -> "REQUIRES_APPROVAL"
      [] Verified(form) /\ ~Refused(form, by) ->
            IF NeedsApproval(form, by) THEN "REQUIRES_APPROVAL" ELSE "AUTHORIZED"
      [] OTHER -> "NOT_AUTHORIZED"

\* ExecutionGateway.evaluate: no reason to block the plan.
Eligible(envelope, decision, request) ==
    /\ decision.envelope = envelope.id
    /\ request.envelope = envelope.id
    /\ request.decision = decision.id
    /\ decision.verified /\ decision.state = "AUTHORIZED"
    /\ request.action = envelope.form.action

\* aggregate_outcome_state: assessed is a function from effects to their states.
Aggregate(expected, assessed) ==
    LET states == {assessed[e] : e \in DOMAIN assessed}
    IN  IF \/ expected = {} \/ DOMAIN assessed # expected
           \/ "NOT_EVALUATED" \in states
        THEN "NOT_EVALUATED"
        ELSE IF "DEVIATED" \in states THEN "DEVIATED"
        ELSE "CONSISTENT"
=============================================================================
