--------------------------- MODULE HavVerification ---------------------------
(***************************************************************************)
(* What hav/verifier.py and hav/policy.py make of the claims extracted     *)
(* from an agent's output and of an authoritative state.  A claim and a    *)
(* fact speak of a topic (a subject and predicate); facts are numbered, as *)
(* their evidence is registered.  The statuses are those of the core claim *)
(* (_map_claim_status): nothing is PARTIALLY_SUPPORTED, and what is        *)
(* UNSUPPORTED or INSUFFICIENT_EVIDENCE becomes "unverified".              *)
(***************************************************************************)
EXTENDS Naturals, Sequences

Known(state, topic) == {i \in DOMAIN state.facts : state.facts[i].topic = topic}
RequiredChecks(state) == {i \in DOMAIN state.facts : state.facts[i].required}

Unverified == [status |-> "unverified", evidence |-> {}]
Supported(hits) == [status |-> "verified", evidence |-> hits]
Contradicted(hits) == [status |-> "refuted", evidence |-> hits]

Compare(state, value, hits) ==
    LET supporting == {i \in hits : state.facts[i].value = value}
    IN IF supporting # {} THEN Supported(supporting) ELSE Contradicted(hits)

\* The claims no fact speaks of directly, but several together decide.
Derived(state, claim) ==
    CASE claim.topic = "all_required_checks_passed" /\ RequiredChecks(state) # {} ->
            LET failed == {i \in RequiredChecks(state) : state.facts[i].value # "passed"}
            IN IF failed # {} THEN Contradicted(failed) ELSE Supported(RequiredChecks(state))
      [] claim.topic = "production_ready" /\ Known(state, "release_gate_status") # {} ->
            Compare(state, "passed", Known(state, "release_gate_status"))
      [] OTHER -> Unverified

Evaluation(state, claim) ==
    IF ~state.available THEN Unverified
    ELSE IF Known(state, claim.topic) # {}
         THEN Compare(state, claim.value, Known(state, claim.topic))
         ELSE Derived(state, claim)

\* Mutant: a critical claim that nothing is known of is no reason to stop.
DecideIgnoringUnknown(state, claims) ==
    LET Status(i) == Evaluation(state, claims[i]).status
        critical == {i \in DOMAIN claims : claims[i].critical}
    IN IF ~state.available \/ \E i \in critical : Status(i) = "refuted" THEN "block"
       ELSE IF \E i \in DOMAIN claims : Status(i) = "refuted" THEN "warn"
       ELSE "allow"

\* FailClosedHAVPolicy.decide and _map_effect.
Decide(state, claims) ==
    LET Status(i) == Evaluation(state, claims[i]).status
        critical == {i \in DOMAIN claims : claims[i].critical}
    IN IF ~state.available \/ \E i \in critical : Status(i) = "refuted" THEN "block"
       ELSE IF \E i \in critical : Status(i) = "unverified" THEN "require_approval"
       ELSE IF \E i \in DOMAIN claims : Status(i) # "verified" THEN "warn"
       ELSE "allow"
=============================================================================
