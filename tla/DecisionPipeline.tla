-------------------------- MODULE DecisionPipeline --------------------------
(***************************************************************************)
(* What GRDI promises about a plan (ADR-017, ADR-018): it is planned, then *)
(* simulated, then observed, one step at a time, never backwards; and only *)
(* a plan found eligible when it was created is ever simulated.            *)
(***************************************************************************)
CONSTANT Plans

VARIABLES
    stage,     \* how far each plan has come
    eligible   \* the plans created as ELIGIBLE_FOR_SHADOW

vars == <<stage, eligible>>

Stages == {"absent", "planned", "simulated", "observed"}

\* A legacy ledger brings plans with it.
Init ==
    /\ stage \in [Plans -> Stages]
    /\ eligible \subseteq {p \in Plans : stage[p] # "absent"}
    /\ {p \in Plans : stage[p] \in {"simulated", "observed"}} \subseteq eligible

Create(p) ==
    /\ stage[p] = "absent"
    /\ stage' = [stage EXCEPT ![p] = "planned"]
    /\ eligible' \in {eligible, eligible \cup {p}}

Simulate(p) ==
    /\ stage[p] = "planned"
    /\ p \in eligible
    /\ stage' = [stage EXCEPT ![p] = "simulated"]
    /\ UNCHANGED eligible

Observe(p) ==
    /\ stage[p] = "simulated"
    /\ stage' = [stage EXCEPT ![p] = "observed"]
    /\ UNCHANGED eligible

Next == \E p \in Plans : Create(p) \/ Simulate(p) \/ Observe(p)

Spec == Init /\ [][Next]_vars
=============================================================================
