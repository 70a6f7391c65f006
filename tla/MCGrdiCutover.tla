---------------------------- MODULE MCGrdiCutover ----------------------------
(* Instances of GrdiCutover for TLC.                                       *)
EXTENDS GrdiCutover

CONSTANTS p1, p2

Versioned(t, i, one, two) == [tables |-> t, index |-> i, recorded |-> <<one, two>>]

\* A new database, RC7, RC8, and three that no apply can repair or may touch.
SomeSchemas ==
    {Versioned("none", "none", "no", "no"), Versioned("ok", "v1", "ours", "no"),
     Versioned("ok", "v2", "ours", "ours"),
     Versioned("ok", "v1", "other", "no"), Versioned("other", "v1", "ours", "no"),
     Versioned("ok", "none", "ours", "ours")}

Repairable == {Versioned("ok", "v1", "ours", "no")}

Ledger(requests, decisions, receipts) ==
    [c \in Migratable |-> CASE c = Requests -> requests [] c = Decisions -> decisions
                            [] c = Receipts -> receipts]

Request(p) == RowOf(p, "request")
Decision(p, state) == RowOf(p, state)
Receipt(p) == RowOf(p, "receipt")

\* Two plans, one simulated; a decision stored twice; two decisions of one plan.
SomeLedgers ==
    {Ledger(<<Request(p1), Request(p2)>>,
            <<Decision(p1, "NOT_SIMULATED"), Decision(p2, "SIMULATED")>>, <<Receipt(p2)>>),
     Ledger(<<Request(p1)>>, <<Decision(p1, "SIMULATED"), Decision(p1, "SIMULATED")>>, << >>),
     Ledger(<<Request(p1)>>, <<Decision(p1, "NOT_SIMULATED"), Decision(p1, "SIMULATED")>>,
            <<Receipt(p1)>>)}

Job(mode, partial, confirmed, acknowledged, backup) ==
    [mode |-> mode, partial |-> partial, confirmed |-> confirmed,
     acknowledged |-> acknowledged, backup |-> backup]

Apply == Job("apply", FALSE, TRUE, TRUE, "verified")

SomeJobs ==
    {Apply, Job("apply", FALSE, TRUE, TRUE, "other digest"), Job("apply", TRUE, TRUE, TRUE, "verified"),
     Job("start", FALSE, FALSE, FALSE, "none"), Job("plan", FALSE, FALSE, FALSE, "none")}
    \cup {Job(m, partial, FALSE, FALSE, "none") : m \in {"verify", "check"}, partial \in BOOLEAN}
=============================================================================
