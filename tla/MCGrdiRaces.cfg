SPECIFICATION Spec
CONSTANTS
    Workers = {w1, w2}
    e1 = e1  d1 = d1  p1 = p1  r1 = r1
    Ann = Ann  Bob = Bob  act = act  other = other  eff = eff
    Envelopes = {e1}
    Decisions = {d1}
    Plans = {p1, p2}
    Receipts = {r1, r2}
    Outcomes = {o1}
    Forms <- SomeForms
    Authorizers <- SomeAuthorizers
    Requests <- SomeRequests
    Assessments <- SomeAssessments
    LegacyRows <- SomethingMigrated
    MaxList = 3
    NoId = NoId
SYMMETRY WorkerSymmetry
INVARIANTS
    EventsMatchReceipts
    SimulatedMeansAuthorized
    RetriesNeverConflict
    SimulatedViewHasReceipt
    BackfillLeavesNothing
PROPERTIES
    SimulatedForGood
    ImplementsPipeline
