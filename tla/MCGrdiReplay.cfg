SPECIFICATION ReplaySpec
CONSTANTS
    Workers = {w1}
    Auditors = {a1, a2}
    e1 = e1  e2 = e2  d1 = d1  d2 = d2  p1 = p1  p2 = p2  r1 = r1  r2 = r2  o1 = o1  o2 = o2
    Ann = Ann  Bob = Bob  act = act  Loan = Loan  Rate = Rate
    Envelopes = {e1, e2}
    Decisions = {d1, d2}
    Plans = {p1, p2}
    Receipts = {r1, r2}
    Outcomes = {o1, o2}
    Reports = {x1, x2}
    Comparisons = {c1}
    Versions = {1, 2}
    Fragile = {r2}
    Forms <- TwoForms
    Authorizers <- OneAuthorizer
    Requests <- OneRequest
    Assessments <- NoAssessments
    LegacyRows <- SomePlans
    MaxList = 1000
    NoId = NoId
SYMMETRY AuditorSymmetry
INVARIANTS
    OneReportPerSnapshot
    StatesAreJustified
PROPERTIES
    ReportsAreCurrent
    ComparisonsAnswer
ACTION_CONSTRAINTS WorkersRest RolloutComesLate
