\* Two workers; two source chains, the comparisons (3) and the reports (4).
SPECIFICATION ReadersSpec
CONSTANTS
    Workers = {w1, w2}
    Sources = {1, 2}
    Plans = 1
    Comparisons = 3
    Reports = 4
    Linked = {1, 2, 3, 4}
    Mutable = {}
    Keys = {1}
    Payloads = {1}
    RecordId <- MCRecordId
    LockSets <- GrdiLockSets
    Calls <- OneAppendPerChain
    NoCall = NoCall
    NoOne = NoOne
    MaxCalls = 2
    MaxVersion = 3
SYMMETRY WorkerSymmetry
INVARIANTS
    ReplayVerifies
    ManifestIsOneState
