\* Two workers on one mutable collection: payloads 1 and 3 carry the same record id.
SPECIFICATION Spec
CONSTANTS
    Workers = {w1, w2}
    Linked = {}
    Mutable = {3}
    Keys = {1, 2}
    Payloads = {1, 2, 3}
    RecordId <- MCRecordId
    LockSets <- MutableLockSets
    Calls <- MutableCalls
    NoCall = NoCall
    MaxCalls = 2
    MaxVersion = 3
SYMMETRY WorkerSymmetry
INVARIANTS
    OneRowPerKeyAndRecord
PROPERTIES
    NoLostUpdate
