\* Two workers, two chain-linked collections; no symmetry, for liveness.
SPECIFICATION FairSpec
CONSTANTS
    Workers = {w1, w2}
    Linked = {1, 2}
    Mutable = {}
    Keys = {1, 2}
    Payloads = {1, 2}
    RecordId <- MCRecordId
    LockSets <- ChainLockSets
    Calls <- ChainCalls
    NoCall = NoCall
    MaxCalls = 2
    MaxVersion = 3
INVARIANTS
    ChainVerifies
    NoWaitCycle
PROPERTIES
    LinkedRowsAreImmutable
    ImplementsLedgerCommit
    TransactionsEnd
