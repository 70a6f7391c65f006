\* Two threads of one process, one engine; two chains and a mutable collection.
SPECIFICATION Spec
CONSTANTS
    t1 = t1
    t2 = t2
    e1 = e1
    e2 = e2
    Threads = {t1, t2}
    Engines = {e1}
    EngineOf <- OneEngine
    Linked = {1, 2}
    Mutable = {3}
    Keys = {1, 2}
    Payloads = {1, 2}
    RecordId <- MCRecordId
    Calls <- MCCalls
    NoThread = NoThread
    MaxCalls = 2
    MaxVersion = 2
SYMMETRY ThreadSymmetry
INVARIANTS
    DiskVerifies
PROPERTIES
    ImplementsLedgerCommit
