SPECIFICATION Spec
CONSTANTS
    t1 = t1
    t2 = t2
    k1 = k1
    NoThread = NoThread
    NoKey = NoKey
    Torn = Torn
    Threads <- MCThreads
    Requests <- MCSqliteRequests
    Rules <- MCRules
    Auth <- MCAuth
    Decided <- MCDecided
    Stored <- MCStored
    Backend = "sqlite"
    MaxQuery = 2
    MaxRequests = 3
    MaxCrashes = 0
INVARIANT BackendKeepsTheProtocol
CHECK_DEADLOCK FALSE
