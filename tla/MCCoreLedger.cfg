SPECIFICATION FairSpec
CONSTANTS
    t1 = t1
    t2 = t2
    k1 = k1
    NoThread = NoThread
    NoKey = NoKey
    Torn = Torn
    Threads <- MCThreads
    Requests <- MCRequests
    Rules <- MCRules
    Auth <- MCAuth
    Decided <- MCDecided
    Stored <- MCStored
    Backend = "json"
    MaxQuery = 2
    MaxRequests = 2
    MaxCrashes = 1
INVARIANTS
    ChainVerifies
    StatusFollowsVerifications
    AnswersHold
    ExecutionAccountedFor
    AllowedOutputIsSupported
    SnapshotExplainsClaims
PROPERTY RequestsEnd
CHECK_DEADLOCK FALSE
