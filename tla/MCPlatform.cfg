SPECIFICATION FairSpec
CONSTANTS
    w1 = w1
    w2 = w2
    s1 = s1
    shadow = shadow
    unknown = unknown
    a1 = a1
    Workers <- MCWorkers
    Servers <- MCServers
    Kinds <- MCKinds
    Handled <- MCHandled
    Attempts <- MCAttempts
    Artifacts <- MCArtifacts
    Asked <- MCAsked
    MaxJobs = 2
    MaxRecords = 1
    MaxDeaths = 1
CHECK_DEADLOCK FALSE
INVARIANTS AttemptsAccountedFor AuditTellsTheTruth
PROPERTY QueuedJobsAreTaken
