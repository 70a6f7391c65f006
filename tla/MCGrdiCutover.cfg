SPECIFICATION FairSpec
CONSTANTS
    p1 = p1
    p2 = p2
    Processes = {o1, o2}
    NoProcess = NoProcess
    Schemas <- SomeSchemas
    LegacyLedgers <- SomeLedgers
    Jobs <- SomeJobs
    MaxList = 3
CHECK_DEADLOCK FALSE
INVARIANTS
    StartsSucceed
    LegacyMigratedWhole
    GoMeansCutOver
PROPERTIES
    RunsEnd
