SPECIFICATION FairSpec
CONSTANTS
    Requests <- MCForcedRequests
    MaxJobs = 2
    MaxWorkers = 2
    MaxFaults = 1
INVARIANTS
    TypeOK
PROPERTIES
    CallReturns
    StartedStarts
CHECK_DEADLOCK FALSE
