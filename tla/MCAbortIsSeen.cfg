SPECIFICATION Spec
CONSTANTS
    Requests <- MCExprOnly
    MaxJobs = 1
    MaxWorkers = 1
    MaxFaults = 0
CONSTRAINT Undisturbed
INVARIANT AbortIsSeen
CHECK_DEADLOCK FALSE
