SPECIFICATION Spec
CONSTANTS
    Requests <- MCRequests
    MaxJobs = 3
    MaxWorkers = 2
    MaxFaults = 1
CONSTRAINT Undisturbed
INVARIANTS
    OneWorker
    QuietWhenNotBusy
    ParamsMatch
    RegistersLive
    TrueMeansDone
    NoReaderOfClosedPipe
CHECK_DEADLOCK FALSE
