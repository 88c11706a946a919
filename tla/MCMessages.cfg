SPECIFICATION Spec
CONSTANTS
    Reports <- MCReports
    Forced <- MCForced
    MaxStops = 2
    MaxCount = 2
INVARIANTS
    TypeOK
PROPERTY ImplementsLog
CHECK_DEADLOCK FALSE
