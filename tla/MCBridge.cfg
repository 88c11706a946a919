SPECIFICATION FairBridge
CONSTANTS
    Requests <- MCRequests
    Results <- MCResults
    SignedChar = TRUE
    MaxRequests = 3
    MaxInitFailures = 2
INVARIANTS
    BridgeTypeOK
    AnswerIsSuffix
    RequestIsServed
PROPERTIES
    ComputeEnds
CHECK_DEADLOCK FALSE
