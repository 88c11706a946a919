SPECIFICATION Spec
CONSTANTS
    v1 = v1
    v2 = v2
    empty = empty
    Values <- MCValues
    Empty <- empty
    MaxIds = 4
    MaxDepth = 2
INVARIANTS
    TypeOK
    IdsPartition
    HeldIsStored
CHECK_DEADLOCK FALSE
