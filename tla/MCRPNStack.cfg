SPECIFICATION StackSpec
CONSTANTS
    Operators <- MCOperators
    Arities <- MCArities
    MaxRegisters = 4
INVARIANTS
    StackTypeOK
    OwnedOnce
PROPERTY ImplementsSpec
CHECK_DEADLOCK FALSE
