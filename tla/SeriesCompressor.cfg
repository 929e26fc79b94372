CONSTANTS
    MaxInt = 15
    Values <- MCValues
    MaxLen = 6
SPECIFICATION Spec
CHECK_DEADLOCK FALSE
INVARIANTS
    TypeOK
    Lossless
    Greedy
PROPERTY
    ImplementsStream
