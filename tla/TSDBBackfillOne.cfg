CONSTANTS
    Jobs = {j1}
    Commands <- AnyParts
    Ports = {1}
    NumChecks = 5
    SeriesBlocks = 2
    MaxBlocks = 3
SPECIFICATION FairSpec
CHECK_DEADLOCK FALSE
INVARIANTS
    TypeOK
    TempsRemoved
    BlocksConserved
PROPERTIES
    EndsUnlessStalled
    ImplementsBackfill
