CONSTANTS
    Jobs = {j1, j2}
    Commands <- RulesOnly
    Ports = {1, 2}
    NumChecks = 2
    SeriesBlocks = 0
    MaxBlocks = 2
SPECIFICATION Spec
SYMMETRY Symmetry
CHECK_DEADLOCK FALSE
INVARIANTS
    ServerStopped
    MovedAfterStop
    ForeignOnlyIfContended
