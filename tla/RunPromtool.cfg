CONSTANTS
    PipeSize = 2
    MaxOutput = 7
SPECIFICATION Spec
CHECK_DEADLOCK FALSE
INVARIANTS
    TypeOK
    SuccessIsComplete
    StuckOnlyOnStderr
PROPERTIES
    ReturnsIfStderrFits
