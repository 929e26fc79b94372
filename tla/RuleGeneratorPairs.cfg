CONSTANTS
    SLONames = {"x", "y"}
    WindowNames = {"a", "b"}
    Durations = {1, 2}
    Intervals <- MCIntervals
    NoWindow = NoWindow
    Specs <- SLOPairs
SPECIFICATION Spec
CHECK_DEADLOCK FALSE
INVARIANTS
    GroupsIndexed
    LookupsBacked
    ReadsRecorded
    SourcePrecedes
    OutputIsReference
    SeriesRecordedOnce
    FailureExplained
