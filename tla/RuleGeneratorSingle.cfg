CONSTANTS
    SLONames = {"x"}
    WindowNames = {"a", "b"}
    Durations = {1, 2}
    Intervals <- MCIntervals
    NoWindow = NoWindow
    Specs <- SingleSLO
SPECIFICATION Spec
CHECK_DEADLOCK FALSE
INVARIANTS
    TypeOK
    SeriesRecordedOnce
    OutputIsReference
PROPERTIES
    RecordingNeverFails
