CONSTANTS
    SLONames = {"x", "y"}
    WindowNames <- MCWindowNames
    Durations = {1}
    Intervals <- MCIntervals
    NoWindow = NoWindow
    EmptyName = ""
    Absent = Absent
    Bad = Bad
    Configs <- MCConfigs
SPECIFICATION Spec
CHECK_DEADLOCK FALSE
INVARIANTS
    TypeOK
    SLOsWellFormed
    ContextAgrees
    ConversionIsReference
