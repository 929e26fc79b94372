CONSTANTS
    SLONames = {"x", "y"}
    WindowNames = {"a", "b"}
    Durations = {1}
    Intervals <- MCIntervals
    NoWindow = NoWindow
    EmptyName = ""
    Absent = Absent
    Bad = Bad
    Configs <- MCConfigs
    Outputs = {"json", "prometheus", "yaml", "template"}
    Types = {"all", "record", "other"}
SPECIFICATION Spec
CHECK_DEADLOCK FALSE
INVARIANTS
    OutcomeExplained
    PrintedIsReference
    
