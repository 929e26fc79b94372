CONSTANTS
    Configs <- MCConfigs
    Flags <- MCFlags
    Draw <- MCDraw
    Second = 2
    MaxInt = 127
    MaxPoints = 6
SPECIFICATION Spec
CHECK_DEADLOCK FALSE
INVARIANTS
    TypeOK
    OutputIsReference
    TruncatedEvenly
    TimestampsIncrease
    RulesSeeSeries
PROPERTIES
    Returns
