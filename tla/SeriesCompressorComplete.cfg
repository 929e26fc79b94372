CONSTANTS
    MaxInt = 15
    Values <- CounterValues
    MaxLen = 7
SPECIFICATION Spec
CHECK_DEADLOCK FALSE
INVARIANT
    ClosedSeriesComplete
