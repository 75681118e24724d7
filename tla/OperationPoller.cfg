SPECIFICATION Spec
CONSTANTS
    Deadlines = {0, 1, 5, 9}
    Intervals = {0, 1, 3}
    RequestTimeout = 2
    MaxSlow = 1
    MaxOutages = 1
INVARIANT ExitIsTrue
INVARIANT EndsInTime
CHECK_DEADLOCK FALSE
