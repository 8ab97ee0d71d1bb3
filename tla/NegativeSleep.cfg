SPECIFICATION Spec
CONSTANTS
    Tasks <- ThreeTasks
    Interval <- Intervals
    Deadline <- Deadlines
    Priority <- Priorities
    NoDeadline = None
    None = None
    NaN = NaN
    GlobalTimeout = 3
    Window = 5
    MaxTime = 6
INVARIANTS
    NeverRaises
CHECK_DEADLOCK FALSE
