SPECIFICATION FairSpec
CONSTANTS
    Tasks <- ThreeTasks
    Interval <- Intervals
    Deadline <- Deadlines
    Priority <- Priorities
    NoDeadline = None
    None = None
    NaN = NaN
    GlobalTimeout = 3
    Window = 6
    MaxTime = 7
INVARIANTS
    SlotConservation
    EverySlotRecorded
    NoCatchUpBurst
    LogicalConcurrencyOne
    SimultaneousInOrder
    BusyMissIsLate
PROPERTIES
    ImplementsLedger
    Terminates
CHECK_DEADLOCK FALSE
