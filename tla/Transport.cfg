SPECIFICATION FairSpec
CONSTANTS
    Timeout = 4
    DeadlineSeconds = 7
    PollTimeout = 3
    Pause = 1
    HeadParts = 3
INVARIANT
    AcceptedInTime
PROPERTY
    CallEnds
CHECK_DEADLOCK FALSE
