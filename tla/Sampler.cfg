SPECIFICATION FairSampler
CONSTANTS
    cloud = cloud
    edge = edge
    Hosts = {cloud, edge}
    Phases = {preparation, queries}
    Unassigned = Unassigned
    NoHost = NoHost
    MaxRounds = 2
    MaxSwitches = 3
INVARIANTS
    Bracketed
    OnlyFirstIsStale
    NothingIsLost
PROPERTIES
    ExitReturns
CHECK_DEADLOCK FALSE
