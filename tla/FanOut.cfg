SPECIFICATION FairSpec
CONSTANTS
    Hosts = {edge1, edge2}
    Queries <- AllMerges
    Keys = {k1, k2}
    None = None
    LogicalTimeout = 3
    PhysicalTimeout = 2
    MaxTime = 5
INVARIANTS
    LeftoversAreTimeouts
PROPERTIES
    ImplementsPromise
    Returns
    ThreadsEnd
CHECK_DEADLOCK FALSE
