SPECIFICATION Spec
CONSTANTS
    cloud = cloud
    edge = edge
    NaN = NaN
    None = None
    Hosts <- HostsActive
    Graphs <- GraphsConfigured
    Graph <- GraphConfigured
    Unloaded = Unloaded
    LateDelivery = FALSE
    MaxDeaths = 1
    Layouts <- LayoutsConfigured
    Iterations = 1
    MaxQueries <- QueriesConfigured
INVARIANTS
    EveryFailureIsCounted
CHECK_DEADLOCK FALSE
