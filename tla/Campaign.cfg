SPECIFICATION FairSpec
CONSTANTS
    cloud = cloud
    edge = edge
    NaN = NaN
    None = None
    Hosts <- HostsActive
    Graphs <- GraphsConfigured
    Graph <- GraphConfigured
    Unloaded = Unloaded
    LateDelivery = FALSE
    MaxDeaths = 1
    Layouts <- LayoutsConfigured
    Iterations <- IterationsConfigured
    MaxQueries <- QueriesConfigured
INVARIANTS
    OwnFragments
    PostCheckIsSound
    ManifestIsTruthful
PROPERTIES
    StartsClean
    Ends
CHECK_DEADLOCK FALSE
