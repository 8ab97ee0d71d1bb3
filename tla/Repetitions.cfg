SPECIFICATION FairSpec
CONSTANTS
    cloud = cloud
    edge = edge
    NaN = NaN
    None = None
    Hosts = {cloud, edge}
    Graphs <- GraphsPlanned
    Graph <- GraphPlanned
    Idling <- IdlingPlanned
    Unloaded = Unloaded
    LateDelivery = FALSE
    MaxDeaths = 1
    Repetitions <- RepetitionsPlanned
    TaskSize = 2
    MaxQueries = 2
INVARIANTS
    TimeoutsLeaveNothing
    GraphIsKept
    CompletedIsQuiet
    ManifestIsTruthful
PROPERTIES
    Ends
CHECK_DEADLOCK FALSE
