SPECIFICATION FairSpec
CONSTANTS
    load = load
    wipe = wipe
    ask = ask
    g1 = g1
    Requests = {load, wipe, ask}
    Kind <- MCKind
    Payload <- MCPayload
    Header <- MCHeader
    Datasets = {g1}
    Unloaded = Unloaded
    Garbage = Garbage
    NoHeader = NoHeader
    Probes = {}
    Threads = 2
    MaxKills = 0
PROPERTIES
    RecoversToIdle
CHECK_DEADLOCK FALSE
