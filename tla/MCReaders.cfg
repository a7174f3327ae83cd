CONSTANTS
    k1 = k1 k2 = k2 k3 = k3
    Keys = {k1, k2, k3}
    Genesis <- MCGenesis
    Batches <- MCBatches
    Imports <- MCImports
    Wanted <- MCWanted
    ChunkSize = 2
    Damaged = damaged
    Readers = {"export", "cache", "stream"}
    Fetches = {f1, f2}
    MaxBlocks = 2
    MaxReceived = 3
    MaxEntries = 2
    Ttl = 1
    RefreshBelow = 1
    MaxConcurrentFetches = 1
    MaxIssued = 3
    alice = alice bob = bob
    Clients = {c1, c2, c3}
    Ips = {i1, i2}
    EventFilters <- MCFilters
    Events <- MCEvents
    MaxClientsPerIp = 1
    MaxTotalClients = 2
    MaxBufferSize = 2
    MaxLoad = 5
    MaxTimers = 2
SPECIFICATION ReadersSpec
SYMMETRY FetchSymmetry
CHECK_DEADLOCK FALSE
INVARIANTS ImportIsTheExport CacheIsSound StreamIsWhole
