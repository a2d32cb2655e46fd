SPECIFICATION ServicesSpec
CONSTANTS
    Pools = {poolA, poolB}
    Leases = {l1, l2, l3, l4}
    MaxLimit = 2
    NoPool = NoPool
    Names = {n1}
    Addresses = {i1}
    SignIns = {g1, g2}
    Puzzles = {z1}
    Gate <- SmallGate
    Limit <- SmallLimit
    Window = 2
    MaxMoment = 3
    MaxFailed = 5
    Nobody = Nobody
    net = net
    a1 = a1
    a2 = a2
    Keys = {net, a1, a2}
    Classes <- AddressesInNetwork
    Capacity <- SmallCapacity
    PerTick <- OnePerTick
    Costs = {1, 2}
    Spenders = {q1, q2}
    MaxBuckets = 2
    Idle = 1
    MaxClock = 2
    Canonical = {1, 2}
    PlRows = {1, 2, 3}
    PlaylistOf <- TwoPlaylists
    Titles <- TwoTitles
    Renames <- TwoTitles
    GuideIds = {"x"}
    NoGuideId = "none"
    Similarity <- OneSimilarity
    NameScore = 9600
    PoolSize = 2
    MatchAttempts = 2
    MaxDecisions = 2
    MaxJobs = 2
    Cap = 2
    Attempts = 3
    KeptJobs = 1
    MaxCrashes = 1
    Requests = {r1, r2}
    Outputs = {l1, l2}
    MaxSaves = 2
    MaxToggles = 1
    MaxTroubles = 1
INVARIANTS CountsLeases GuessesBounded SpentWithinBudget LedgerTruthful 
PROPERTIES RemovedStaysOut JobsOnlyAdvance
CHECK_DEADLOCK FALSE
