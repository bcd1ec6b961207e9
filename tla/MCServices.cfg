SPECIFICATION ServicesSpec
CONSTANTS
    north = north
    south = south
    l1 = l1
    l2 = l2
    t1 = t1
    t2 = t2
    Parents = {north, south}
    Laterals = {l1, l2}
    Nobody = Nobody
    RetryTasks = {t1, t2}
    MaxRetries = 2
    MaxLateral = 1
    MaxBuffer = 1
    MaxQueue = 1
    MaxTopologyEvents = 2
    Sessions = {1, 2}
    TotalChunks = 2
    MaxOtaRetries = 1
    hq = hq
    east = east
    west = west
    leaf = leaf
    Routers = {hq, east, west, leaf}
    Parent <- Tree
    Side <- Beside
    NoParent = NoParent
    Leaders = {east, west, leaf}
    Packets = {1, 2}
    Anyone = Anyone
    MaxHops = 2
    MaxEntries = 1
    MaxRouterUpsets = 1
    crit = crit
    high = high
    bulk = bulk
    Transfers = {bulk}
    Urgent = {crit, high}
    Operator = Operator
    Preemptable <- Lower
    Nothing = Nothing
    CountModulus = 8
    MaxPreemptions = 3
    Stock = {1, 2, 3}
    Critical = {3}
    svc = svc
    op = op
    Cycles = {svc, op}
    Service = svc
    NoDocument = NoDocument
    Threshold = 1
    Target = 0
    MaxPuts = 3
    me = me
    h1 = h1
    h2 = h2
    Hosts = {me, h1, h2}
    Self = me
    Addresses = {1, 2}
    Absent = Absent
    ChannelSize = 1
    MaxChanges = 2
    Blobs = {1}
    Providers = {north, south}
    Fetchers = {t1, t2}
    NoBlob = NoBlob
    MaxBlobEvents = 2
    BlobUnits = 4
    ChunkUnits = 2
    CheckpointInterval = 2
    MaxAttempts = 4
    Ids = {1, 2}
    m1 = m1
    Mirrors = {m1}
    Missing = Missing
    MaxWrites = 4
    w1 = w1
    Contacts = {w1}
    PingInterval = 2
    SuspectThreshold = 1
    DeadThreshold = 2
    LossThreshold = 10
    MaxPings = 4
    mdns = mdns
    static = static
    Strategies = {mdns, static}
    Sighted = {h1}
    NoneInHand = NoneInHand
    MaxSightings = 5
INVARIANTS
    RetryBelowMax
    AckedIsWritten
    ConsumedOnce
    
    QuietMeansResumed
    ProtectedSurvives
    DrainedMeansAgreed
    
    
    
    VerdictMeansSilence
    MergedMeansSeen
CHECK_DEADLOCK FALSE
