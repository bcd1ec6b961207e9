SPECIFICATION UpkeepSpec
CONSTANTS
    left = left
    middle = middle
    right = right
    Places = {left, middle, right}
    Links <- Chain
    DocLinks <- OneWay
    Deletions = {1}
    NoDeletion = NoDeletion
    TombstoneTtl = 0
    MaxUpsets = 1
    Watched = {a, b}
    MissThreshold = 2
    Interval = 1
    Timeout = 2
    MaxFlips = 3
    GcKeys = {1, 2, 3}
    Expiring = {2, 3}
    BatchSize = 2
    DocBatch = 1
    GcTtl = 0
    t1 = t1
    t2 = t2
    GcTasks = {t1, t2}
    NoTombstone = NoTombstone
    MaxGcEvents = 3
    Leaders = {a, b}
    MinAttempts = 2
    MinLeaders = 1
    MaxStream = 1
    MaxMoves = 4
INVARIANTS
    AutonomyHasCause
    
    PartitionHasCause
PROPERTIES
    
    DeletionSpreads
    DetectsAndRecovers
    ExpiredAreCollected
    StopEndsTasks
CHECK_DEADLOCK FALSE
