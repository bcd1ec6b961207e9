SPECIFICATION CallsSpec
CONSTANTS
    Peers = {p1}
    Docs = {d1}
    t1 = t1
    t2 = t2
    Tasks = {t1, t2}
    FailureThreshold = 2
    SuccessThreshold = 2
    OpenTimeout = 1
    MaxAttempts = 1
    Capacity = 2
    TokensPerRefill = 1
    RefillInterval = 2
    Cooldown = 1
    Channels = {1}
    Senders = {t1, t2}
    MAX_RECONNECT_ATTEMPTS = 1
INVARIANTS
    ClosedBelowThreshold
    StampedUnlessClosed
    VerdictMatchesCircuit
    OneSendPerOpening
    MappedChannelHasStream
    CleanCloseIsFinal
PROPERTIES
    CloseNeedsProbes
    HalfOpenResolves
    EverySendReturns
