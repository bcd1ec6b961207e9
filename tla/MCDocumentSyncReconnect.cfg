SPECIFICATION SyncFairSpec
CONSTANTS
    a = a
    b = b
    x = x
    y = y
    Nodes = {a, b}
    Changes = {x, y}
    Slots = {1, 2}
    Unknown = Unknown
    NoMsg = NoMsg
    MaxSyncEvents = 2
PROPERTIES
    ConvergesAfterReconnect
CHECK_DEADLOCK FALSE
