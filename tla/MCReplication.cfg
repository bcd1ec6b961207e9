SPECIFICATION Spec
CONSTANTS
    a = a
    b = b
    Endpoints = {a, b}
    p1 = p1
    p2 = p2
    s1 = s1
    PollConns = {p1, p2}
    SendConns = {s1}
    NoConn = NoConn
    MaxBreaks = 1
    x = x
    y = y
    Nodes = {a, b}
    Changes = {x, y}
    Slots = {1, 2}
    Unknown = Unknown
    NoMsg = NoMsg
    MaxSyncEvents = 2
INVARIANTS
    EntryIsServed

    
    
    
CHECK_DEADLOCK FALSE
