SPECIFICATION LivePeerSpec
CONSTANTS
    Callers = {a}
    Closers = {x, y}
    Reader = reader
    Writer = writer
    Capacity = 1
    PipeRoom = 1
    PeerRoom = 1
    MaxCalls = 1
    MaxPosts = 0
    MaxInbound = 1
    Timeouts = FALSE
    OwnsChild = TRUE
CHECK_DEADLOCK FALSE
INVARIANTS
    CloseWaitsForWriter
    
PROPERTIES
    CloseFailsOnlyInOverlap
    ThreadsReturn
