SPECIFICATION LivePeerSpec
CONSTANTS
    Callers = {a}
    Closers = {x}
    Reader = reader
    Writer = writer
    Capacity = 1
    PipeRoom = 1
    PeerRoom = 1
    MaxCalls = 1
    MaxPosts = 0
    MaxInbound = 0
    Timeouts = FALSE
    OwnsChild = FALSE
CHECK_DEADLOCK FALSE
PROPERTY CloseFailsOutstanding
