SPECIFICATION FairSpec
CONSTANTS
    Callers = {a}
    Closers = {x}
    Reader = reader
    Writer = writer
    Capacity = 1
    PipeRoom = 1
    PeerRoom = 1
    MaxCalls = 1
    MaxPosts = 2
    MaxInbound = 0
    Timeouts = TRUE
    OwnsChild = TRUE
CHECK_DEADLOCK FALSE
PROPERTY CloseEndsAnyway
