SPECIFICATION Spec
CONSTANTS
    Callers = {a, b}
    Closers = {x}
    Reader = reader
    Writer = writer
    Capacity = 1
    PipeRoom = 1
    PeerRoom = 1
    MaxCalls = 2
    MaxPosts = 1
    MaxInbound = 0
    Timeouts = TRUE
    OwnsChild = TRUE
CHECK_DEADLOCK FALSE
SYMMETRY Interchangeable
INVARIANTS
    TypeOK
    FailedTransportStrandsNobody
    PendingIsWaitedFor
    CleanStopLosesNothing
PROPERTY KeepsPromises
