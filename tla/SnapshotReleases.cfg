SPECIFICATION FairSpec
CONSTANTS
    Handles = {h1, h2}
    Drains = {d}
    Closers = {k1, k2}
    NoHandle = NoHandle
    Capacity = 1
    Deadlines = TRUE
    Refusals = TRUE
    Panics = TRUE
CHECK_DEADLOCK FALSE
INVARIANTS
    TypeOK
    DrainOkMeansReleased
    PendingCountsUnfinished
    GivenBackOnce
PROPERTY NothingWaitsForever
