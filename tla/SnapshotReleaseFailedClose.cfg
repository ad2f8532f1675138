SPECIFICATION FairSpec
CONSTANTS
    Handles = {h1, h2}
    Drains = {d}
    Closers = {k}
    NoHandle = NoHandle
    Capacity = 1
    Deadlines = TRUE
    Refusals = TRUE
    Panics = TRUE
CHECK_DEADLOCK FALSE
PROPERTY CloseShutsDown
