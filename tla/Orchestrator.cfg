SPECIFICATION MCSpec
CONSTANTS
    CacheKeys = {k1, k2}
    CacheCallers = {a, b}
    NoCaller = NoCaller
    MaxKept = 1
    FleetCallers = {c, d}
    Projects = {p}
    MaxWorkers = 2
    MaxFleets = 2
    MaxSpawned = 3
    Period = 2
    BatchWorkers = {v, w}
    NoWorker = NoWorker
    MaxInputs = 3
    QueueCapacity = 1
CHECK_DEADLOCK FALSE
INVARIANTS
    TypesOK
    EveryEntryEvictable
    WithinBound
    
    FleetServes
    NoInputLost
PROPERTIES
    AffinityKept
    KeepsPromise
    CallsReturn
