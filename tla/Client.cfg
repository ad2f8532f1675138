SPECIFICATION MCSpec
CONSTANTS
    Updaters = {u1, u2, u3}
    NoUpdater = NoUpdater
    ProjectIds = {p1, p2}
    MaxSnapshots = 2
    Joiners = {a, b, c}
    MaxFlights = 2
    Requests = {r1, r2}
    Closes = {k1, k2}
    NoRequest = NoRequest
    CommandRoom = 1
    Clones = {x, y, z}
CHECK_DEADLOCK FALSE
INVARIANTS
    TypesOK
    
    ChangesAccumulate
    FlightsApart
    AnswersOwed
    ClosedMeansReaped
    OneShutdown
    OkMeansReaped
PROPERTIES
    CallersReturn
