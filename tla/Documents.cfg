SPECIFICATION MCSpec
CONSTANTS
    e1 = e1
    e2 = e2
    u1 = u1
    u2 = u2
    f1 = f1
    f2 = f2
    x = x
    y = y
    Subjects <- AllParts
    Editors = {e1, e2}
    Uris = {u1, u2}
    Owns <- OnePerEditor
    Openings <- OpeningTexts
    Batches <- ChangeLists
    Texts <- ShortTexts
    MaxVersion = 3
    Absent = Absent
    FirstTexts <- AllTexts
    EditLists <- AllLists
    MaxEdits = 1
    MaxLength = 7
    SourceFiles = {f1, f2}
    SourceTexts = {x, y}
    NoText = NoText
    Refusals = TRUE
    MaxMtime = 2
    Segments <- AllSegments
    MaxSegments = 3
    Features = {"rename"}
    LastOffset = 5
    Queries <- SomeQueries
    MaxQueries = 3
    Null = Null
    Failed = Failed
CHECK_DEADLOCK FALSE
INVARIANTS
    TypesOK
    Synchronized
    ServerBehind
    
    SpanLookupsAgree
    EachGetsItsOwn
PROPERTIES
    ValidSequence
    
