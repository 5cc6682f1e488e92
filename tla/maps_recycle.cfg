SPECIFICATION Spec
CONSTANTS
    a = a
    b = b
    h = h
    p1 = p1
    p2 = p2
    i1 = i1
    i2 = i2
    g = g
    NoGroup = NoGroup
    NoFile = NoFile
    NoMap = NoMap
    Maps = {a, b}
    PlayerMaps = {}
    Players = {p1}
    Items = {}
    Group <- Grouped
    FixedReset = {}
    FloorMaps = {a}
    TemplateItems <- NoItems
    InitialInv <- NothingCarried
    MinTimeout = 2
    RetryTimeout = 1
    ResetTimeout = 1
    SaveErrors = {"CLOSE"}
    StopErrors = {"RCREATION"}
    LogErrors = FALSE
    RecycleTmpMaps = TRUE
    DMs = {p1}
    Stops = {"shutdown", "crash"}
PROPERTIES
    SwappedMapsSurviveCrash
