SPECIFICATION Spec
CONSTANTS
    a = a
    b = b
    h = h
    p1 = p1
    p2 = p2
    i1 = i1
    i2 = i2
    g = g
    NoGroup = NoGroup
    NoFile = NoFile
    NoMap = NoMap
    Maps = {a, h}
    PlayerMaps = {h}
    Players = {p1, p2}
    Items = {}
    Group <- Grouped
    FixedReset = {a}
    FloorMaps = {a}
    TemplateItems <- NoItems
    InitialInv <- NothingCarried
    MinTimeout = 2
    RetryTimeout = 1
    ResetTimeout = 1
    SaveErrors = {"RCREATION", "UCREATION", "URENAME", "CLOSE"}
    StopErrors = {"RCREATION", "CLOSE"}
    LogErrors = FALSE
    RecycleTmpMaps = FALSE
    DMs = {p1}
    Stops = {"shutdown", "crash"}
INVARIANTS
    TypeOK
    PlayersOnLoadedMaps
    TmpFileOwned
    SwappedMapBacked
PROPERTIES
    OnlyCrashesOrphanFiles
