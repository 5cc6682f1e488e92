SPECIFICATION FairSpec
CONSTANTS
    a = a
    b = b
    h = h
    p1 = p1
    p2 = p2
    i1 = i1
    i2 = i2
    g = g
    NoGroup = NoGroup
    NoFile = NoFile
    NoMap = NoMap
    Maps = {a, b}
    PlayerMaps = {}
    Players = {p1}
    Items = {i1}
    Group <- Grouped
    FixedReset = {b}
    FloorMaps = {a}
    TemplateItems <- ItemOnA
    InitialInv <- RestCarried
    MinTimeout = 2
    RetryTimeout = 2
    ResetTimeout = 1
    SaveErrors = {"RCREATION", "UCREATION"}
    StopErrors = {}
    LogErrors = FALSE
    RecycleTmpMaps = FALSE
    DMs = {}
    Stops = {"shutdown"}
INVARIANTS
    UniqueItemOnce
PROPERTIES
    RefinesMapStore
    GroupResetsTogether
    AbandonedMapsLeaveMemory
