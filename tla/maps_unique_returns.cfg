SPECIFICATION Spec
CONSTANTS
    a = a
    b = b
    h = h
    p1 = p1
    p2 = p2
    i1 = i1
    i2 = i2
    g = g
    NoGroup = NoGroup
    NoFile = NoFile
    NoMap = NoMap
    Maps = {a, h}
    PlayerMaps = {h}
    Players = {p1}
    Items = {i1}
    Group <- Grouped
    FixedReset = {}
    FloorMaps = {}
    TemplateItems <- ItemOnA
    InitialInv <- RestCarried
    MinTimeout = 2
    RetryTimeout = 1
    ResetTimeout = 1
    SaveErrors = {}
    StopErrors = {}
    LogErrors = FALSE
    RecycleTmpMaps = FALSE
    DMs = {}
    Stops = {}
INVARIANTS
    UniqueItemOnce
