SPECIFICATION Spec
SYMMETRY Symmetry
CONSTANTS
    p1 = p1
    p2 = p2
    p3 = p3
    c1 = c1
    c2 = c2
    a1 = a1
    a2 = a2
    g1 = g1
    m1 = m1
    Null = Null
    Anon = Anon
    MaxFds = 2
    MaxSlots = 2
    Players = {p1, p2}
    Chars = {c1}
    Accounts = {a1, a2}
    PartyIds = {}
    PartyNames = {m1}
    PartyName <- NoParties
    Passwords = {"k1"}
    RejoinAlways = TRUE
    Clients = {"account"}
    LateWritesFail = FALSE
    SaveOutcomes = {TRUE}
    Gainers = {c1}
    InitialFiles = {c1}
    InitialChars <- NoneLinked
INVARIANTS
    DescriptorsOwned
    OwnersOpen
    LoopOnLivePlayers
    CharOneAccount
PROPERTIES
    LeaversSaved
CHECK_DEADLOCK FALSE
