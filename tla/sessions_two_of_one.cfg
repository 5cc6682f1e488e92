SPECIFICATION Spec
CONSTANTS
    p1 = p1
    p2 = p2
    p3 = p3
    c1 = c1
    c2 = c2
    a1 = a1
    a2 = a2
    g1 = g1
    m1 = m1
    Null = Null
    Anon = Anon
    MaxFds = 3
    MaxSlots = 1
    Players = {p1, p2, p3}
    Chars = {c1}
    Accounts = {}
    PartyIds = {}
    PartyNames = {m1}
    PartyName <- NoParties
    Passwords = {"k1"}
    RejoinAlways = TRUE
    Clients = {"legacy"}
    LateWritesFail = FALSE
    SaveOutcomes = {TRUE}
    Gainers = {c1}
    InitialFiles = {c1}
    InitialChars <- NoAccounts
INVARIANTS
    UniqueInPlay
CHECK_DEADLOCK FALSE
