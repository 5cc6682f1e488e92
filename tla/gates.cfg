SPECIFICATION FairSpec
CONSTANTS
    b1 = b1
    b2 = b2
    g1 = g1
    g2 = g2
    p1 = p1
    m1 = m1
    i1 = i1
    Buttons = {b1, b2}
    Pedestals = {b2}
    Gates = {g1, g2}
    Floor = Floor
    Players = {p1}
    Monsters = {m1}
    Items = {i1}
    Gone = Gone
    HoldsDown <- ButtonAndPedestal
    Inverted = {g2}
    OnPush = {g1, g2, b1, b2}
    OnRelease = {g1, g2, b1, b2}
    FirstLink = b1
    NumAnimations = 6
INVARIANTS
    TypeOK
    HeldButtonsHeard
    ReleaseHeard
    NobodyInGate
    ClosedGateBlocks
PROPERTIES
    GatesArrive
