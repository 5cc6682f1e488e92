SPECIFICATION FairSpec
CONSTANTS
    o1 = o1
    o2 = o2
    o3 = o3
    Objects = {o1, o2, o3}
    Marker = Marker
    Null = Null
    MaxSpeed = 1
    Unit = 1
    Victims = {o1}
INVARIANTS
    TypeOK
    LinksAgree
    OnlyLiveNodesListed
PROPERTIES
    RefinesActiveSet
    PassEnds
    ActiveObjectsAct
