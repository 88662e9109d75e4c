SPECIFICATION RoutingSpec
CONSTANTS
    k1 = k1
    k2 = k2
    k3 = k3
    c1 = c1
    a1 = a1
    a2 = a2
    p1 = p1
    p2 = p2
    Requests = {r1, r2}
    Kinds <- MCKinds
    AccountOrder <- MCAccountOrder
    ApiOrder <- MCApiOrder
    PinnedKeys = {k2}
    Capacity = 2
    Expiring = TRUE
    None = None
SYMMETRY Symmetry
INVARIANTS
    RoutingTypeOK
    EveryoneInTurn
    BoundToWhoServed
PROPERTIES
    MovedOnlyByFailover
    CacheConversationStays
