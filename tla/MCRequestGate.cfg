SPECIFICATION FairSpec
CONSTANTS
    Requests = {r1, r2, r3}
    Keys = {k1, k2}
    NoLock = NoLock
INVARIANTS
    TypeOK
    OneInsidePerKey
    NoLostWakeup
PROPERTIES
    EveryRequestPasses
CHECK_DEADLOCK FALSE
