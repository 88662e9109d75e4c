SPECIFICATION FairSpec
CONSTANTS
    w1 = w1
    w2 = w2
    Requests = {r1, r2, r3}
    Workers = {w1, w2}
    PoolOf <- MCPoolOf
    Capacity <- MCCapacity
    None = None
INVARIANTS
    TypeOK
    GaugeCoversQueue
    WaitingIsHeldOnce
    
PROPERTIES
    AcceptLoopReturns
    QueuedIsAnswered
CHECK_DEADLOCK FALSE
