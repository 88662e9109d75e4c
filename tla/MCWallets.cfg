SPECIFICATION Spec
CONSTANTS
    root = root
    u1 = u1
    k1 = k1
    Users <- MCUsers
    Root = root
    Keys = {k1}
    Requests = {r1, r2}
    Threads = {t1, t2}
    Jobs <- MCJobs
    MostCost = 1
    MaxWallets = 2
    Lowest = 3
    Highest = 1
    None = None
SYMMETRY Symmetry
INVARIANTS
    TypeOK
    
PROPERTIES
    
    LastAdminStays
