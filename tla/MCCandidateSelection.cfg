SPECIFICATION Spec
CONSTANTS
    Accounts = {a1, a2}
    Workers = {w1, w2}
    Readings = {"low", "exhausted"}
    Ttl = 1
    None = None
SYMMETRY Symmetry
INVARIANTS
    TypeOK
    
    OnlyLateSnapshotsAreStale
