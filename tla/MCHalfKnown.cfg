SPECIFICATION Spec
CONSTANTS
    Accounts = {a1}
    Workers = {w1, w2}
    Readings = {"half", "missing"}
    Ttl = 1
    None = None
INVARIANTS
    AvailableMeansInService
