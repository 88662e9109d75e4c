SPECIFICATION Spec
CONSTANTS
    Accounts = {a1}
    Workers = {w1, w2}
    Readings = {"low"}
    Ttl = 1
    None = None
PROPERTIES
    ManualDisableSticks
