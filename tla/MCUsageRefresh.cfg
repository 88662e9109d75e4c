SPECIFICATION FairSpec
CONSTANTS
    Accounts = {a1, a2, a3}
    Asked = {a1}
    Callers = {c1, c2}
    Workers = {w1, w2}
    Pollers = {p1, p2}
    BatchLimit = 2
    None = None
INVARIANTS
    TypeOK
    OneRefreshEach
PROPERTIES
    MarkIsTemporary
    PollingComesAround
