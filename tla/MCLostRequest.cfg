SPECIFICATION Spec
CONSTANTS
    Accounts = {a1, a2}
    Requests = {r1, r2}
    Profiles <- MCProfiles
    Scope <- OwnScope
    MaxInflight = 1
    NoAccount = NoAccount
INVARIANTS
    RequestStillExists
CHECK_DEADLOCK FALSE
