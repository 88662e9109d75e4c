SPECIFICATION MCSpec
CONSTANTS
    Accounts = {a1, a2}
    Requests = {r1, r2}
    Profiles <- MCProfiles
    Scope <- OneScope
    MaxInflight = 1
    NoAccount = NoAccount
INVARIANTS
    TypeOK
    InflightCountsGuards
    ServedMeansAnsweredOnce
    OnlyAnthropicRunsOut
PROPERTIES
    
    EveryRequestEnds
CHECK_DEADLOCK FALSE
