SPECIFICATION Spec
CONSTANTS
    Accounts = {a1, a2}
    Ladder <- MCLadder
    PlainSecs <- MCPlainSecs
    ForgetAfter = 4
    CleanupInterval = 2
    OffenseCap = 5
    LastSecond = 9
SYMMETRY AccountSymmetry
INVARIANTS
    TypeOK
    ParkedNoLongerThanOneCooldown
PROPERTIES
    RunningCooldownOnlyLifted
    ImplementsCoolingSet
