SPECIFICATION Spec
CONSTANTS
    Threads = {t1, t2}
    MaxGrants = 4
    None = None
SYMMETRY Symmetry
INVARIANTS
    TypeOK
    RowStaysRedeemable
    QueuedRefreshSeesNewToken
PROPERTY
    RaceIsNoReasonToGiveUp
