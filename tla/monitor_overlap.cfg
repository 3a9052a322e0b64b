SPECIFICATION MonitorSpec
CONSTANTS
    Keys = {k1}
    Requests = {r1, r2}
    Polls = {p1, p2}
    MaxSpeedUps = 1
    Faults = {"evict", "revert"}
    Fees = {1, 2}
    NoTx = NoTx
    NoKey = NoKey
SYMMETRY Symmetry
CHECK_DEADLOCK FALSE
INVARIANTS
    PaidTwiceOnlyAfterFailure
    AuditTrailIntact
    GiveUpIsEarned
PROPERTIES
    SettledRowIsLeft
