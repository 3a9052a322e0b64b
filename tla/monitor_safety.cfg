SPECIFICATION MonitorSpec
CONSTANTS
    Keys = {k1, k2}
    Requests = {r1, r2}
    Polls = {p1}
    MaxSpeedUps = 2
    Faults = {"lost_reply", "evict", "revert", "crash"}
    Fees = {1}
    NoTx = NoTx
    NoKey = NoKey
SYMMETRY Symmetry
CHECK_DEADLOCK FALSE
INVARIANTS
    DroppedAloneIsUnpaid
    ConfirmedIsPaid
    AuditTrailIntact
    SharedNonceOnlyAfterFailure
