SPECIFICATION Spec
CONSTANTS
    Keys = {k1}
    Requests = {r1, r2}
    Faults = {"lost_reply"}
    NoTx = NoTx
CHECK_DEADLOCK FALSE
INVARIANT
    PaidAtMostOnce
