SPECIFICATION FairSpec
CONSTANTS
    Keys = {k1, k2}
    Requests = {r1, r2}
    Faults = {}
    NoTx = NoTx
CHECK_DEADLOCK FALSE
PROPERTY
    AcceptedIsMined
