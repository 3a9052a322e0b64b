SPECIFICATION FairMonitorSpec
CONSTANTS
    Keys = {k1}
    Requests = {r1, r2}
    Polls = {p1}
    MaxSpeedUps = 1
    Faults = {"lost_reply", "evict", "revert"}
    Fees = {1, 2}
    NoTx = NoTx
    NoKey = NoKey
CHECK_DEADLOCK FALSE
PROPERTIES
    UnfinishedRowIsResolved
    BroadcastedIsSettled
