SPECIFICATION Spec
CONSTANTS
    Keys = {k1, k2}
    Requests = {r1, r2, r3}
    Faults = {"lost_reply", "evict", "crash"}
    NoTx = NoTx
SYMMETRY Symmetry
CHECK_DEADLOCK FALSE
INVARIANTS
    TypeOK
    HeldNoncesDistinct
    NonceNeverUsedTwice
    NoNonceSkipped
    OneWorkerUntilFailure
    SentTwiceOnlyAfterFailure
    UnfinishedRowHasWorker
    BroadcastedRowIsOnChain
    OkMeansAccepted
PROPERTIES
    CounterMovesBackOnlyOverUnsent
    SyncNeverMovesCounter
    ImplementsDispenser
