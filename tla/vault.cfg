CONSTANTS
    TokenTTL = 20
    MaxTTL = 50
    RpcTimeout = 2
    RetryDelay = 1
    MaxAttempts = 3
SPECIFICATION Spec
INVARIANTS
    RefusedOnlyAfterLostRenewal
