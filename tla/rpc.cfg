CONSTANTS
    MaxProviders = 4
    MaxRetries = 3
SPECIFICATION Spec
INVARIANTS
    ErrorNeedsReason
PROPERTIES
    CallerIsAnswered
    ImplementsBroadcast
CHECK_DEADLOCK FALSE
