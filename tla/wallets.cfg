SPECIFICATION FairSpec
CONSTANTS
    Creates = {c1, c2}
    Derives = {d1, d2, d3}
    MaxAttempts = 2
    Crashes = TRUE
CHECK_DEADLOCK FALSE
INVARIANTS
    TypeOK
    IndicesDense
    ReplyIsOwnWallet
    ConflictNeedsWinners
    TokenAfterOnboarding
PROPERTIES
    DerivationEnds
