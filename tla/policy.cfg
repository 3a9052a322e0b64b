CONSTANTS
    o1 = o1
    o2 = o2
    w1 = w1
    Orgs = {o1, o2}
    Wallets = {w1}
    OrgOf <- MCOrgOf
    Policies = {p1, p2}
    Deletes = {d1}
    Calls = {c1}
    PolicyRequests <- MCPolicyRequests
    Transactions <- MCTransactions
    TypedData <- MCTypedData
    Environments <- MCEnvironments
    Estimates = {0, 1, 2}
    MaxTime = 1
    DefaultGas = 1
    Unset = Unset
    NoTo = NoTo
    None = None
SPECIFICATION Spec
SYMMETRY Symmetry
INVARIANTS
    SignedIsPermitted
    DefaultDeny
    SignedWithinSettings
    RefusalIsEarned
CHECK_DEADLOCK FALSE
