SPECIFICATION Spec
CONSTANTS
    Orgs = {o1}
    Calls = {c1, c2}
    NoOrg = NoOrg
    NoKey = NoKey
CHECK_DEADLOCK FALSE
INVARIANT
    WriteScopeCanRegister
