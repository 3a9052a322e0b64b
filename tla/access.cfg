SPECIFICATION Spec
CONSTANTS
    Orgs = {o1, o2}
    Calls = {c1, c2, c3}
    NoOrg = NoOrg
    NoKey = NoKey
SYMMETRY Symmetry
CHECK_DEADLOCK FALSE
INVARIANTS
    RevocationIsEffective
    TokenIsOneTime
    KeysStayInOrg
PROPERTIES
    RevokedStaysRevoked
