---------------------------- MODULE MCSigningGate ----------------------------
EXTENDS SigningGate, TLC

CONSTANTS o1, o2, w1

MCOrgOf == (w1 :> o1)

A(case) == [name |-> "A", case |-> case]
B == [name |-> "B", case |-> "lower"]
S(case) == [name |-> "transfer", case |-> case]

Rule(type) == [type |-> type, addresses |-> {}, max |-> 0, entries |-> {}, start |-> 0, end |-> 0]
Listed(case) == [to |-> A(case), selector |-> S("other")]

MCRules ==
    {[Rule("address_blocklist") EXCEPT !.addresses = {A("checksum")}],
     [Rule("address_blocklist") EXCEPT !.addresses = {A("other")}],
     Rule("address_allowlist"),
     [Rule("address_allowlist") EXCEPT !.addresses = {A("checksum")}],
     Rule("spend_limit"),
     [Rule("calldata_allowlist") EXCEPT !.entries = {Listed("checksum")}],
     [Rule("time_lock") EXCEPT !.start = 1, !.end = 2],
     [Rule("time_lock") EXCEPT !.start = -1, !.end = 0]}

Request(o, rule, applies_to) == [org |-> o, rule |-> rule, applies_to |-> applies_to, target |-> w1]

MCPolicyRequests ==
    {Request(o1, rule, "all") : rule \in MCRules}
      \cup {Request(o1, Rule("address_allowlist"), "other"), Request(o2, Rule("address_allowlist"), "wallet")}

Calldata(n) == [bytes |-> n, selector |-> S("lower")]
Tx(to, value, n) == [chain |-> 1, to |-> to, value |-> value, data |-> Calldata(n)]

MCTransactions ==
    {Tx(to, 0, 0) : to \in {A("other"), A("checksum"), B}}
      \cup {Tx(A("other"), 1, 0), Tx(A("other"), 0, 3),
            Tx(A("other"), 0, 4), Tx(B, 0, 4),
            [Tx(B, 0, 0) EXCEPT !.chain = 2]}

MCTypedData ==
    {[domain |-> "D", chain |-> 1, contract |-> a, primaryType |-> "Permit"] : a \in {A("other"), B, None}}

SignerEnv(max, chains, to, selectors, hash) ==
    [max |-> max, chains |-> chains, to |-> to, selectors |-> selectors,
     creation |-> FALSE, hash |-> hash, gas |-> Unset]

ApiEnv(contracts, personal) ==
    [domains |-> {"D"}, chains |-> {1}, contracts |-> contracts,
     primaryTypes |-> {"Permit"}, personal |-> personal]

MCEnvironments ==
    {[signer |-> SignerEnv(Unset, {}, {}, {}, FALSE), api |-> ApiEnv({A("checksum")}, TRUE)],
     [signer |-> SignerEnv(1, {1}, {}, {Listed("checksum")}, TRUE), api |-> ApiEnv({A("checksum")}, TRUE)],
     [signer |-> SignerEnv(Unset, {}, {A("checksum")}, {Listed("other")}, TRUE), api |-> ApiEnv({}, FALSE)]}

Symmetry == Permutations(Policies)
=============================================================================
