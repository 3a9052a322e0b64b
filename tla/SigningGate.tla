----------------------------- MODULE SigningGate -----------------------------
(***************************************************************************)
(* The two layers a signature passes: the API (PolicyService for           *)
(* transactions, the allow-lists of SigningService for messages) and the   *)
(* sidecar's limits, with policies created and deleted by their            *)
(* organizations while calls are under way.  One action per await.         *)
(*                                                                         *)
(* Of requestSign only the steps up to the signature are here, on a first  *)
(* request; rows, nonces and the broadcast are SigningPipeline's.          *)
(***************************************************************************)
EXTENDS SignerLimits

CONSTANTS
    Orgs, Wallets,
    OrgOf,      \* wallet -> the organization it belongs to
    Policies,   \* ids of policies
    Deletes,    \* calls of DELETE /policies/:id
    Calls,      \* calls that ask for a signature
    PolicyRequests, Transactions, TypedData,  \* requests
    Environments,  \* what sidecar and API may be started with
    Estimates,  \* gas limits the providers estimate
    MaxTime,    \* bound of the clock
    None

ASSUME RequestAssumption ==
    /\ PolicyRequests \subseteq
          [org : Orgs, rule : RuleConfig, applies_to : AppliesTo, target : Wallets \cup {None}]
    /\ Transactions \subseteq Transaction
    /\ \A data \in TypedData : data.contract \in Written \cup {None}
    /\ Estimates \subseteq Nat
    /\ MaxTime \in Nat

ASSUME EnvironmentAssumption ==
    /\ DefaultGas \in Nat /\ Unset \notin Nat /\ NoTo \notin Written
    /\ \A env \in Environments :
          /\ env.signer.max \in Nat \cup {Unset} /\ env.signer.gas \in Nat \cup {Unset}
          /\ env.signer.to \subseteq Written /\ env.signer.selectors \subseteq Entry
          /\ env.api.contracts \subseteq Written
          /\ None \notin env.api.domains /\ None \notin env.api.chains
          /\ None \notin env.api.primaryTypes

VARIABLES
    policies,  \* the policies table
    asked,     \* history: policy -> the rule as its creator wrote it
    del,       \* deletion -> where it stands, for whom, which policy
    clock,
    signerEnv, apiEnv,  \* fixed when the processes start
    pc,        \* call -> the await it stands at, or how it ended
    kind, org, wallet, tx, typed,  \* call -> route and body
    gas,       \* call -> its gas limit, once estimated
    signed,    \* calls the sidecar has made a signature for
    arrived,   \* history: call -> when it arrived
    inforce,   \* history: call -> policies active when it arrived
    retired    \* history: call -> policies deleted when it arrived

policyVars == <<policies, asked>>
headerVars == <<kind, org, wallet, tx, typed, arrived, inforce, retired>>
envVars == <<signerEnv, apiEnv>>
vars == <<policyVars, del, clock, envVars, pc, headerVars, gas, signed>>

PolicyRow ==
    [status : {"none", "active", "inactive"}, org : Orgs \cup {None},
     rule : RuleConfig \cup {None}, applies_to : AppliesTo, target : Wallets \cup {None}]

NoPolicy == [status |-> "none", org |-> None, rule |-> None, applies_to |-> "other", target |-> None]

Awaits == {"load", "evaluate", "audit_allow", "audit_deny", "estimate",
           "sign_tx", "sign_hash", "audit_hash"}
Outcomes == {"ok", "failed", "refused", "denied", "forbidden"}

\* Every definition below keeps the state in these sets.
TypeOK ==
    /\ policies \in [Policies -> PolicyRow]
    /\ asked \in [Policies -> RuleConfig \cup {None}]
    /\ del \in [Deletes -> [pc : {"idle", "update", "audit"} \cup Outcomes,
                           org : Orgs \cup {None}, target : Policies \cup {None}]]
    /\ clock \in Nat
    /\ \E env \in Environments : signerEnv = env.signer /\ apiEnv = env.api
    /\ pc \in [Calls -> {"idle"} \cup Awaits \cup Outcomes]
    /\ kind \in [Calls -> {"none", "transaction", "typed", "personal"}]
    /\ org \in [Calls -> Orgs \cup {None}]
    /\ wallet \in [Calls -> Wallets \cup {None}]
    /\ tx \in [Calls -> Transaction \cup {None}]
    /\ typed \in [Calls -> TypedData \cup {None}]
    /\ gas \in [Calls -> Nat]
    /\ signed \subseteq Calls
    /\ arrived \in [Calls -> Nat]
    /\ inforce \in [Calls -> SUBSET Policies]
    /\ retired \in [Calls -> SUBSET Policies]

signerLimits == LoadSignerLimits(signerEnv)

Init ==
    /\ policies = [p \in Policies |-> NoPolicy]
    /\ asked = [p \in Policies |-> None]
    /\ del = [d \in Deletes |-> [pc |-> "idle", org |-> None, target |-> None]]
    /\ clock = 0
    /\ \E env \in Environments : signerEnv = env.signer /\ apiEnv = env.api
    /\ pc = [c \in Calls |-> "idle"]
    /\ kind = [c \in Calls |-> "none"]
    /\ org = [c \in Calls |-> None]
    /\ wallet = [c \in Calls |-> None]
    /\ tx = [c \in Calls |-> None]
    /\ typed = [c \in Calls |-> None]
    /\ gas = [c \in Calls |-> 0]
    /\ signed = {}
    /\ arrived = [c \in Calls |-> 0]
    /\ inforce = [c \in Calls |-> {}]
    /\ retired = [c \in Calls |-> {}]

At(c, a) == pc[c] = a
Goto(c, a) == pc' = [pc EXCEPT ![c] = a]

-----------------------------------------------------------------------------
(* POST /policies: validation and one insert.  A refused body changes      *)
(* nothing.                                                                *)
CreatePolicy(p) ==
    /\ policies[p].status = "none"
    /\ \E body \in PolicyRequests :
          /\ ValidRule(body.rule)
          /\ policies' = [policies EXCEPT ![p] =
                [status |-> "active", org |-> body.org, rule |-> Normalised(body.rule),
                 applies_to |-> body.applies_to, target |-> body.target]]
          /\ asked' = [asked EXCEPT ![p] = body.rule]
    /\ UNCHANGED <<del, clock, envVars, pc, headerVars, gas, signed>>

MayDelete(o, p) == policies[p].org = o

\* DELETE /policies/:id finds the row and compares its organization.
DeleteFind(d) ==
    /\ del[d].pc = "idle"
    /\ \E o \in Orgs, p \in Policies :
          /\ policies[p].status # "none"
          /\ del' = [del EXCEPT ![d] =
                [pc |-> IF MayDelete(o, p) THEN "update" ELSE "refused", org |-> o, target |-> p]]
    /\ UNCHANGED <<policyVars, clock, envVars, pc, headerVars, gas, signed>>

DeleteUpdate(d) ==
    /\ del[d].pc = "update"
    /\ policies' = [policies EXCEPT ![del[d].target].status = "inactive"]
    /\ del' = [del EXCEPT ![d].pc = "audit"]
    /\ UNCHANGED <<asked, clock, envVars, pc, headerVars, gas, signed>>

\* The audit entry is written, or the insert throws.
DeleteAudit(d) ==
    /\ del[d].pc = "audit"
    /\ \E end \in {"ok", "failed"} : del' = [del EXCEPT ![d].pc = end]
    /\ UNCHANGED <<policyVars, clock, envVars, pc, headerVars, gas, signed>>

-----------------------------------------------------------------------------
Arrive(c, k, body, data) ==
    /\ At(c, "idle")
    /\ kind' = [kind EXCEPT ![c] = k]
    /\ \E o \in Orgs : org' = [org EXCEPT ![c] = o]
    /\ \E w \in Wallets : wallet' = [wallet EXCEPT ![c] = w]
    /\ tx' = [tx EXCEPT ![c] = body]
    /\ typed' = [typed EXCEPT ![c] = data]
    /\ arrived' = [arrived EXCEPT ![c] = clock]
    /\ inforce' = [inforce EXCEPT ![c] = {p \in Policies : policies[p].status = "active"}]
    /\ retired' = [retired EXCEPT ![c] = {p \in Policies : policies[p].status = "inactive"}]
    /\ UNCHANGED <<policyVars, del, clock, envVars, gas, signed>>

\* POST /wallets/:id/sign-transaction
RequestSign(c) ==
    /\ \E t \in Transactions : Arrive(c, "transaction", t, None)
    /\ Goto(c, "load")

ListedContracts == {Lower(a) : a \in apiEnv.contracts}

\* assertEip712Allowed: every dimension is there and listed.
Eip712Allowed(data) ==
    /\ data.domain # None /\ data.domain \in apiEnv.domains
    /\ data.chain # None /\ data.chain \in apiEnv.chains
    /\ data.contract # None /\ Lower(data.contract) \in ListedContracts
    /\ data.primaryType # None /\ data.primaryType \in apiEnv.primaryTypes

\* POST /wallets/:id/sign-typed checks the lists before its first await.
SignEip712(c) ==
    \E data \in TypedData :
       /\ Arrive(c, "typed", None, data)
       /\ Goto(c, IF Eip712Allowed(data) THEN "load" ELSE "denied")

\* POST /wallets/:id/sign-message
SignPersonalMessage(c) ==
    /\ Arrive(c, "personal", None, None)
    /\ Goto(c, IF apiEnv.personal THEN "load" ELSE "denied")

\* Seed and wallet are read together; a stranger's wallet is refused.
LoadWallet(c) ==
    /\ At(c, "load")
    /\ Goto(c, IF OrgOf[wallet[c]] # org[c] THEN "refused"
               ELSE IF kind[c] = "transaction" THEN "evaluate" ELSE "sign_hash")
    /\ UNCHANGED <<policyVars, del, clock, envVars, headerVars, gas, signed>>

\* findByOrgId(orgId, 'active')
FindActive(o) == {policies[p] : p \in {q \in Policies : policies[q].status = "active" /\ policies[q].org = o}}

\* evaluate: one query, then every rule without another await.
EvaluatePolicy(c) ==
    /\ At(c, "evaluate")
    /\ Goto(c, IF Evaluate(FindActive(org[c]), wallet[c], tx[c], clock)
               THEN "audit_allow" ELSE "audit_deny")
    /\ UNCHANGED <<policyVars, del, clock, envVars, headerVars, gas, signed>>

\* The decision is returned once it is in the audit log.
AuditDecision(c) ==
    /\ \/ At(c, "audit_allow") /\ Goto(c, "estimate")
       \/ At(c, "audit_deny") /\ Goto(c, "denied")
    /\ UNCHANGED <<policyVars, del, clock, envVars, headerVars, gas, signed>>

EstimateFees(c) ==
    /\ At(c, "estimate")
    /\ \E g \in Estimates : gas' = [gas EXCEPT ![c] = g]
    /\ Goto(c, "sign_tx")
    /\ UNCHANGED <<policyVars, del, clock, envVars, headerVars, signed>>

(* HandleSignTx: parse, limits, key, signature, in this order.  No answer  *)
(* but the first two depends on the request.                               *)
HandleSignTx(c) ==
    /\ At(c, "sign_tx")
    /\ \/ /\ ~ParseTxFields(tx[c], gas[c])
          /\ Goto(c, "failed")
          /\ UNCHANGED signed
       \/ /\ ParseTxFields(tx[c], gas[c])
          /\ ~ValidateSignTxLimits(signerLimits, tx[c], gas[c])
          /\ Goto(c, "forbidden")
          /\ UNCHANGED signed
       \/ /\ ParseTxFields(tx[c], gas[c])
          /\ ValidateSignTxLimits(signerLimits, tx[c], gas[c])
          /\ Goto(c, "ok")
          /\ signed' = signed \cup {c}
    /\ UNCHANGED <<policyVars, del, clock, envVars, headerVars, gas>>

HandleSignHash(c) ==
    /\ At(c, "sign_hash")
    /\ IF signerLimits.hash
       THEN Goto(c, "audit_hash") /\ signed' = signed \cup {c}
       ELSE Goto(c, "forbidden") /\ UNCHANGED signed
    /\ UNCHANGED <<policyVars, del, clock, envVars, headerVars, gas>>

AuditHash(c) ==
    /\ At(c, "audit_hash")
    /\ Goto(c, "ok")
    /\ UNCHANGED <<policyVars, del, clock, envVars, headerVars, gas, signed>>

\* Database, providers, Vault or sidecar fail under a call, or it dies.
Throws(c) ==
    /\ pc[c] \in Awaits
    /\ Goto(c, "failed")
    /\ UNCHANGED <<policyVars, del, clock, envVars, headerVars, gas, signed>>

Tick ==
    /\ clock < MaxTime
    /\ clock' = clock + 1
    /\ UNCHANGED <<policyVars, del, envVars, pc, headerVars, gas, signed>>

CallStep(c) ==
    \/ RequestSign(c) \/ SignEip712(c) \/ SignPersonalMessage(c)
    \/ LoadWallet(c) \/ EvaluatePolicy(c) \/ AuditDecision(c) \/ EstimateFees(c)
    \/ HandleSignTx(c) \/ HandleSignHash(c) \/ AuditHash(c) \/ Throws(c)

DeleteStep(d) == DeleteFind(d) \/ DeleteUpdate(d) \/ DeleteAudit(d)

Next ==
    \/ \E p \in Policies : CreatePolicy(p)
    \/ \E d \in Deletes : DeleteStep(d)
    \/ \E c \in Calls : CallStep(c)
    \/ Tick

Spec == Init /\ [][Next]_vars

-----------------------------------------------------------------------------
(* The reference: what rules and settings mean for the names they mention, *)
(* however these are spelled.                                              *)

Names(written) == {w.name : w \in written}

CallIsListed(t, entries) ==
    /\ t.data.bytes >= SelectorBytes
    /\ \E e \in entries : e.to.name = t.to.name /\ e.selector.name = t.data.selector.name

Forbids(rule, t, time) ==
    \/ rule.type = "address_blocklist" /\ t.to.name \in Names(rule.addresses)
    \/ /\ rule.type = "address_allowlist"
       /\ rule.addresses # {} /\ t.to.name \notin Names(rule.addresses)
    \/ rule.type = "spend_limit" /\ t.value > rule.max
    \/ /\ rule.type = "calldata_allowlist"
       /\ t.data.bytes > 0 /\ ~CallIsListed(t, rule.entries)
    \/ rule.type = "time_lock" /\ ~(rule.start <= time /\ time <= rule.end)

\* p is there for the wallet of c.
Concerns(p, c) ==
    /\ policies[p].status # "none"
    /\ policies[p].org = org[c]
    /\ AppliesToWallet(policies[p], wallet[c])

\* Nobody of its organization has begun to delete p.
Standing(p) ==
    \A d \in Deletes :
       del[d].target = p => del[d].pc = "idle" \/ del[d].org # policies[p].org

Duration(c) == arrived[c] .. clock

(* A signed transaction obeys, as its author wrote it, every rule that was *)
(* active when the call arrived and that its own organization has not      *)
(* begun to delete: in any spelling of addresses and selectors, for data   *)
(* too short for a selector (which evaluateRule lets pass and the sidecar  *)
(* must catch), at some moment of the call for a time lock, and whatever   *)
(* other organizations create or delete meanwhile.                         *)
SignedIsPermitted ==
    \A c \in signed : kind[c] = "transaction" =>
       \A p \in inforce[c] :
          Concerns(p, c) /\ Standing(p) =>
             \E time \in Duration(c) : ~Forbids(asked[p], tx[c], time)

(* Default deny: a transaction is signed only if its organization had a    *)
(* policy for this wallet at some moment of the call.                      *)
DefaultDeny ==
    \A c \in signed : kind[c] = "transaction" =>
       \E p \in Policies \ retired[c] : Concerns(p, c)

WithinLimits(env, t, g) ==
    /\ t.value > 0 => env.max # Unset /\ t.value <= env.max
    /\ env.chains = {} \/ t.chain \in env.chains
    /\ env.to = {} \/ t.to.name \in Names(env.to)
    /\ t.data.bytes = 0 \/ CallIsListed(t, env.selectors)
    /\ g <= (IF env.gas = Unset THEN DefaultGas ELSE env.gas)

MessageListed(c) ==
    LET data == typed[c]
    IN  IF kind[c] = "personal" THEN apiEnv.personal
        ELSE /\ data.domain \in apiEnv.domains
             /\ data.chain \in apiEnv.chains
             /\ data.contract # None /\ data.contract.name \in Names(apiEnv.contracts)
             /\ data.primaryType \in apiEnv.primaryTypes

(* What the operator's settings do not allow is never signed, for either   *)
(* kind of call: the value limit that is not set allows no value, an empty *)
(* list of selectors no calldata, an empty list of the API no message.     *)
SignedWithinSettings ==
    \A c \in signed :
       IF kind[c] = "transaction" THEN WithinLimits(signerEnv, tx[c], gas[c])
       ELSE MessageListed(c) /\ signerEnv.hash

(* No refusal without a reason: a denied transaction met a rule that       *)
(* forbids it at some moment of the call, or a moment without any policy   *)
(* for its wallet; the sidecar and the message routes refuse only what     *)
(* their settings exclude, in any spelling.                                *)
RefusalIsEarned ==
    \A c \in Calls :
       /\ At(c, "denied") /\ kind[c] = "transaction" =>
             \/ \E p \in Policies \ retired[c] :
                   Concerns(p, c) /\ \E time \in Duration(c) : Forbids(asked[p], tx[c], time)
             \/ \A p \in inforce[c] : Concerns(p, c) => policies[p].status = "inactive"
       /\ At(c, "denied") /\ kind[c] # "transaction" => ~MessageListed(c)
       /\ At(c, "forbidden") =>
             IF kind[c] = "transaction" THEN ~WithinLimits(signerEnv, tx[c], gas[c])
             ELSE ~signerEnv.hash
=============================================================================
