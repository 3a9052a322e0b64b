-------------------------- MODULE SigningGateProofs --------------------------
(***************************************************************************)
(* What SigningGate guarantees for all rules, transactions, environments   *)
(* and any number of policies, deletions and calls.                        *)
(*                                                                         *)
(* The heart is AllowedIsPermitted: what evaluateRule allows on the stored *)
(* rule, the rule as written does not forbid, except for calldata shorter  *)
(* than a selector, which the sidecar refuses (ShortDataStopped).  The     *)
(* invariant carries the decision from the moment of evaluation to the     *)
(* signature (Decided), through all that happens to policies in between.   *)
(***************************************************************************)
EXTENDS SigningGate, TLAPS

RowsAsAsked ==
    \A p \in Policies : policies[p].status # "none" =>
        /\ asked[p] \in RuleConfig
        /\ ValidRule(asked[p])
        /\ policies[p].rule = Normalised(asked[p])

\* Only its own organization's deletion makes a policy inactive.
InactiveByOwner ==
    /\ \A p \in Policies : policies[p].status = "inactive" => ~Standing(p)
    /\ \A d \in Deletes : del[d].pc # "idle" =>
          /\ del[d].target \in Policies
          /\ policies[del[d].target].status # "none"
          /\ del[d].pc = "update" => del[d].org = policies[del[d].target].org

\* The awaits of each route, and what is there from its arrival on.
CallsLocated ==
    \A c \in Calls :
        /\ pc[c] \in {"evaluate", "audit_allow", "audit_deny", "estimate", "sign_tx"}
              => kind[c] = "transaction"
        /\ pc[c] \in {"sign_hash", "audit_hash"} => kind[c] \in {"typed", "personal"}
        /\ c \in signed => pc[c] \in {"audit_hash", "ok", "failed"}
        /\ pc[c] # "idle" => kind[c] # "none"
        /\ pc[c] \in {"load", "sign_hash"} /\ kind[c] # "transaction" => MessageListed(c)
        /\ kind[c] = "transaction" => tx[c] \in Transaction
        /\ kind[c] = "typed" => typed[c] \in TypedData
        /\ arrived[c] <= clock
        /\ \A p \in inforce[c] : policies[p].status # "none"
        /\ \A p \in retired[c] : policies[p].status = "inactive"

Evaluated(c) ==
    \/ pc[c] \in {"audit_allow", "estimate", "sign_tx"}
    \/ c \in signed /\ kind[c] = "transaction"

RulesAllowed(c) ==
    \A p \in inforce[c] :
        Concerns(p, c) /\ Standing(p) =>
            \E time \in Duration(c) : EvaluateRule(policies[p].rule, tx[c], time)

SomePolicy(c) == \E p \in Policies \ retired[c] : Concerns(p, c)

Decided == \A c \in Calls : Evaluated(c) => RulesAllowed(c) /\ SomePolicy(c)

ShortDataStopped ==
    \A c \in signed : kind[c] = "transaction" /\ IsCall(tx[c]) => HasSelector(tx[c])

GateInv ==
    /\ TypeOK
    /\ RowsAsAsked
    /\ InactiveByOwner
    /\ CallsLocated
    /\ Decided
    /\ ShortDataStopped
    /\ SignedWithinSettings
-----------------------------------------------------------------------------
\* Two names are the same in lower case exactly if they are the same name.
LEMMA SameName ==
    ASSUME NEW a \in Written, NEW b \in Written
    PROVE  /\ Lower(a) \in Written
           /\ Lower(a) = Lower(b) <=> a.name = b.name
  BY DEF Written, Lower

\* The list of lower-case spellings has exactly the names of the list.
LEMMA LowerList ==
    ASSUME NEW list \in SUBSET Written, NEW w \in Written
    PROVE  Lower(w) \in {Lower(a) : a \in list} <=> w.name \in Names(list)
  BY SameName DEF Names

LEMMA LowerEntries ==
    ASSUME NEW list \in SUBSET Entry, NEW t \in Transaction
    PROVE  [to |-> Lower(t.to), selector |-> Lower(t.data.selector)]
              \in {[to |-> Lower(e.to), selector |-> Lower(e.selector)] : e \in list}
           <=> \E e \in list : e.to.name = t.to.name /\ e.selector.name = t.data.selector.name
  <1>1. t.to \in Written /\ t.data.selector \in Written
    BY DEF Transaction
  <1>2. \A e \in list : e.to \in Written /\ e.selector \in Written
    BY DEF Entry
  <1>3. \A e \in list :
           [to |-> Lower(t.to), selector |-> Lower(t.data.selector)]
              = [to |-> Lower(e.to), selector |-> Lower(e.selector)]
           <=> e.to.name = t.to.name /\ e.selector.name = t.data.selector.name
    BY <1>1, <1>2, SameName
  <1> QED
    BY <1>3

(* What evaluateRule allows on the stored rule, the rule as it was written *)
(* does not forbid, unless calldata is too short for a selector; and what  *)
(* it denies, the rule as written forbids.                                 *)
LEMMA AllowedIsPermitted ==
    ASSUME NEW rule \in RuleConfig, NEW t \in Transaction, NEW time \in Int,
           ValidRule(rule)
    PROVE  /\ EvaluateRule(Normalised(rule), t, time) /\ (IsCall(t) => HasSelector(t))
                 => ~Forbids(rule, t, time)
           /\ ~EvaluateRule(Normalised(rule), t, time) => Forbids(rule, t, time)
  <1> DEFINE lower == {Lower(a) : a \in rule.addresses}
             calls == {[to |-> Lower(e.to), selector |-> Lower(e.selector)] : e \in rule.entries}
             stored == Normalised(rule)
  <1>1. /\ stored.type = rule.type /\ stored.max = rule.max
        /\ stored.start = rule.start /\ stored.end = rule.end
        /\ stored.addresses = lower /\ stored.entries = calls
    BY DEF Normalised, RuleConfig
  <1>2. t.to \in Written /\ rule.addresses \in SUBSET Written /\ rule.entries \in SUBSET Entry
    BY DEF Transaction, RuleConfig
  <1>3. Lower(t.to) \in lower <=> t.to.name \in Names(rule.addresses)
    BY <1>2, LowerList
  <1>4. lower = {} <=> rule.addresses = {}
    OBVIOUS
  <1>5. Call(t) \in calls <=>
           \E e \in rule.entries : e.to.name = t.to.name /\ e.selector.name = t.data.selector.name
    BY <1>2, LowerEntries DEF Call, Recipient
  <1>6. /\ rule.max \in Nat /\ t.value \in Nat /\ t.data.bytes \in Nat
        /\ rule.start \in Int /\ rule.end \in Int
    BY DEF RuleConfig, Transaction
  <1> HIDE DEF lower, calls, stored
  <1>7. CASE rule.type = "address_blocklist"
    BY <1>1, <1>3, <1>7 DEF EvaluateRule, Forbids, Recipient, stored
  <1>8. CASE rule.type = "address_allowlist"
    BY <1>1, <1>3, <1>4, <1>8 DEF EvaluateRule, Forbids, Recipient, stored
  <1>9. CASE rule.type = "spend_limit"
    BY <1>1, <1>6, <1>9 DEF EvaluateRule, Forbids, stored
  <1>10. CASE rule.type = "calldata_allowlist"
    BY <1>1, <1>5, <1>6, <1>10
       DEF EvaluateRule, Forbids, CallIsListed, IsCall, HasSelector, SelectorBytes, stored
  <1>11. CASE rule.type = "time_lock"
    BY <1>1, <1>6, <1>11 DEF EvaluateRule, Forbids, stored
  <1> QED
    BY <1>7, <1>8, <1>9, <1>10, <1>11 DEF ValidRule

\* The sidecar's checks on the loaded limits are the settings' meaning.
LEMMA LimitsAreSettings ==
    ASSUME NEW env \in Environments, NEW t \in Transaction, NEW g \in Nat
    PROVE  ValidateSignTxLimits(LoadSignerLimits(env.signer), t, g)
              <=> WithinLimits(env.signer, t, g)
  <1> DEFINE e == env.signer
             limits == LoadSignerLimits(e)
  <1>1. /\ e.max \in Nat \cup {Unset} /\ e.gas \in Nat \cup {Unset}
        /\ e.to \in SUBSET Written /\ e.selectors \in SUBSET Entry
        /\ DefaultGas \in Nat /\ Unset \notin Nat /\ NoTo \notin Written
    BY EnvironmentAssumption
  <1>2. t.to \in Written /\ t.to # NoTo /\ t.value \in Nat /\ t.data.bytes \in Nat
    BY <1>1 DEF Transaction
  <1>3. t.value <= limits.max <=> (t.value > 0 => e.max # Unset /\ t.value <= e.max)
    BY <1>1, <1>2 DEF LoadSignerLimits
  <1>4. limits.to # {} <=> e.to # {}
    BY DEF LoadSignerLimits, AllowedTo
  <1>5. Lower(t.to) \in limits.to <=> t.to.name \in Names(e.to)
    BY <1>1, <1>2, LowerList DEF LoadSignerLimits, AllowedTo
  <1>6. [to |-> Lower(t.to), selector |-> Lower(t.data.selector)] \in limits.selectors <=>
           \E x \in e.selectors : x.to.name = t.to.name /\ x.selector.name = t.data.selector.name
    <2>1. limits.selectors = {[to |-> Lower(x.to), selector |-> Lower(x.selector)] : x \in e.selectors}
      BY DEF LoadSignerLimits
    <2> QED
      BY <1>1, <2>1, LowerEntries
  <1>7. /\ limits.chains = e.chains
        /\ limits.gas = IF e.gas = Unset THEN DefaultGas ELSE e.gas
    BY DEF LoadSignerLimits
  <1> HIDE DEF limits, e
  <1> QED
    BY <1>2, <1>3, <1>4, <1>5, <1>6, <1>7
       DEF ValidateSignTxLimits, WithinLimits, CallIsListed, IsCall, HasSelector, SelectorBytes,
           limits, e
-----------------------------------------------------------------------------
(* Steps.  A decision survives a step if its call, the rules it was about  *)
(* and the organizations' deletions do: policies may vanish from force but *)
(* never change, and time only moves on.                                   *)

USE DEF At, Goto

LEMMA GateInit == Init => GateInv
  <1> SUFFICES ASSUME Init PROVE GateInv
    OBVIOUS
  <1> USE DEF Init
  <1>1. TypeOK
    <2>1. policies \in [Policies -> PolicyRow]
      <3>1. NoPolicy \in PolicyRow
        BY DEF PolicyRow, NoPolicy, AppliesTo
      <3> QED
        BY <3>1
    <2>2. del \in [Deletes -> [pc : {"idle", "update", "audit"} \cup Outcomes,
                             org : Orgs \cup {None}, target : Policies \cup {None}]]
      OBVIOUS
    <2> QED
      BY <2>1, <2>2 DEF TypeOK
  <1>2. RowsAsAsked /\ InactiveByOwner
    BY DEF RowsAsAsked, InactiveByOwner, NoPolicy
  <1>3. CallsLocated /\ Decided /\ ShortDataStopped /\ SignedWithinSettings
    BY DEF CallsLocated, Decided, Evaluated, ShortDataStopped, SignedWithinSettings
  <1> QED
    BY <1>1, <1>2, <1>3 DEF GateInv

\* What a decision needs of a step.
LEMMA DecisionStands ==
    ASSUME TypeOK, TypeOK', NEW c \in Calls, Evaluated(c) => RulesAllowed(c) /\ SomePolicy(c),
           Evaluated(c),
           inforce'[c] = inforce[c], retired'[c] = retired[c], arrived'[c] = arrived[c],
           tx'[c] = tx[c], clock <= clock',
           \A q \in inforce[c] : policies'[q].rule = policies[q].rule,
           \A q \in inforce[c] : Concerns(q, c)' => Concerns(q, c),
           \A q \in inforce[c] : Standing(q)' => Standing(q),
           \A q \in Policies : Concerns(q, c) => Concerns(q, c)'
    PROVE  RulesAllowed(c)' /\ SomePolicy(c)'
  <1>1. SomePolicy(c)'
    BY DEF SomePolicy
  <1>2. ASSUME NEW q \in inforce[c], Concerns(q, c)', Standing(q)'
        PROVE  \E time \in Duration(c)' : EvaluateRule(policies'[q].rule, tx'[c], time)
    <2>1. PICK time \in Duration(c) : EvaluateRule(policies[q].rule, tx[c], time)
      BY <1>2 DEF RulesAllowed
    <2>2. time \in Duration(c)'
      BY DEF Duration, TypeOK
    <2> QED
      BY <2>1, <2>2
  <1> QED
    BY <1>1, <1>2 DEF RulesAllowed

LEMMA CreateStep ==
    ASSUME GateInv, NEW p \in Policies, CreatePolicy(p)
    PROVE  GateInv'
  <1> USE DEF CreatePolicy, GateInv, headerVars, envVars
  <1>1. PICK body \in PolicyRequests :
           /\ ValidRule(body.rule)
           /\ policies' = [policies EXCEPT ![p] =
                 [status |-> "active", org |-> body.org, rule |-> Normalised(body.rule),
                  applies_to |-> body.applies_to, target |-> body.target]]
           /\ asked' = [asked EXCEPT ![p] = body.rule]
    OBVIOUS
  <1>2. /\ body.rule \in RuleConfig /\ body.org \in Orgs /\ body.applies_to \in AppliesTo
        /\ body.target \in Wallets \cup {None}
    BY RequestAssumption
  <1>3. Normalised(body.rule) \in RuleConfig
    <2>1. \A w \in Written : Lower(w) \in Written
      BY SameName
    <2>2. {Lower(a) : a \in body.rule.addresses} \in SUBSET Written
      BY <1>2, <2>1 DEF RuleConfig
    <2>3. {[to |-> Lower(e.to), selector |-> Lower(e.selector)] : e \in body.rule.entries} \in SUBSET Entry
      BY <1>2, <2>1 DEF RuleConfig, Entry
    <2> QED
      BY <1>2, <2>2, <2>3 DEF RuleConfig, Normalised
  <1>4. TypeOK'
    <2>1. policies' \in [Policies -> PolicyRow]
      BY <1>1, <1>2, <1>3 DEF TypeOK, PolicyRow
    <2>2. asked' \in [Policies -> RuleConfig \cup {None}]
      BY <1>1, <1>2 DEF TypeOK
    <2> QED
      BY <2>1, <2>2 DEF TypeOK
  <1>5. /\ \A q \in Policies : q # p => policies'[q] = policies[q] /\ asked'[q] = asked[q]
        /\ policies'[p].status = "active" /\ policies[p].status = "none"
        /\ policies'[p].rule = Normalised(body.rule) /\ asked'[p] = body.rule
    BY <1>1 DEF TypeOK
  <1>6. RowsAsAsked'
    BY <1>1, <1>2, <1>5 DEF RowsAsAsked
  <1>7. InactiveByOwner'
    BY <1>5 DEF InactiveByOwner, Standing, TypeOK
  <1>8. CallsLocated'
    BY <1>5 DEF CallsLocated, MessageListed, TypeOK
  <1>9. Decided'
    <2> SUFFICES ASSUME NEW c \in Calls, Evaluated(c)'
                 PROVE  RulesAllowed(c)' /\ SomePolicy(c)'
      BY DEF Decided
    <2>1. Evaluated(c)
      BY DEF Evaluated
    <2>2. \A q \in inforce[c] : q \in Policies /\ q # p
      BY <1>5 DEF CallsLocated, TypeOK
    <2>3. \A q \in Policies : q # p =>
             (Concerns(q, c)' <=> Concerns(q, c)) /\ (Standing(q)' <=> Standing(q))
      BY <1>5 DEF Concerns, Standing
    <2>4. ~Concerns(p, c)
      BY <1>5 DEF Concerns
    <2>5. /\ inforce'[c] = inforce[c] /\ retired'[c] = retired[c] /\ arrived'[c] = arrived[c]
          /\ tx'[c] = tx[c] /\ clock <= clock'
      BY DEF TypeOK
    <2>6. \A q \in inforce[c] : policies'[q].rule = policies[q].rule
      BY <1>5, <2>2
    <2>7. Evaluated(c) => RulesAllowed(c) /\ SomePolicy(c)
      BY DEF Decided
    <2> QED
      BY <1>4, <2>1, <2>2, <2>3, <2>4, <2>5, <2>6, <2>7, DecisionStands
  <1>10. ShortDataStopped' /\ SignedWithinSettings'
    BY DEF ShortDataStopped, SignedWithinSettings, MessageListed
  <1> QED
    BY <1>4, <1>6, <1>7, <1>8, <1>9, <1>10

LEMMA DeleteSteps ==
    ASSUME GateInv, NEW d \in Deletes, DeleteStep(d)
    PROVE  GateInv'
  <1> USE DEF GateInv, headerVars, envVars, policyVars
  <1>1. /\ UNCHANGED <<asked, clock, envVars, pc, headerVars, gas, signed>>
        /\ \A e \in Deletes : e # d => del'[e] = del[e]
    BY DEF DeleteStep, DeleteFind, DeleteUpdate, DeleteAudit, TypeOK
  <1>2. TypeOK'
    <2>1. CASE DeleteFind(d)
      BY <1>1, <2>1 DEF DeleteFind, TypeOK, Outcomes
    <2>2. CASE DeleteUpdate(d)
      <3>1. del[d].target \in Policies
        BY <2>2 DEF DeleteUpdate, InactiveByOwner
      <3>2. policies' \in [Policies -> PolicyRow]
        <4>1. \A row \in PolicyRow : [row EXCEPT !.status = "inactive"] \in PolicyRow
          BY DEF PolicyRow
        <4>2. policies' = [policies EXCEPT ![del[d].target] =
                             [policies[del[d].target] EXCEPT !.status = "inactive"]]
          BY <2>2 DEF DeleteUpdate
        <4> QED
          BY <3>1, <4>1, <4>2 DEF TypeOK
      <3>3. del' \in [Deletes -> [pc : {"idle", "update", "audit"} \cup Outcomes,
                               org : Orgs \cup {None}, target : Policies \cup {None}]]
        BY <2>2 DEF DeleteUpdate, TypeOK
      <3> QED
        BY <1>1, <3>2, <3>3 DEF TypeOK
    <2>3. CASE DeleteAudit(d)
      BY <1>1, <2>3 DEF DeleteAudit, TypeOK, Outcomes
    <2> QED
      BY <2>1, <2>2, <2>3 DEF DeleteStep
  <1>3. \A q \in Policies :
           /\ policies'[q].org = policies[q].org /\ policies'[q].rule = policies[q].rule
           /\ policies'[q].applies_to = policies[q].applies_to
           /\ policies'[q].target = policies[q].target
           /\ policies'[q].status = "none" <=> policies[q].status = "none"
           /\ policies[q].status = "inactive" => policies'[q].status = "inactive"
           /\ Standing(q)' => Standing(q)
           /\ policies'[q].status = "inactive" /\ policies[q].status # "inactive"
                 => DeleteUpdate(d) /\ q = del[d].target
    <2>1. CASE DeleteFind(d)
      BY <1>1, <2>1 DEF DeleteFind, Standing, TypeOK
    <2>2. CASE DeleteUpdate(d)
      <3>1. /\ del[d].target \in Policies /\ policies[del[d].target].status # "none"
            /\ del'[d].target = del[d].target /\ del'[d].org = del[d].org
            /\ del[d].pc # "idle" /\ del'[d].pc # "idle"
            /\ policies' = [policies EXCEPT ![del[d].target].status = "inactive"]
        BY <2>2 DEF DeleteUpdate, InactiveByOwner, TypeOK
      <3>2. \A q \in Policies :
               /\ policies'[q].org = policies[q].org /\ policies'[q].rule = policies[q].rule
               /\ policies'[q].applies_to = policies[q].applies_to
               /\ policies'[q].target = policies[q].target
               /\ policies'[q].status = IF q = del[d].target THEN "inactive" ELSE policies[q].status
        BY <3>1 DEF TypeOK, PolicyRow
      <3>3. \A q \in Policies : Standing(q)' => Standing(q)
        BY <1>1, <3>1, <3>2 DEF Standing
      <3> QED
        BY <2>2, <3>1, <3>2, <3>3
    <2>3. CASE DeleteAudit(d)
      BY <1>1, <2>3 DEF DeleteAudit, Standing, TypeOK
    <2> QED
      BY <2>1, <2>2, <2>3 DEF DeleteStep
  <1>4. RowsAsAsked'
    BY <1>1, <1>3 DEF RowsAsAsked
  <1>5. InactiveByOwner'
    <2>1. ASSUME NEW q \in Policies, policies'[q].status = "inactive"
          PROVE  ~Standing(q)'
      <3>1. CASE policies[q].status = "inactive"
        BY <1>3, <3>1 DEF InactiveByOwner
      <3>2. CASE policies[q].status # "inactive"
        <4>1. DeleteUpdate(d) /\ q = del[d].target
          BY <1>3, <2>1, <3>2
        <4>2. del'[d].target = q /\ del'[d].pc = "audit" /\ del'[d].org = policies'[q].org
          BY <1>3, <4>1 DEF DeleteUpdate, InactiveByOwner, TypeOK
        <4> QED
          BY <4>2 DEF Standing
      <3> QED
        BY <3>1, <3>2
    <2>2. ASSUME NEW e \in Deletes, del'[e].pc # "idle"
          PROVE  /\ del'[e].target \in Policies
                 /\ policies'[del'[e].target].status # "none"
                 /\ del'[e].pc = "update" => del'[e].org = policies'[del'[e].target].org
      <3>1. CASE e # d
        BY <1>1, <1>3, <2>2, <3>1 DEF InactiveByOwner
      <3>2. CASE e = d /\ DeleteFind(d)
        BY <1>3, <2>2, <3>2 DEF DeleteFind, MayDelete, TypeOK
      <3>3. CASE e = d /\ (DeleteUpdate(d) \/ DeleteAudit(d))
        <4>1. /\ del[d].pc # "idle" /\ del'[d].target = del[d].target
              /\ del'[d].pc # "update"
          BY <3>3 DEF DeleteUpdate, DeleteAudit, TypeOK
        <4> QED
          BY <1>3, <3>3, <4>1 DEF InactiveByOwner
      <3> QED
        BY <3>1, <3>2, <3>3 DEF DeleteStep
    <2> QED
      BY <2>1, <2>2 DEF InactiveByOwner
  <1>6. CallsLocated'
    BY <1>1, <1>3 DEF CallsLocated, MessageListed, TypeOK
  <1>7. Decided'
    <2> SUFFICES ASSUME NEW c \in Calls, Evaluated(c)'
                 PROVE  RulesAllowed(c)' /\ SomePolicy(c)'
      BY DEF Decided
    <2>1. Evaluated(c)
      BY <1>1 DEF Evaluated
    <2>2. \A q \in Policies : Concerns(q, c)' <=> Concerns(q, c)
      BY <1>1, <1>3 DEF Concerns, AppliesToWallet
    <2>3. inforce[c] \subseteq Policies
      BY DEF TypeOK
    <2>4. /\ inforce'[c] = inforce[c] /\ retired'[c] = retired[c] /\ arrived'[c] = arrived[c]
          /\ tx'[c] = tx[c] /\ clock <= clock'
      BY <1>1 DEF TypeOK
    <2>5. Evaluated(c) => RulesAllowed(c) /\ SomePolicy(c)
      BY DEF Decided
    <2> QED
      BY <1>2, <1>3, <2>1, <2>2, <2>3, <2>4, <2>5, DecisionStands
  <1>8. ShortDataStopped' /\ SignedWithinSettings'
    BY <1>1 DEF ShortDataStopped, SignedWithinSettings, MessageListed
  <1> QED
    BY <1>2, <1>4, <1>5, <1>6, <1>7, <1>8

LEMMA TickStep ==
    ASSUME GateInv, Tick
    PROVE  GateInv'
  <1> USE DEF GateInv, Tick, headerVars, envVars, policyVars
  <1>1. TypeOK' /\ clock <= clock'
    BY DEF TypeOK
  <1>2. RowsAsAsked' /\ InactiveByOwner'
    BY DEF RowsAsAsked, InactiveByOwner, Standing
  <1>3. CallsLocated'
    BY DEF CallsLocated, MessageListed, TypeOK
  <1>4. Decided'
    <2> SUFFICES ASSUME NEW c \in Calls, Evaluated(c)'
                 PROVE  RulesAllowed(c)' /\ SomePolicy(c)'
      BY DEF Decided
    <2>1. Evaluated(c)
      BY DEF Evaluated
    <2>2. \A q : (Concerns(q, c)' <=> Concerns(q, c)) /\ (Standing(q)' <=> Standing(q))
      BY DEF Concerns, Standing
    <2> QED
      BY <1>1, <2>1, <2>2, DecisionStands DEF Decided
  <1>5. ShortDataStopped' /\ SignedWithinSettings'
    BY DEF ShortDataStopped, SignedWithinSettings, MessageListed
  <1> QED
    BY <1>1, <1>2, <1>3, <1>4, <1>5

\* A step of call c that changes only where it stands.
LEMMA PcStep ==
    ASSUME GateInv, NEW c \in Calls,
           LoadWallet(c) \/ AuditDecision(c) \/ AuditHash(c) \/ Throws(c)
    PROVE  GateInv'
  <1> USE DEF GateInv, headerVars, envVars, policyVars,
              LoadWallet, AuditDecision, AuditHash, Throws
  <1>1. /\ UNCHANGED <<policyVars, del, clock, envVars, headerVars, gas, signed>>
        /\ \A e \in Calls : e # c => pc'[e] = pc[e]
        /\ pc[c] \in Awaits
    BY DEF TypeOK, Awaits
  <1>2. TypeOK'
    <2>1. pc' \in [Calls -> {"idle"} \cup Awaits \cup Outcomes]
      BY DEF TypeOK, Awaits, Outcomes
    <2> QED
      BY <1>1, <2>1 DEF TypeOK
  <1>3. RowsAsAsked' /\ InactiveByOwner'
    BY <1>1 DEF RowsAsAsked, InactiveByOwner, Standing
  <1>4. CallsLocated'
    BY <1>1 DEF CallsLocated, MessageListed, TypeOK, Awaits
  <1>5. Decided'
    <2> SUFFICES ASSUME NEW e \in Calls, Evaluated(e)'
                 PROVE  RulesAllowed(e)' /\ SomePolicy(e)'
      BY DEF Decided
    <2>1. Evaluated(e)
      BY <1>1 DEF Evaluated, TypeOK, CallsLocated
    <2> QED
      BY <1>1, <2>1 DEF Decided, RulesAllowed, SomePolicy, Concerns, Standing, Duration
  <1>6. ShortDataStopped' /\ SignedWithinSettings'
    BY <1>1 DEF ShortDataStopped, SignedWithinSettings, MessageListed
  <1> QED
    BY <1>2, <1>3, <1>4, <1>5, <1>6

LEMMA EstimateStep ==
    ASSUME GateInv, NEW c \in Calls, EstimateFees(c)
    PROVE  GateInv'
  <1> USE DEF GateInv, headerVars, envVars, policyVars, EstimateFees
  <1>1. /\ UNCHANGED <<policyVars, del, clock, envVars, headerVars, signed>>
        /\ \A e \in Calls : e # c => pc'[e] = pc[e] /\ gas'[e] = gas[e]
        /\ pc[c] = "estimate" /\ pc'[c] = "sign_tx"
    BY DEF TypeOK
  <1>2. TypeOK'
    <2>1. /\ pc' \in [Calls -> {"idle"} \cup Awaits \cup Outcomes]
          /\ gas' \in [Calls -> Nat]
      BY RequestAssumption DEF TypeOK, Awaits
    <2> QED
      BY <1>1, <2>1 DEF TypeOK
  <1>3. RowsAsAsked' /\ InactiveByOwner'
    BY <1>1 DEF RowsAsAsked, InactiveByOwner, Standing
  <1>4. CallsLocated'
    BY <1>1 DEF CallsLocated, MessageListed, TypeOK
  <1>5. Decided'
    <2> SUFFICES ASSUME NEW e \in Calls, Evaluated(e)'
                 PROVE  RulesAllowed(e)' /\ SomePolicy(e)'
      BY DEF Decided
    <2>1. Evaluated(e)
      BY <1>1 DEF Evaluated, TypeOK
    <2> QED
      BY <1>1, <2>1 DEF Decided, RulesAllowed, SomePolicy, Concerns, Standing, Duration
  <1>6. ShortDataStopped'
    BY <1>1 DEF ShortDataStopped
  <1>7. c \notin signed
    BY <1>1 DEF CallsLocated
  <1>8. SignedWithinSettings'
    BY <1>1, <1>7 DEF SignedWithinSettings, MessageListed, TypeOK
  <1> QED
    BY <1>2, <1>3, <1>4, <1>5, <1>6, <1>8

\* The decision: every rule the query returns allows, and there is one.
LEMMA EvaluateStep ==
    ASSUME GateInv, NEW c \in Calls, EvaluatePolicy(c)
    PROVE  GateInv'
  <1> USE DEF GateInv, headerVars, envVars, policyVars, EvaluatePolicy
  <1>1. /\ UNCHANGED <<policyVars, del, clock, envVars, headerVars, gas, signed>>
        /\ \A e \in Calls : e # c => pc'[e] = pc[e]
        /\ pc[c] = "evaluate" /\ pc'[c] \in {"audit_allow", "audit_deny"}
    BY DEF TypeOK
  <1>2. TypeOK'
    <2>1. pc' \in [Calls -> {"idle"} \cup Awaits \cup Outcomes]
      BY DEF TypeOK, Awaits
    <2> QED
      BY <1>1, <2>1 DEF TypeOK
  <1>3. RowsAsAsked' /\ InactiveByOwner'
    BY <1>1 DEF RowsAsAsked, InactiveByOwner, Standing
  <1>4. CallsLocated'
    BY <1>1 DEF CallsLocated, MessageListed, TypeOK
  <1>5. ASSUME pc'[c] = "audit_allow"
        PROVE  RulesAllowed(c) /\ SomePolicy(c)
    <2>1. Evaluate(FindActive(org[c]), wallet[c], tx[c], clock)
      BY <1>5 DEF TypeOK
    <2>2. ASSUME NEW p \in Policies, policies[p].status = "active", Concerns(p, c)
          PROVE  EvaluateRule(policies[p].rule, tx[c], clock)
      BY <2>1, <2>2 DEF Evaluate, FindActive, Concerns
    <2>3. clock \in Duration(c)
      BY DEF Duration, CallsLocated, TypeOK
    <2>4. RulesAllowed(c)
      <3> SUFFICES ASSUME NEW p \in inforce[c], Concerns(p, c), Standing(p)
                   PROVE  \E time \in Duration(c) : EvaluateRule(policies[p].rule, tx[c], time)
        BY DEF RulesAllowed
      <3>1. p \in Policies
        BY DEF TypeOK
      <3>2. policies[p].status # "none"
        BY DEF CallsLocated
      <3>3. policies[p].status # "inactive"
        BY <3>1 DEF InactiveByOwner
      <3>4. policies[p] \in PolicyRow
        BY <3>1 DEF TypeOK
      <3>5. policies[p].status = "active"
        BY <3>2, <3>3, <3>4 DEF PolicyRow
      <3> QED
        BY <2>2, <2>3, <3>1, <3>5
    <2>5. SomePolicy(c)
      <3>1. PICK p \in Policies :
               /\ policies[p].status = "active" /\ policies[p].org = org[c]
               /\ AppliesToWallet(policies[p], wallet[c])
        BY <2>1 DEF Evaluate, FindActive
      <3>2. p \notin retired[c]
        BY <1>1, <3>1 DEF CallsLocated
      <3> QED
        BY <3>1, <3>2 DEF SomePolicy, Concerns
    <2> QED
      BY <2>4, <2>5
  <1>6. Decided'
    <2> SUFFICES ASSUME NEW e \in Calls, Evaluated(e)'
                 PROVE  RulesAllowed(e)' /\ SomePolicy(e)'
      BY DEF Decided
    <2>1. RulesAllowed(e) /\ SomePolicy(e)
      <3>1. CASE e # c
        BY <1>1, <3>1 DEF Decided, Evaluated
      <3>2. CASE e = c /\ c \in signed
        BY <1>1, <3>2 DEF CallsLocated
      <3>3. CASE e = c /\ c \notin signed
        BY <1>1, <1>5, <3>3 DEF Evaluated
      <3> QED
        BY <3>1, <3>2, <3>3
    <2> QED
      BY <1>1, <2>1 DEF RulesAllowed, SomePolicy, Concerns, Standing, Duration
  <1>7. ShortDataStopped' /\ SignedWithinSettings'
    BY <1>1 DEF ShortDataStopped, SignedWithinSettings, MessageListed
  <1> QED
    BY <1>2, <1>3, <1>4, <1>6, <1>7

\* The sidecar: what it signs is within its settings and not too short.
LEMMA SignStep ==
    ASSUME GateInv, NEW c \in Calls, HandleSignTx(c) \/ HandleSignHash(c)
    PROVE  GateInv'
  <1> USE DEF GateInv, headerVars, envVars, policyVars
  <1>1. /\ UNCHANGED <<policyVars, del, clock, envVars, headerVars, gas>>
        /\ \A e \in Calls : e # c => pc'[e] = pc[e]
        /\ pc[c] \in {"sign_tx", "sign_hash"}
        /\ pc'[c] \in {"ok", "failed", "forbidden", "audit_hash"}
        /\ pc'[c] = "audit_hash" => pc[c] = "sign_hash"
        /\ signed' \in {signed, signed \cup {c}}
        /\ c \in signed' => c \in signed \/ pc'[c] \in {"ok", "audit_hash"}
    BY DEF TypeOK, HandleSignTx, HandleSignHash
  <1>2. c \notin signed
    BY <1>1 DEF CallsLocated
  <1>3. TypeOK'
    <2>1. pc' \in [Calls -> {"idle"} \cup Awaits \cup Outcomes]
      BY DEF TypeOK, Awaits, Outcomes, HandleSignTx, HandleSignHash
    <2> QED
      BY <1>1, <2>1 DEF TypeOK
  <1>4. RowsAsAsked' /\ InactiveByOwner'
    BY <1>1 DEF RowsAsAsked, InactiveByOwner, Standing
  <1>5. CallsLocated'
    BY <1>1, <1>2 DEF CallsLocated, MessageListed, TypeOK
  <1>6. Decided'
    <2> SUFFICES ASSUME NEW e \in Calls, Evaluated(e)'
                 PROVE  RulesAllowed(e)' /\ SomePolicy(e)'
      BY DEF Decided
    <2>1. Evaluated(e)
      <3>1. CASE e # c
        BY <1>1, <3>1 DEF Evaluated
      <3>2. CASE e = c
        BY <1>1, <1>2, <3>2 DEF Evaluated, CallsLocated
      <3> QED
        BY <3>1, <3>2
    <2> QED
      BY <1>1, <2>1 DEF Decided, RulesAllowed, SomePolicy, Concerns, Standing, Duration
  <1>7. ASSUME c \in signed', kind[c] = "transaction"
        PROVE  /\ IsCall(tx[c]) => HasSelector(tx[c])
               /\ WithinLimits(signerEnv, tx[c], gas[c])
    <2>1. pc[c] = "sign_tx"
      BY <1>1, <1>7 DEF CallsLocated
    <2>2. ValidateSignTxLimits(signerLimits, tx[c], gas[c])
      BY <1>2, <1>7, <2>1 DEF HandleSignTx, HandleSignHash
    <2>3. PICK env \in Environments : signerEnv = env.signer
      BY DEF TypeOK
    <2>4. tx[c] \in Transaction /\ gas[c] \in Nat
      BY <1>7 DEF CallsLocated, TypeOK
    <2>5. IsCall(tx[c]) => HasSelector(tx[c])
      BY <2>2 DEF ValidateSignTxLimits
    <2> QED
      BY <2>2, <2>3, <2>4, <2>5, LimitsAreSettings DEF signerLimits
  <1>8. ASSUME c \in signed', kind[c] # "transaction"
        PROVE  MessageListed(c) /\ signerEnv.hash
    <2>1. pc[c] = "sign_hash"
      BY <1>1, <1>8 DEF CallsLocated
    <2>2. signerLimits.hash
      BY <1>2, <1>8, <2>1 DEF HandleSignTx, HandleSignHash
    <2> QED
      BY <1>8, <2>1, <2>2 DEF CallsLocated, signerLimits, LoadSignerLimits
  <1>9. ShortDataStopped'
    BY <1>1, <1>7 DEF ShortDataStopped
  <1>10. SignedWithinSettings'
    BY <1>1, <1>7, <1>8 DEF SignedWithinSettings, MessageListed
  <1> QED
    BY <1>3, <1>4, <1>5, <1>6, <1>9, <1>10

\* A call arrives, on any of the three routes.
LEMMA ArriveStep ==
    ASSUME GateInv, NEW c \in Calls,
           RequestSign(c) \/ SignEip712(c) \/ SignPersonalMessage(c)
    PROVE  GateInv'
  <1> USE DEF GateInv, envVars, policyVars
  <1>1. PICK k, body, data :
           /\ Arrive(c, k, body, data)
           /\ pc' = [pc EXCEPT ![c] = pc'[c]] /\ pc'[c] \in {"load", "denied"}
           /\ \/ k = "transaction" /\ body \in Transactions /\ data = None
              \/ /\ k = "typed" /\ body = None /\ data \in TypedData
                 /\ pc'[c] = "load" => Eip712Allowed(data)
              \/ /\ k = "personal" /\ body = None /\ data = None
                 /\ pc'[c] = "load" => apiEnv.personal
    BY DEF TypeOK, RequestSign, SignEip712, SignPersonalMessage
  <1>2. /\ UNCHANGED <<policyVars, del, clock, envVars, gas, signed>>
        /\ pc[c] = "idle" /\ kind'[c] = k /\ tx'[c] = body /\ typed'[c] = data
        /\ arrived'[c] = clock
        /\ inforce'[c] = {p \in Policies : policies[p].status = "active"}
        /\ retired'[c] = {p \in Policies : policies[p].status = "inactive"}
        /\ \A e \in Calls : e # c =>
              /\ pc'[e] = pc[e] /\ kind'[e] = kind[e] /\ org'[e] = org[e]
              /\ wallet'[e] = wallet[e] /\ tx'[e] = tx[e] /\ typed'[e] = typed[e]
              /\ arrived'[e] = arrived[e] /\ inforce'[e] = inforce[e] /\ retired'[e] = retired[e]
    BY <1>1 DEF Arrive, TypeOK
  <1>3. TypeOK'
    <2>1. /\ pc' \in [Calls -> {"idle"} \cup Awaits \cup Outcomes]
          /\ kind' \in [Calls -> {"none", "transaction", "typed", "personal"}]
      BY <1>1 DEF Arrive, TypeOK, Awaits, Outcomes
    <2>2. org' \in [Calls -> Orgs \cup {None}] /\ wallet' \in [Calls -> Wallets \cup {None}]
      BY <1>1 DEF Arrive, TypeOK
    <2>3. tx' \in [Calls -> Transaction \cup {None}] /\ typed' \in [Calls -> TypedData \cup {None}]
      BY <1>1, RequestAssumption DEF Arrive, TypeOK
    <2>4. /\ arrived' \in [Calls -> Nat]
          /\ inforce' \in [Calls -> SUBSET Policies] /\ retired' \in [Calls -> SUBSET Policies]
      BY <1>1 DEF Arrive, TypeOK
    <2> QED
      BY <1>2, <2>1, <2>2, <2>3, <2>4 DEF TypeOK
  <1>4. RowsAsAsked' /\ InactiveByOwner'
    BY <1>2 DEF RowsAsAsked, InactiveByOwner, Standing
  <1>5. c \notin signed
    BY <1>2 DEF CallsLocated
  <1>6. ASSUME k # "transaction", pc'[c] = "load"
        PROVE  MessageListed(c)'
    <2>1. CASE k = "personal"
      BY <1>1, <1>2, <1>6, <2>1 DEF MessageListed
    <2>2. CASE k = "typed"
      <3>1. Eip712Allowed(data)
        BY <1>1, <1>6, <2>2
      <3>2. PICK a \in apiEnv.contracts : Lower(data.contract) = Lower(a)
        BY <3>1 DEF Eip712Allowed, ListedContracts
      <3>3. data.contract.name \in Names(apiEnv.contracts)
        <4>1. data.contract \in Written
          BY <2>2, <3>1, <1>1, RequestAssumption DEF Eip712Allowed
        <4>2. a \in Written
          BY EnvironmentAssumption DEF TypeOK
        <4> QED
          BY <3>2, <4>1, <4>2, SameName DEF Names
      <3> QED
        BY <1>2, <2>2, <3>1, <3>3 DEF MessageListed, Eip712Allowed
    <2> QED
      BY <1>1, <1>6, <2>1, <2>2
  <1>7. CallsLocated'
    <2> SUFFICES ASSUME NEW e \in Calls
                 PROVE  (/\ pc[e] \in {"evaluate", "audit_allow", "audit_deny", "estimate", "sign_tx"}
                               => kind[e] = "transaction"
                         /\ pc[e] \in {"sign_hash", "audit_hash"} => kind[e] \in {"typed", "personal"}
                         /\ e \in signed => pc[e] \in {"audit_hash", "ok", "failed"}
                         /\ pc[e] # "idle" => kind[e] # "none"
                         /\ pc[e] \in {"load", "sign_hash"} /\ kind[e] # "transaction" => MessageListed(e)
                         /\ kind[e] = "transaction" => tx[e] \in Transaction
                         /\ kind[e] = "typed" => typed[e] \in TypedData
                         /\ arrived[e] <= clock
                         /\ \A p \in inforce[e] : policies[p].status # "none"
                         /\ \A p \in retired[e] : policies[p].status = "inactive")'
      BY DEF CallsLocated
    <2>1. CASE e # c
      BY <1>2, <2>1 DEF CallsLocated, MessageListed
    <2>2. CASE e = c
      BY <1>1, <1>2, <1>5, <1>6, <2>2, RequestAssumption DEF TypeOK
    <2> QED
      BY <2>1, <2>2
  <1>8. Decided'
    <2> SUFFICES ASSUME NEW e \in Calls, Evaluated(e)'
                 PROVE  RulesAllowed(e)' /\ SomePolicy(e)'
      BY DEF Decided
    <2>1. e # c /\ Evaluated(e)
      BY <1>1, <1>2, <1>5 DEF Evaluated
    <2> QED
      BY <1>2, <2>1 DEF Decided, RulesAllowed, SomePolicy, Concerns, Standing, Duration
  <1>9. ShortDataStopped' /\ SignedWithinSettings'
    <2>1. \A e \in signed : e \in Calls /\ e # c
      BY <1>5 DEF TypeOK
    <2> QED
      BY <1>2, <2>1 DEF ShortDataStopped, SignedWithinSettings, MessageListed
  <1> QED
    BY <1>3, <1>4, <1>7, <1>8, <1>9

(* The inductive invariant of calls, policies and deletions: rows hold the *)
(* normalised rule their creator wrote, and a call past evaluate carries   *)
(* what evaluate found (PolicyService, HandleSignTx).                      *)
THEOREM GateInvariant == Spec => []GateInv
  <1>1. GateInv /\ [Next]_vars => GateInv'
    <2> SUFFICES ASSUME GateInv, [Next]_vars PROVE GateInv'
      OBVIOUS
    <2>1. CASE UNCHANGED vars
      BY <2>1 DEF vars, policyVars, headerVars, envVars, GateInv, TypeOK, RowsAsAsked,
                  InactiveByOwner, Standing, CallsLocated, MessageListed, Decided, Evaluated,
                  RulesAllowed, SomePolicy, Concerns, Duration, ShortDataStopped,
                  SignedWithinSettings
    <2>2. CASE \E p \in Policies : CreatePolicy(p)
      BY <2>2, CreateStep
    <2>3. CASE \E d \in Deletes : DeleteStep(d)
      BY <2>3, DeleteSteps
    <2>4. CASE \E c \in Calls : CallStep(c)
      BY <2>4, ArriveStep, PcStep, EvaluateStep, EstimateStep, SignStep DEF CallStep
    <2>5. CASE Tick
      BY <2>5, TickStep
    <2> QED
      BY <2>1, <2>2, <2>3, <2>4, <2>5 DEF Next
  <1> QED
    BY <1>1, GateInit, PTL DEF Spec

(* Whatever policies are created and deleted while calls run, a signed     *)
(* transaction obeys every rule that was in force when it arrived and that *)
(* its organization did not begin to delete, as the rule was written.      *)
THEOREM SignedIsAlwaysPermitted == Spec => []SignedIsPermitted
  <1>1. GateInv => SignedIsPermitted
    <2> SUFFICES ASSUME GateInv, NEW c \in signed, kind[c] = "transaction",
                        NEW p \in inforce[c], Concerns(p, c), Standing(p)
                 PROVE  \E time \in Duration(c) : ~Forbids(asked[p], tx[c], time)
      BY DEF SignedIsPermitted
    <2>1. c \in Calls /\ p \in Policies /\ tx[c] \in Transaction
      BY DEF GateInv, TypeOK, CallsLocated
    <2>2. PICK time \in Duration(c) : EvaluateRule(policies[p].rule, tx[c], time)
      BY <2>1 DEF GateInv, Decided, Evaluated, RulesAllowed
    <2>3. time \in Int
      BY <2>1 DEF GateInv, TypeOK, Duration
    <2>4. /\ asked[p] \in RuleConfig /\ ValidRule(asked[p])
          /\ policies[p].rule = Normalised(asked[p])
      BY <2>1 DEF GateInv, RowsAsAsked, Concerns
    <2>5. IsCall(tx[c]) => HasSelector(tx[c])
      BY DEF GateInv, ShortDataStopped
    <2> QED
      BY <2>1, <2>2, <2>3, <2>4, <2>5, AllowedIsPermitted
  <1> QED
    BY <1>1, GateInvariant, PTL

(* Default deny: no transaction is signed unless its organization had a    *)
(* policy for the wallet while the call ran.                               *)
THEOREM NothingSignedByDefault == Spec => []DefaultDeny
  <1>1. GateInv => DefaultDeny
    BY DEF GateInv, TypeOK, Decided, Evaluated, SomePolicy, DefaultDeny
  <1> QED
    BY <1>1, GateInvariant, PTL

(* Nothing the sidecar's or the API's settings exclude is ever signed.     *)
THEOREM SettingsAreKept == Spec => []SignedWithinSettings
  <1>1. GateInv => SignedWithinSettings
    BY DEF GateInv
  <1> QED
    BY <1>1, GateInvariant, PTL

-----------------------------------------------------------------------------
(* Refusals.  RefusalIsEarned speaks of a call that was denied; the denial *)
(* is decided one await earlier, so the invariant speaks of both.          *)

EarnedDenial(c) ==
    \/ \E p \in Policies \ retired[c] :
          Concerns(p, c) /\ \E time \in Duration(c) : Forbids(asked[p], tx[c], time)
    \/ \A p \in inforce[c] : Concerns(p, c) => policies[p].status = "inactive"

RefusedRightly(c) ==
    /\ pc[c] \in {"audit_deny", "denied"} /\ kind[c] = "transaction" => EarnedDenial(c)
    /\ pc[c] = "denied" /\ kind[c] # "transaction" => ~MessageListed(c)
    /\ pc[c] = "forbidden" =>
          IF kind[c] = "transaction" THEN ~WithinLimits(signerEnv, tx[c], gas[c])
          ELSE ~signerEnv.hash

RefusalInv == \A c \in Calls : RefusedRightly(c)

\* What every step leaves of policies, settings and time.
Evolves ==
    /\ \A p \in Policies : policies[p].status # "none" =>
          /\ asked'[p] = asked[p]
          /\ policies'[p].org = policies[p].org
          /\ policies'[p].applies_to = policies[p].applies_to
          /\ policies'[p].target = policies[p].target
          /\ policies'[p].status \in {policies[p].status, "inactive"}
    /\ clock' \in Nat /\ clock <= clock'
    /\ UNCHANGED envVars

LEMMA StepEvolves == GateInv /\ [Next]_vars => Evolves
  <1> SUFFICES ASSUME GateInv, [Next]_vars
               PROVE  Evolves
    OBVIOUS
  <1> USE DEF GateInv, TypeOK, Evolves
  <1>1. ASSUME NEW p \in Policies, CreatePolicy(p)
        PROVE  Evolves
    BY <1>1 DEF CreatePolicy
  <1>2. ASSUME NEW d \in Deletes, DeleteUpdate(d)
        PROVE  Evolves
    <2>1. del[d].target \in Policies
      BY <1>2 DEF DeleteUpdate, InactiveByOwner
    <2>2. \A p \in Policies : policies[p] \in PolicyRow
      OBVIOUS
    <2> QED
      BY <1>2, <2>1, <2>2 DEF DeleteUpdate, PolicyRow
  <1>3. ASSUME NEW d \in Deletes, DeleteFind(d) \/ DeleteAudit(d)
        PROVE  Evolves
    BY <1>3 DEF DeleteFind, DeleteAudit, policyVars
  <1>4. ASSUME NEW c \in Calls, CallStep(c)
        PROVE  Evolves
    BY <1>4 DEF CallStep, RequestSign, SignEip712, SignPersonalMessage, Arrive,
                LoadWallet, EvaluatePolicy, AuditDecision, EstimateFees,
                HandleSignTx, HandleSignHash, AuditHash, Throws, policyVars
  <1>5. CASE Tick
    BY <1>5 DEF Tick, policyVars
  <1>6. CASE UNCHANGED vars
    BY <1>6 DEF vars, policyVars
  <1> QED
    BY <1>1, <1>2, <1>3, <1>4, <1>5, <1>6 DEF Next, DeleteStep

\* A reason for a refusal never goes away.
LEMMA RefusalKept ==
    ASSUME GateInv, Evolves, NEW c \in Calls, RefusedRightly(c),
           UNCHANGED <<kind[c], org[c], wallet[c], tx[c], typed[c], arrived[c],
                       inforce[c], retired[c]>>,
           pc'[c] \in {"audit_deny", "denied"} => pc[c] \in {"audit_deny", "denied"},
           pc'[c] = "forbidden" => pc[c] = "forbidden" /\ gas'[c] = gas[c]
    PROVE  RefusedRightly(c)'
  <1> USE DEF GateInv
  <1>1. \A p \in Policies : policies[p].status # "none" => (Concerns(p, c)' <=> Concerns(p, c))
    BY DEF Evolves, Concerns, AppliesToWallet
  <1>2. /\ inforce[c] \subseteq Policies
        /\ \A p \in inforce[c] : policies[p].status # "none"
        /\ arrived[c] \in Nat /\ clock \in Nat
    BY DEF TypeOK, CallsLocated
  <1>3. ASSUME EarnedDenial(c)
        PROVE  EarnedDenial(c)'
    <2>1. ASSUME NEW p \in Policies \ retired[c], Concerns(p, c),
                 NEW time \in Duration(c), Forbids(asked[p], tx[c], time)
          PROVE  EarnedDenial(c)'
      <3>1. policies[p].status # "none" /\ asked'[p] = asked[p]
        BY <2>1 DEF Concerns, Evolves
      <3>2. time \in Duration(c)'
        BY <1>2 DEF Duration, Evolves
      <3>3. Concerns(p, c)'
        BY <1>1, <2>1, <3>1
      <3>4. Forbids(asked'[p], tx'[c], time)
        BY <2>1, <3>1
      <3> QED
        BY <3>2, <3>3, <3>4 DEF EarnedDenial
    <2>2. ASSUME \A p \in inforce[c] : Concerns(p, c) => policies[p].status = "inactive"
          PROVE  EarnedDenial(c)'
      BY <1>1, <1>2, <2>2 DEF EarnedDenial, Evolves
    <2> QED
      BY <1>3, <2>1, <2>2 DEF EarnedDenial
  <1>4. MessageListed(c)' <=> MessageListed(c)
    BY DEF MessageListed, Evolves, envVars
  <1>5. pc[c] = "audit_deny" => kind[c] = "transaction"
    BY DEF CallsLocated
  <1> QED
    BY <1>3, <1>4, <1>5 DEF RefusedRightly, Evolves, envVars

\* evaluate denies for a rule that forbids, or for want of any policy.
LEMMA DenialIsEarned ==
    ASSUME GateInv, NEW c \in Calls, pc[c] = "evaluate",
           ~Evaluate(FindActive(org[c]), wallet[c], tx[c], clock)
    PROVE  EarnedDenial(c)
  <1> USE DEF GateInv
  <1>1. /\ tx[c] \in Transaction /\ arrived[c] <= clock /\ inforce[c] \subseteq Policies
        /\ \A p \in retired[c] : policies[p].status = "inactive"
        /\ arrived[c] \in Nat /\ clock \in Nat
    BY DEF CallsLocated, TypeOK
  <1>2. ASSUME NEW p \in Policies, policies[p].status = "active", policies[p].org = org[c],
               AppliesToWallet(policies[p], wallet[c]),
               ~EvaluateRule(policies[p].rule, tx[c], clock)
        PROVE  EarnedDenial(c)
    <2>1. p \notin retired[c] /\ Concerns(p, c)
      BY <1>1, <1>2 DEF Concerns
    <2>2. Forbids(asked[p], tx[c], clock)
      BY <1>1, <1>2, AllowedIsPermitted DEF RowsAsAsked
    <2>3. clock \in Duration(c)
      BY <1>1 DEF Duration
    <2> QED
      BY <2>1, <2>2, <2>3 DEF EarnedDenial
  <1>3. CASE \A p \in Policies :
                ~(/\ policies[p].status = "active" /\ policies[p].org = org[c]
                  /\ AppliesToWallet(policies[p], wallet[c]))
    <2>1. \A p \in Policies : policies[p].status \in {"none", "active", "inactive"}
      BY DEF TypeOK, PolicyRow
    <2> QED
      BY <1>1, <1>3, <2>1 DEF EarnedDenial, Concerns
  <1> QED
    BY <1>2, <1>3 DEF Evaluate, FindActive

\* The lists of the API refuse only what they do not hold, in any spelling.
LEMMA MessageDenialIsEarned ==
    ASSUME GateInv, NEW c \in Calls, SignEip712(c) \/ SignPersonalMessage(c)
    PROVE  RefusedRightly(c)'
  <1> USE DEF GateInv, TypeOK
  <1>e. UNCHANGED <<signerEnv, apiEnv>>
    BY DEF SignEip712, SignPersonalMessage, Arrive, envVars
  <1>1. CASE SignPersonalMessage(c)
    <2>1. /\ kind'[c] = "personal" /\ pc'[c] \in {"load", "denied"}
          /\ pc'[c] = "denied" => ~apiEnv.personal
      BY <1>1 DEF SignPersonalMessage, Arrive
    <2> QED
      BY <1>e, <2>1 DEF RefusedRightly, MessageListed
  <1>2. CASE SignEip712(c)
    <2>1. PICK data \in TypedData :
             /\ kind'[c] = "typed" /\ typed'[c] = data /\ pc'[c] \in {"load", "denied"}
             /\ pc'[c] = "denied" => ~Eip712Allowed(data)
      BY <1>2 DEF SignEip712, Arrive
    <2>2. ASSUME data.domain \in apiEnv.domains, data.chain \in apiEnv.chains,
                 data.contract # None, data.contract.name \in Names(apiEnv.contracts),
                 data.primaryType \in apiEnv.primaryTypes
          PROVE  Eip712Allowed(data)
      <3>1. /\ apiEnv.contracts \in SUBSET Written
            /\ None \notin apiEnv.domains /\ None \notin apiEnv.chains
            /\ None \notin apiEnv.primaryTypes
        BY EnvironmentAssumption
      <3>2. data.contract \in Written
        BY <2>2, RequestAssumption
      <3>3. Lower(data.contract) \in ListedContracts
        BY <2>2, <3>1, <3>2, LowerList DEF ListedContracts
      <3> QED
        BY <2>2, <3>1, <3>3 DEF Eip712Allowed
    <2> QED
      BY <1>e, <2>1, <2>2 DEF RefusedRightly, MessageListed
  <1> QED
    BY <1>1, <1>2

LEMMA RefusalStep == GateInv /\ RefusalInv /\ [Next]_vars => RefusalInv'
  <1> SUFFICES ASSUME GateInv, RefusalInv, [Next]_vars, NEW e \in Calls
               PROVE  RefusedRightly(e)'
    BY DEF RefusalInv
  <1>0. Evolves /\ RefusedRightly(e)
    BY StepEvolves DEF RefusalInv
  <1>1. CASE UNCHANGED <<pc, headerVars, gas>>
    BY <1>0, <1>1, RefusalKept DEF headerVars
  <1>2. ASSUME NEW c \in Calls, CallStep(c)
        PROVE  RefusedRightly(e)'
    <2>1. CASE e # c
      <3>1. /\ pc'[e] = pc[e] /\ gas'[e] = gas[e]
            /\ UNCHANGED <<kind[e], org[e], wallet[e], tx[e], typed[e], arrived[e],
                           inforce[e], retired[e]>>
        BY <1>2, <2>1
           DEF CallStep, RequestSign, SignEip712, SignPersonalMessage, Arrive,
               LoadWallet, EvaluatePolicy, AuditDecision, EstimateFees,
               HandleSignTx, HandleSignHash, AuditHash, Throws, headerVars,
               GateInv, TypeOK
      <3> QED
        BY <1>0, <3>1, RefusalKept
    <2>2. CASE e = c
      <3>1. CASE LoadWallet(c) \/ AuditDecision(c) \/ EstimateFees(c) \/ AuditHash(c) \/ Throws(c)
        <4>1. /\ pc'[c] \in {"audit_deny", "denied"} => pc[c] \in {"audit_deny", "denied"}
              /\ pc'[c] # "forbidden"
          BY <3>1 DEF LoadWallet, AuditDecision, EstimateFees, AuditHash, Throws,
                      GateInv, TypeOK
        <4>2. UNCHANGED <<kind[c], org[c], wallet[c], tx[c], typed[c], arrived[c],
                          inforce[c], retired[c]>>
          BY <3>1 DEF LoadWallet, AuditDecision, EstimateFees, AuditHash, Throws,
                      headerVars
        <4> QED
          BY <1>0, <2>2, <4>1, <4>2, RefusalKept
      <3>2. CASE EvaluatePolicy(c)
        <4>1. /\ pc'[c] = "audit_deny" =>
                    ~Evaluate(FindActive(org[c]), wallet[c], tx[c], clock)
              /\ pc'[c] \in {"audit_allow", "audit_deny"} /\ pc[c] = "evaluate"
              /\ UNCHANGED <<policies, asked, clock, org, wallet, tx, arrived, inforce, retired>>
          BY <3>2 DEF EvaluatePolicy, headerVars, policyVars, GateInv, TypeOK
        <4>2. pc'[c] = "audit_deny" => EarnedDenial(c)
          BY <4>1, DenialIsEarned
        <4>3. EarnedDenial(c) => EarnedDenial(c)'
          BY <4>1 DEF EarnedDenial, Concerns, Duration
        <4> QED
          BY <2>2, <4>1, <4>2, <4>3 DEF RefusedRightly
      <3>3. CASE HandleSignTx(c)
        <4>1. /\ pc[c] = "sign_tx" /\ pc'[c] \in {"failed", "forbidden", "ok"}
              /\ pc'[c] = "forbidden" => ~ValidateSignTxLimits(signerLimits, tx[c], gas[c])
              /\ UNCHANGED <<kind, tx, gas, signerEnv>>
          BY <3>3 DEF HandleSignTx, headerVars, envVars, GateInv, TypeOK
        <4>2. kind[c] = "transaction" /\ tx[c] \in Transaction /\ gas[c] \in Nat
          BY <4>1 DEF GateInv, TypeOK, CallsLocated
        <4>3. ValidateSignTxLimits(signerLimits, tx[c], gas[c])
                 <=> WithinLimits(signerEnv, tx[c], gas[c])
          BY <4>2, LimitsAreSettings DEF signerLimits, GateInv, TypeOK
        <4> QED
          BY <2>2, <4>1, <4>2, <4>3 DEF RefusedRightly
      <3>4. CASE HandleSignHash(c)
        <4>1. /\ pc[c] = "sign_hash" /\ pc'[c] \in {"audit_hash", "forbidden"}
              /\ pc'[c] = "forbidden" => ~signerEnv.hash
              /\ UNCHANGED <<kind, signerEnv>>
          BY <3>4 DEF HandleSignHash, headerVars, envVars, GateInv, TypeOK,
                      signerLimits, LoadSignerLimits
        <4>2. kind[c] # "transaction"
          BY <4>1 DEF GateInv, CallsLocated
        <4> QED
          BY <2>2, <4>1, <4>2 DEF RefusedRightly
      <3>5. CASE RequestSign(c)
        <4>1. pc'[c] = "load"
          BY <3>5 DEF RequestSign, GateInv, TypeOK
        <4> QED
          BY <2>2, <4>1 DEF RefusedRightly
      <3>6. CASE SignEip712(c) \/ SignPersonalMessage(c)
        BY <2>2, <3>6, MessageDenialIsEarned
      <3> QED
        BY <1>2, <3>1, <3>2, <3>3, <3>4, <3>5, <3>6 DEF CallStep
    <2> QED
      BY <2>1, <2>2
  <1> QED
    BY <1>1, <1>2 DEF Next, CreatePolicy, DeleteStep, DeleteFind, DeleteUpdate,
                      DeleteAudit, Tick, vars

(* No refusal without a reason that a reader of the rules and settings can *)
(* point at, whatever was created, deleted or spelled differently while    *)
(* the call ran (PolicyService.evaluate, HandleSignTx, HandleSignHash,     *)
(* assertEip712Allowed).                                                   *)
THEOREM RefusalsAreEarned == Spec => []RefusalIsEarned
  <1>1. Init => RefusalInv
    BY DEF Init, RefusalInv, RefusedRightly
  <1>2. RefusalInv => RefusalIsEarned
    BY DEF RefusalInv, RefusedRightly, EarnedDenial, RefusalIsEarned
  <1> QED
    BY <1>1, <1>2, RefusalStep, GateInvariant, PTL DEF Spec

=============================================================================
