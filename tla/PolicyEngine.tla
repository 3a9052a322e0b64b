----------------------------- MODULE PolicyEngine -----------------------------
(***************************************************************************)
(* What PolicyService (libs/policy/src/policy.service.ts) accepts as a     *)
(* rule and what it answers for a transaction, as operators.               *)
(*                                                                         *)
(* Addresses and selectors reach the service as text, so one address has   *)
(* several spellings: a written name is the name and its case, "lower",    *)
(* "checksum" or "other".  Amounts and times are numbers.                  *)
(***************************************************************************)
EXTENDS Integers

SelectorBytes == 4

Written == [name : STRING, case : {"lower", "checksum", "other"}]
Entry == [to : Written, selector : Written]

Lower(w) == [w EXCEPT !.case = "lower"]

\* viem's isAddress wants lower case or the checksum's case.
IsAddress(w) == w.case # "other"

-----------------------------------------------------------------------------
(* A rule as it is asked for or stored: addresses for the two lists, max   *)
(* for spend_limit, entries for calldata_allowlist, start and end for      *)
(* time_lock.  The fields a type does not use are not looked at.           *)

RuleConfig ==
    [type : STRING, addresses : SUBSET Written, max : Nat, entries : SUBSET Entry,
     start : Int, end : Int]

ValidRule(rule) ==
    \/ /\ rule.type \in {"address_allowlist", "address_blocklist"}
       /\ \A a \in rule.addresses : IsAddress(a)
    \/ rule.type = "spend_limit"
    \/ rule.type = "calldata_allowlist" /\ \A e \in rule.entries : IsAddress(e.to)
    \/ rule.type = "time_lock" /\ rule.start < rule.end

\* Mutation of Normalised: the rule is stored as it was written.
NormalisedAsWritten(rule) == rule

\* What validateRuleConfig returns for a valid rule, and the row keeps.
Normalised(rule) ==
    [rule EXCEPT
        !.addresses = {Lower(a) : a \in rule.addresses},
        !.entries = {[to |-> Lower(e.to), selector |-> Lower(e.selector)] : e \in rule.entries}]

-----------------------------------------------------------------------------
(* tx has the recipient `to` as written, value, and data: its length in    *)
(* bytes and its first four of them as written.                            *)

Transaction ==
    [chain : Nat, to : Written, value : Nat, data : [bytes : Nat, selector : Written]]

\* txPayload.dataSelector is undefined for data shorter than a selector.
HasSelector(tx) == tx.data.bytes >= SelectorBytes

\* Mutation of Recipient: the recipient is compared as it was written.
RecipientAsWritten(tx) == tx.to

\* How evaluateRule looks the recipient up.
Recipient(tx) == Lower(tx.to)

Call(tx) == [to |-> Recipient(tx), selector |-> Lower(tx.data.selector)]

\* evaluateRule, TRUE for allow; a type it does not know denies.
EvaluateRule(rule, tx, now) ==
    \/ rule.type = "address_blocklist" /\ Recipient(tx) \notin rule.addresses
    \/ /\ rule.type = "address_allowlist"
       /\ rule.addresses = {} \/ Recipient(tx) \in rule.addresses
    \/ rule.type = "spend_limit" /\ tx.value <= rule.max
    \/ /\ rule.type = "calldata_allowlist"
       /\ ~HasSelector(tx) \/ Call(tx) \in rule.entries
    \/ rule.type = "time_lock" /\ rule.start <= now /\ now <= rule.end

\* applies_to is free text: anything but the first two applies to no wallet.
AppliesTo == {"all", "wallet", "other"}

AppliesToWallet(row, wallet) ==
    \/ row.applies_to = "all"
    \/ row.applies_to = "wallet" /\ row.target = wallet

\* Mutation of Evaluate: any policy of the organization will do.
EvaluateAnyPolicy(rows, wallet, tx, now) ==
    LET applicable == {row \in rows : AppliesToWallet(row, wallet)}
    IN  /\ rows # {}
        /\ \A row \in applicable : EvaluateRule(row.rule, tx, now)

(* evaluate on the rows of the query.  The loop stops at the first denial, *)
(* highest priority first: which rule is blamed depends on the order, the  *)
(* decision does not.                                                      *)
Evaluate(rows, wallet, tx, now) ==
    LET applicable == {row \in rows : AppliesToWallet(row, wallet)}
    IN  /\ applicable # {}
        /\ \A row \in applicable : EvaluateRule(row.rule, tx, now)
=============================================================================
