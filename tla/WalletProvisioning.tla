-------------------------- MODULE WalletProvisioning --------------------------
(***************************************************************************)
(* How an organization gets its wallets: OrganizationsService.create, with *)
(* WalletService.onBoardOrganization inside it, and WalletService.         *)
(* deriveWallet, one action per await, for concurrent calls that ask for   *)
(* the same slug and concurrent derivations for the organization.          *)
(*                                                                         *)
(* A wallet is known by the last index of its path m/44'/60'/0'/0/index:   *)
(* the address is a function of seed and index, and there is one seed, so  *)
(* the unique (org_id, address) says no more than the unique path.         *)
(***************************************************************************)
EXTENDS Integers, FiniteSets

CONSTANTS
    Creates,      \* calls of POST /organizations with one and the same slug
    Derives,      \* calls of POST /wallets for the organization
    MaxAttempts,  \* MAX_DERIVE_ATTEMPTS
    Crashes       \* whether a call may die between two awaits

ASSUME ProvisioningAssumption ==
    /\ Creates \cap Derives = {}
    /\ MaxAttempts \in Nat \ {0}
    /\ Crashes \in BOOLEAN

VARIABLES
    org,      \* the organizations row with the slug exists
    seed,     \* its organization_seeds row exists
    token,    \* its bootstrap_token_hash is set
    wallets,  \* index -> the call that inserted the wallet with that path
    pc,       \* call -> the await it stands at, or how it ended
    index,    \* derivation -> derivIndex
    attempt,  \* derivation -> attempt, counted from 1
    start     \* derivation -> its first count of the wallets (history)

vars == <<org, seed, token, wallets, pc, index, attempt, start>>

Calls == Creates \cup Derives

CreateAwaits == {"find_slug", "insert_org", "find_seed", "create_wallet",
                 "insert_seed", "insert_wallet", "audit_org", "store_token"}
DeriveAwaits == {"find_prerequisites", "count", "derive", "insert",
                 "recount", "audit"}
Ends == {"ok", "conflict", "error", "dead"}

Indices == DOMAIN wallets

\* The tables and the calls have these types.
TypeOK ==
    /\ org \in BOOLEAN /\ seed \in BOOLEAN /\ token \in BOOLEAN
    /\ Indices \subseteq Nat
    /\ \A i \in Indices : wallets[i] \in Calls
    /\ pc \in [Calls -> {"idle"} \cup CreateAwaits \cup DeriveAwaits \cup Ends]
    /\ index \in [Derives -> Nat]
    /\ attempt \in [Derives -> 1..MaxAttempts]
    /\ start \in [Derives -> Nat]

Init ==
    /\ org = FALSE /\ seed = FALSE /\ token = FALSE
    /\ wallets = [i \in {} |-> i]
    /\ pc = [c \in Calls |-> "idle"]
    /\ index = [d \in Derives |-> 0]
    /\ attempt = [d \in Derives |-> 1]
    /\ start = [d \in Derives |-> 0]

-----------------------------------------------------------------------------
At(c, a) == pc[c] = a
Goto(c, a) == pc' = [pc EXCEPT ![c] = a]

orgVars == <<org, seed, token>>
deriveVars == <<index, attempt, start>>

\* Mutation of WalletCount: one too many.
WalletCountOneMore == Cardinality(Indices) + 1

\* countByOrgId
WalletCount == Cardinality(Indices)

\* Mutation of InsertWallet: no unique (org_id, derivation_path).
InsertWalletUnchecked(c, i) ==
    wallets' = [j \in Indices \cup {i} |-> IF j = i THEN c ELSE wallets[j]]

\* walletRepo.create, when the path is free.
InsertWallet(c, i) ==
    /\ i \notin Indices
    /\ wallets' = [j \in Indices \cup {i} |-> IF j = i THEN c ELSE wallets[j]]

-----------------------------------------------------------------------------
\* OrganizationsService.create

FindSlug(c) ==
    /\ At(c, "idle")
    /\ Goto(c, IF org THEN "conflict" ELSE "insert_org")
    /\ UNCHANGED <<orgVars, wallets, deriveVars>>

\* The slug is unique; the violation leaves the handler as an error.
InsertOrg(c) ==
    /\ At(c, "insert_org")
    /\ IF org THEN Goto(c, "error") ELSE Goto(c, "find_seed")
    /\ org' = TRUE
    /\ UNCHANGED <<seed, token, wallets, deriveVars>>

\* onBoardOrganization
FindSeed(c) ==
    /\ At(c, "find_seed")
    /\ Goto(c, IF seed THEN "error" ELSE "create_wallet")
    /\ UNCHANGED <<orgVars, wallets, deriveVars>>

\* Mutation of CreateWallet: a refusal of the sidecar is swallowed.
CreateWalletErrorIgnored(c) ==
    /\ At(c, "create_wallet")
    /\ \/ Goto(c, "insert_seed")
       \/ Goto(c, "audit_org")
    /\ UNCHANGED <<orgVars, wallets, deriveVars>>

CreateWallet(c) ==
    /\ At(c, "create_wallet")
    /\ \/ Goto(c, "insert_seed")
       \/ Goto(c, "error")  \* the sidecar refused or timed out
    /\ UNCHANGED <<orgVars, wallets, deriveVars>>

InsertSeed(c) ==
    /\ At(c, "insert_seed")
    /\ seed' = TRUE
    /\ Goto(c, "insert_wallet")
    /\ UNCHANGED <<org, token, wallets, deriveVars>>

\* The first wallet, at index 0.  A taken path would end the call.
InsertFirstWallet(c) ==
    /\ At(c, "insert_wallet")
    /\ IF 0 \in Indices
       THEN Goto(c, "error") /\ UNCHANGED wallets
       ELSE Goto(c, "audit_org") /\ InsertWallet(c, 0)
    /\ UNCHANGED <<orgVars, deriveVars>>

AuditOrg(c) ==
    /\ At(c, "audit_org")
    /\ Goto(c, "store_token")
    /\ UNCHANGED <<orgVars, wallets, deriveVars>>

\* generateBootstrapToken; the token is in the reply.
StoreToken(c) ==
    /\ At(c, "store_token")
    /\ token' = TRUE
    /\ Goto(c, "ok")
    /\ UNCHANGED <<org, seed, wallets, deriveVars>>

Create(c) ==
    \/ InsertOrg(c) \/ FindSeed(c) \/ CreateWallet(c) \/ InsertSeed(c)
    \/ InsertFirstWallet(c) \/ AuditOrg(c) \/ StoreToken(c)

-----------------------------------------------------------------------------
(* WalletService.deriveWallet.  The caller has an API key of the           *)
(* organization, so the bootstrap token was handed out before: the guard.  *)

FindPrerequisites(d) ==
    /\ At(d, "idle")
    /\ token
    /\ \/ seed /\ Goto(d, "count")
       \/ Goto(d, "error")  \* no seed, or the user is not of this organization
    /\ UNCHANGED <<orgVars, wallets, deriveVars>>

Count(d) ==
    /\ At(d, "count")
    /\ index' = [index EXCEPT ![d] = WalletCount]
    /\ start' = [start EXCEPT ![d] = WalletCount]
    /\ Goto(d, "derive")
    /\ UNCHANGED <<orgVars, wallets, attempt>>

DeriveAddress(d) ==
    /\ At(d, "derive")
    /\ \/ Goto(d, "insert")
       \/ Goto(d, "error")
    /\ UNCHANGED <<orgVars, wallets, deriveVars>>

\* Mutation of InsertDerived: one attempt too many.
InsertDerivedOneMore(d) ==
    /\ At(d, "insert")
    /\ \/ InsertWallet(d, index[d]) /\ Goto(d, "audit")
       \/ /\ index[d] \in Indices
          /\ Goto(d, IF attempt[d] > MaxAttempts THEN "conflict" ELSE "recount")
          /\ UNCHANGED wallets
    /\ UNCHANGED <<orgVars, deriveVars>>

\* The insert, and on 23505 another attempt while there is one left.
InsertDerived(d) ==
    /\ At(d, "insert")
    /\ \/ InsertWallet(d, index[d]) /\ Goto(d, "audit")
       \/ /\ index[d] \in Indices
          /\ Goto(d, IF attempt[d] = MaxAttempts THEN "conflict" ELSE "recount")
          /\ UNCHANGED wallets
    /\ UNCHANGED <<orgVars, deriveVars>>

\* Mutation of Recount: the same index is tried again.
RecountForgotten(d) ==
    /\ At(d, "recount")
    /\ attempt' = [attempt EXCEPT ![d] = @ + 1]
    /\ Goto(d, "derive")
    /\ UNCHANGED <<orgVars, wallets, index, start>>

\* Mutation of Recount: neither the index nor the attempt moves on.
RecountForever(d) ==
    /\ At(d, "recount")
    /\ Goto(d, "derive")
    /\ UNCHANGED <<orgVars, wallets, deriveVars>>

Recount(d) ==
    /\ At(d, "recount")
    /\ index' = [index EXCEPT ![d] = WalletCount]
    /\ attempt' = [attempt EXCEPT ![d] = @ + 1]
    /\ Goto(d, "derive")
    /\ UNCHANGED <<orgVars, wallets, start>>

Audit(d) ==
    /\ At(d, "audit")
    /\ Goto(d, "ok")
    /\ UNCHANGED <<orgVars, wallets, deriveVars>>

Derive(d) ==
    Count(d) \/ DeriveAddress(d) \/ InsertDerived(d) \/ Recount(d) \/ Audit(d)

-----------------------------------------------------------------------------
\* The process dies, or a database call throws.
Crash(c) ==
    /\ Crashes
    /\ pc[c] \in CreateAwaits \cup DeriveAwaits
    /\ Goto(c, "dead")
    /\ UNCHANGED <<orgVars, wallets, deriveVars>>

Next ==
    \/ \E c \in Creates : FindSlug(c) \/ Create(c)
    \/ \E d \in Derives : FindPrerequisites(d) \/ Derive(d)
    \/ \E c \in Calls : Crash(c)

Spec == Init /\ [][Next]_vars

\* A call that is being served keeps running.
FairSpec ==
    /\ Spec
    /\ \A c \in Creates : WF_vars(Create(c))
    /\ \A d \in Derives : WF_vars(Derive(d))

-----------------------------------------------------------------------------
(* The indices in use are 0, 1, ..., n-1: counting the wallets gives the   *)
(* next free index (deriveWallet), whatever races and crashes happened.    *)
IndicesDense == \A i \in Indices : 0..i \subseteq Indices

(* "A client can never be told about index N and silently get N+1"         *)
(* (wallet.service.ts, deriveWallet): the wallet at the index whose        *)
(* address the reply carries is the one this call inserted, and it         *)
(* inserted no other.                                                      *)
ReplyIsOwnWallet ==
    \A d \in Derives : pc[d] = "ok" =>
        {i \in Indices : wallets[i] = d} = {index[d]}

(* A derivation gives up only after as many other calls as it has attempts *)
(* got a wallet since it began (the retry loop of deriveWallet):           *)
(* contention never starves everybody.                                     *)
ConflictNeedsWinners ==
    \A d \in Derives :
        pc[d] = "conflict" => Cardinality(Indices) >= start[d] + MaxAttempts

(* Whoever can derive has a fully onboarded organization: its seed and the *)
(* first wallet, at index 0 and inserted by the call that created it, are  *)
(* there before the bootstrap token exists (OrganizationsService.create).  *)
TokenAfterOnboarding ==
    token => org /\ seed /\ 0 \in Indices /\ wallets[0] \in Creates

(* Every derivation that has begun is answered, or its process died: the   *)
(* retry loop of deriveWallet ends.                                        *)
DerivationEnds == \A d \in Derives : pc[d] = "count" ~> pc[d] \in Ends

=============================================================================
