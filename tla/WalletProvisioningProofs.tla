---------------------- MODULE WalletProvisioningProofs ----------------------
(***************************************************************************)
(* WalletProvisioning for any number of calls and attempts: the safety     *)
(* properties its run checks, proved from one inductive invariant.         *)
(*                                                                         *)
(* The heart of it: the indices in use are always 0..n-1, and whatever     *)
(* count a derivation read earlier is at most n, because wallets are never *)
(* deleted.  So an insert at a free index can only be an insert at n.      *)
(***************************************************************************)
EXTENDS WalletProvisioning, FiniteSetTheorems, TLAPS

Owned(c) == {i \in Indices : wallets[i] = c}

\* The indices are the first ones, and every count read was right once.
Dense ==
    /\ WalletCount \in Nat
    /\ Indices = 0..(WalletCount - 1)
    /\ \A d \in Derives : index[d] <= WalletCount

\* A derivation owns nothing before its insert, and its index after it.
OwnsItsIndex ==
    \A d \in Derives :
        /\ pc[d] \in {"audit", "ok"} => Owned(d) = {index[d]}
        /\ pc[d] \notin {"audit", "ok", "dead"} => Owned(d) = {}

\* Each failed attempt was overtaken by one more wallet.
Overtaken ==
    \A d \in Derives :
        /\ pc[d] \in {"derive", "insert"} =>
              index[d] >= start[d] + attempt[d] - 1
        /\ pc[d] = "count" => attempt[d] = 1
        /\ pc[d] = "idle" => attempt[d] = 1
        /\ pc[d] = "recount" =>
              /\ WalletCount >= start[d] + attempt[d]
              /\ attempt[d] < MaxAttempts
        /\ pc[d] = "conflict" => WalletCount >= start[d] + MaxAttempts

\* How far onboarding is, by the await a creation stands at.
Onboarding ==
    \A c \in Creates :
        /\ pc[c] \in {"find_seed", "create_wallet", "insert_seed",
                      "insert_wallet", "audit_org", "store_token"} => org
        /\ pc[c] \in {"insert_wallet", "audit_org", "store_token"} => seed
        /\ pc[c] \in {"audit_org", "store_token"} =>
              0 \in Indices /\ wallets[0] \in Creates

WalletInv ==
    /\ TypeOK
    /\ Dense
    /\ OwnsItsIndex
    /\ Overtaken
    /\ Onboarding
    /\ TokenAfterOnboarding

(* The first n indices are n in number: what countByOrgId returns.         *)
LEMMA CountOfFirst ==
    \A n \in Nat : Cardinality(0..(n - 1)) = n
BY FS_Interval

(* An insert at a free index that is no larger than the count is an insert *)
(* at the count, and leaves the indices dense (InsertWallet).              *)
LEMMA InsertIsNext ==
    ASSUME NEW c, NEW i \in Nat, Dense, i <= WalletCount, InsertWallet(c, i)
    PROVE  /\ i = WalletCount
           /\ WalletCount' = WalletCount + 1
           /\ Indices' = 0..(WalletCount' - 1)
           /\ Indices' = Indices \cup {i}
           /\ wallets'[i] = c
           /\ \A j \in Indices : wallets'[j] = wallets[j]
<1>1. i = WalletCount
  BY DEF Dense, InsertWallet
<1>2. Indices' = Indices \cup {i}
  BY DEF InsertWallet, Indices
<1>3. Indices' = 0..((WalletCount + 1) - 1)
  BY <1>1, <1>2 DEF Dense
<1>4. WalletCount' = WalletCount + 1
  BY <1>3, CountOfFirst DEF WalletCount, Dense
<1>5. wallets'[i] = c /\ \A j \in Indices : wallets'[j] = wallets[j]
  BY DEF InsertWallet, Indices
<1> QED BY <1>1, <1>2, <1>3, <1>4, <1>5 DEF Dense

(* A step that touches neither the wallets nor a derivation's variables    *)
(* keeps what is said about the derivations that do not move.              *)
LEMMA CreateStepKeepsDerives ==
    ASSUME WalletInv, NEW c \in Creates, NEW a, Goto(c, a),
           UNCHANGED <<wallets, deriveVars>>
    PROVE  Dense' /\ OwnsItsIndex' /\ Overtaken'
<1>1. \A d \in Derives : pc'[d] = pc[d]
  BY ProvisioningAssumption DEF WalletInv, TypeOK, Goto, Calls
<1>2. Indices' = Indices /\ WalletCount' = WalletCount
  BY DEF Indices, WalletCount
<1>3. \A d \in Derives : Owned(d)' = Owned(d)
  BY <1>2 DEF Owned
<1>4. Dense'
  BY <1>2 DEF WalletInv, Dense, deriveVars
<1>5. OwnsItsIndex'
  BY <1>1, <1>3 DEF WalletInv, OwnsItsIndex, deriveVars
<1>6. Overtaken'
  BY <1>1, <1>2 DEF WalletInv, Overtaken, deriveVars
<1> QED BY <1>4, <1>5, <1>6

(* A derivation's insert-free step keeps what is said about onboarding.    *)
LEMMA DeriveStepKeepsOnboarding ==
    ASSUME WalletInv, NEW d \in Derives, NEW a, Goto(d, a),
           UNCHANGED orgVars,
           \A i \in Indices : i \in Indices' /\ wallets'[i] = wallets[i]
    PROVE  Onboarding' /\ TokenAfterOnboarding'
<1>1. \A c \in Creates : pc'[c] = pc[c]
  BY ProvisioningAssumption DEF WalletInv, TypeOK, Goto, Calls
<1> QED BY <1>1 DEF WalletInv, Onboarding, TokenAfterOnboarding, orgVars

Positions == {"idle"} \cup CreateAwaits \cup DeriveAwaits \cup Ends

(* Goto moves one call and leaves the others where they are.               *)
LEMMA GotoMoves ==
    ASSUME TypeOK, NEW c \in Calls, NEW a \in Positions, Goto(c, a)
    PROVE  /\ pc' \in [Calls -> Positions]
           /\ pc'[c] = a
           /\ \A b \in Calls \ {c} : pc'[b] = pc[b]
BY DEF TypeOK, Positions, Goto

(* The wallets are as they were, so are the indices and their count.       *)
LEMMA SameWallets ==
    ASSUME UNCHANGED wallets
    PROVE  /\ Indices' = Indices
           /\ WalletCount' = WalletCount
           /\ \A c : Owned(c)' = Owned(c)
BY DEF Indices, WalletCount, Owned

(* Every state starts with no wallet and every call idle.                  *)
LEMMA InitWallets == Init => WalletInv
<1> SUFFICES ASSUME Init PROVE WalletInv
  OBVIOUS
<1>1. Indices = {} /\ 0..(0 - 1) = {}
  BY DEF Init, Indices
<1>2. WalletCount = 0
  BY <1>1, CountOfFirst DEF WalletCount
<1>3. TypeOK
  <2>1. org \in BOOLEAN /\ seed \in BOOLEAN /\ token \in BOOLEAN
    BY DEF Init
  <2>2. Indices \subseteq Nat /\ \A i \in Indices : wallets[i] \in Calls
    BY <1>1
  <2>3. pc \in [Calls -> {"idle"} \cup CreateAwaits \cup DeriveAwaits \cup Ends]
    BY DEF Init
  <2>4. 1 \in 1..MaxAttempts
    BY ProvisioningAssumption
  <2>5. /\ index \in [Derives -> Nat]
        /\ attempt \in [Derives -> 1..MaxAttempts]
        /\ start \in [Derives -> Nat]
    BY <2>4 DEF Init
  <2> QED BY <2>1, <2>2, <2>3, <2>5 DEF TypeOK
<1>4. Dense
  BY <1>1, <1>2 DEF Init, Dense
<1>5. OwnsItsIndex
  BY <1>1 DEF Init, OwnsItsIndex, Owned, Calls
<1>6. Overtaken
  BY DEF Init, Overtaken, Calls
<1>7. Onboarding /\ TokenAfterOnboarding
  BY DEF Init, Onboarding, TokenAfterOnboarding, Calls
<1> QED BY <1>3, <1>4, <1>5, <1>6, <1>7 DEF WalletInv

(* Every step of a creation keeps the invariant (OrganizationsService      *)
(* .create, onBoardOrganization).                                          *)
LEMMA CreateStep ==
    ASSUME WalletInv, NEW c \in Creates, FindSlug(c) \/ Create(c)
    PROVE  WalletInv'
<1> USE DEF WalletInv
<1> c \in Calls
  BY DEF Calls
<1>1. CASE FindSlug(c)
  <2>1. PICK a \in {"conflict", "insert_org"} : Goto(c, a)
    BY <1>1 DEF FindSlug
  <2>2. a \in Positions
    BY DEF Positions, CreateAwaits, Ends
  <2>3. Dense' /\ OwnsItsIndex' /\ Overtaken'
    BY <1>1, <2>1, CreateStepKeepsDerives DEF FindSlug
  <2>4. TypeOK'
    BY <1>1, <2>1, <2>2, GotoMoves, SameWallets DEF FindSlug, TypeOK, Positions, orgVars, deriveVars
  <2>5. Onboarding' /\ TokenAfterOnboarding'
    BY <1>1, <2>1, <2>2, GotoMoves, SameWallets
       DEF FindSlug, At, Onboarding, TokenAfterOnboarding, Calls, orgVars
  <2> QED BY <2>3, <2>4, <2>5
<1>2. CASE InsertOrg(c)
  <2>1. PICK a \in {"error", "find_seed"} : Goto(c, a)
    BY <1>2 DEF InsertOrg
  <2>2. a \in Positions
    BY DEF Positions, CreateAwaits, Ends
  <2>3. Dense' /\ OwnsItsIndex' /\ Overtaken'
    BY <1>2, <2>1, CreateStepKeepsDerives DEF InsertOrg
  <2>4. TypeOK'
    BY <1>2, <2>1, <2>2, GotoMoves, SameWallets DEF InsertOrg, TypeOK, Positions, orgVars, deriveVars
  <2>5. Onboarding' /\ TokenAfterOnboarding'
    BY <1>2, <2>1, <2>2, GotoMoves, SameWallets
       DEF InsertOrg, At, Onboarding, TokenAfterOnboarding, Calls, orgVars
  <2> QED BY <2>3, <2>4, <2>5
<1>3. CASE FindSeed(c)
  <2>1. PICK a \in {"error", "create_wallet"} : Goto(c, a)
    BY <1>3 DEF FindSeed
  <2>2. a \in Positions
    BY DEF Positions, CreateAwaits, Ends
  <2>3. Dense' /\ OwnsItsIndex' /\ Overtaken'
    BY <1>3, <2>1, CreateStepKeepsDerives DEF FindSeed
  <2>4. TypeOK'
    BY <1>3, <2>1, <2>2, GotoMoves, SameWallets DEF FindSeed, TypeOK, Positions, orgVars, deriveVars
  <2>5. Onboarding' /\ TokenAfterOnboarding'
    BY <1>3, <2>1, <2>2, GotoMoves, SameWallets
       DEF FindSeed, At, Onboarding, TokenAfterOnboarding, Calls, orgVars
  <2> QED BY <2>3, <2>4, <2>5
<1>4. CASE CreateWallet(c)
  <2>1. PICK a \in {"insert_seed", "error"} : Goto(c, a)
    BY <1>4 DEF CreateWallet
  <2>2. a \in Positions
    BY DEF Positions, CreateAwaits, Ends
  <2>3. Dense' /\ OwnsItsIndex' /\ Overtaken'
    BY <1>4, <2>1, CreateStepKeepsDerives DEF CreateWallet
  <2>4. TypeOK'
    BY <1>4, <2>1, <2>2, GotoMoves, SameWallets DEF CreateWallet, TypeOK, Positions, orgVars, deriveVars
  <2>5. Onboarding' /\ TokenAfterOnboarding'
    BY <1>4, <2>1, <2>2, GotoMoves, SameWallets
       DEF CreateWallet, At, Onboarding, TokenAfterOnboarding, Calls, orgVars
  <2> QED BY <2>3, <2>4, <2>5
<1>5. CASE InsertSeed(c)
  <2>1. PICK a \in {"insert_wallet"} : Goto(c, a)
    BY <1>5 DEF InsertSeed
  <2>2. a \in Positions
    BY DEF Positions, CreateAwaits, Ends
  <2>3. Dense' /\ OwnsItsIndex' /\ Overtaken'
    BY <1>5, <2>1, CreateStepKeepsDerives DEF InsertSeed
  <2>4. TypeOK'
    BY <1>5, <2>1, <2>2, GotoMoves, SameWallets DEF InsertSeed, TypeOK, Positions, orgVars, deriveVars
  <2>5. Onboarding' /\ TokenAfterOnboarding'
    BY <1>5, <2>1, <2>2, GotoMoves, SameWallets
       DEF InsertSeed, At, Onboarding, TokenAfterOnboarding, Calls, orgVars
  <2> QED BY <2>3, <2>4, <2>5
<1>6. CASE AuditOrg(c)
  <2>1. PICK a \in {"store_token"} : Goto(c, a)
    BY <1>6 DEF AuditOrg
  <2>2. a \in Positions
    BY DEF Positions, CreateAwaits, Ends
  <2>3. Dense' /\ OwnsItsIndex' /\ Overtaken'
    BY <1>6, <2>1, CreateStepKeepsDerives DEF AuditOrg
  <2>4. TypeOK'
    BY <1>6, <2>1, <2>2, GotoMoves, SameWallets DEF AuditOrg, TypeOK, Positions, orgVars, deriveVars
  <2>5. Onboarding' /\ TokenAfterOnboarding'
    BY <1>6, <2>1, <2>2, GotoMoves, SameWallets
       DEF AuditOrg, At, Onboarding, TokenAfterOnboarding, Calls, orgVars
  <2> QED BY <2>3, <2>4, <2>5
<1>7. CASE StoreToken(c)
  <2>1. PICK a \in {"ok"} : Goto(c, a)
    BY <1>7 DEF StoreToken
  <2>2. a \in Positions
    BY DEF Positions, CreateAwaits, Ends
  <2>3. Dense' /\ OwnsItsIndex' /\ Overtaken'
    BY <1>7, <2>1, CreateStepKeepsDerives DEF StoreToken
  <2>4. TypeOK'
    BY <1>7, <2>1, <2>2, GotoMoves, SameWallets DEF StoreToken, TypeOK, Positions, orgVars, deriveVars
  <2>5. Onboarding' /\ TokenAfterOnboarding'
    BY <1>7, <2>1, <2>2, GotoMoves, SameWallets
       DEF StoreToken, At, Onboarding, TokenAfterOnboarding, Calls, orgVars
  <2> QED BY <2>3, <2>4, <2>5
<1>8. CASE InsertFirstWallet(c)
  <2>1. CASE 0 \in Indices
    <3>1. Goto(c, "error") /\ UNCHANGED <<wallets, deriveVars>>
      BY <1>8, <2>1 DEF InsertFirstWallet
    <3>2. "error" \in Positions
      BY DEF Positions, Ends
    <3>3. Dense' /\ OwnsItsIndex' /\ Overtaken'
      BY <3>1, CreateStepKeepsDerives
    <3>4. TypeOK'
      BY <1>8, <3>1, <3>2, GotoMoves, SameWallets
         DEF InsertFirstWallet, TypeOK, Positions, orgVars, deriveVars
    <3>5. Onboarding' /\ TokenAfterOnboarding'
      BY <1>8, <3>1, <3>2, GotoMoves, SameWallets
         DEF InsertFirstWallet, Onboarding, TokenAfterOnboarding, Calls, orgVars
    <3> QED BY <3>3, <3>4, <3>5
  <2>2. CASE 0 \notin Indices
    <3>1. Goto(c, "audit_org") /\ InsertWallet(c, 0) /\ UNCHANGED <<orgVars, deriveVars>>
      BY <1>8, <2>2 DEF InsertFirstWallet
    <3>2. "audit_org" \in Positions
      BY DEF Positions, CreateAwaits
    <3>3. /\ pc' \in [Calls -> Positions]
          /\ pc'[c] = "audit_org"
          /\ \A b \in Calls \ {c} : pc'[b] = pc[b]
      BY <3>1, <3>2, GotoMoves
    <3>4. 0 <= WalletCount
      BY DEF Dense
    <3>5. /\ WalletCount' = WalletCount + 1
          /\ Indices' = 0..(WalletCount' - 1)
          /\ Indices' = Indices \cup {0}
          /\ wallets'[0] = c
          /\ \A j \in Indices : wallets'[j] = wallets[j]
      BY <3>1, <3>4, InsertIsNext
    <3>6. TypeOK'
      <4>1. Indices' \subseteq Nat
        BY <3>5 DEF TypeOK
      <4>2. \A i \in Indices' : wallets'[i] \in Calls
        BY <3>5 DEF TypeOK
      <4> QED BY <3>1, <3>3, <4>1, <4>2 DEF TypeOK, Positions, orgVars, deriveVars
    <3>7. \A d \in Derives : pc'[d] = pc[d] /\ d # c
      BY <3>3, ProvisioningAssumption DEF Calls
    <3>8. Dense'
      BY <3>1, <3>5 DEF Dense, TypeOK, deriveVars
    <3>9. \A d \in Derives : Owned(d)' = Owned(d)
      BY <3>5, <3>7, <2>2 DEF Owned
    <3>10. OwnsItsIndex'
      BY <3>1, <3>7, <3>9 DEF OwnsItsIndex, deriveVars
    <3>11. Overtaken'
      <4>1. \A d \in Derives : start[d] \in Nat /\ attempt[d] \in Nat
        BY ProvisioningAssumption DEF TypeOK
      <4>2. WalletCount \in Nat /\ MaxAttempts \in Nat
        BY ProvisioningAssumption DEF Dense
      <4> QED BY <3>1, <3>5, <3>7, <4>1, <4>2 DEF Overtaken, deriveVars
    <3>12. Onboarding'
      BY <1>8, <3>1, <3>3, <3>5, <2>2
         DEF InsertFirstWallet, At, Onboarding, Calls, orgVars
    <3>13. TokenAfterOnboarding'
      BY <3>1, <3>5 DEF TokenAfterOnboarding, orgVars
    <3> QED BY <3>6, <3>8, <3>10, <3>11, <3>12, <3>13
  <2> QED BY <2>1, <2>2
<1> QED
  BY <1>1, <1>2, <1>3, <1>4, <1>5, <1>6, <1>7, <1>8 DEF Create

(* Every step of a derivation keeps the invariant (deriveWallet).          *)
LEMMA DeriveStep ==
    ASSUME WalletInv, NEW d \in Derives, FindPrerequisites(d) \/ Derive(d)
    PROVE  WalletInv'
<1> USE DEF WalletInv
<1> d \in Calls
  BY DEF Calls
<1>0. /\ WalletCount \in Nat /\ MaxAttempts \in Nat
      /\ \A e \in Derives :
            /\ index[e] \in Nat /\ start[e] \in Nat
            /\ attempt[e] \in Nat /\ attempt[e] >= 1
            /\ attempt[e] <= MaxAttempts
  BY ProvisioningAssumption DEF TypeOK, Dense
<1>1. CASE FindPrerequisites(d)
  <2>1. PICK a \in {"count", "error"} : Goto(d, a)
    BY <1>1 DEF FindPrerequisites
  <2>2. a \in Positions
    BY DEF Positions, DeriveAwaits, Ends
  <2>3. /\ pc' \in [Calls -> Positions]
        /\ pc'[d] = a
        /\ \A b \in Derives \ {d} : pc'[b] = pc[b]
    BY <2>1, <2>2, GotoMoves DEF Calls
  <2>4. /\ Indices' = Indices /\ WalletCount' = WalletCount
        /\ \A e : Owned(e)' = Owned(e)
    BY <1>1, SameWallets DEF FindPrerequisites
  <2>5. Onboarding' /\ TokenAfterOnboarding'
    BY <1>1, <2>1, <2>4, DeriveStepKeepsOnboarding DEF FindPrerequisites
  <2>6. TypeOK'
    BY <1>0, <1>1, <2>3, <2>4 DEF FindPrerequisites, At, TypeOK, Overtaken, Positions, orgVars, deriveVars
  <2>7. Dense'
    BY <1>0, <1>1, <2>4 DEF FindPrerequisites, Dense, TypeOK, deriveVars
  <2>8. OwnsItsIndex'
    BY <1>1, <2>1, <2>3, <2>4 DEF FindPrerequisites, At, OwnsItsIndex, TypeOK, deriveVars
  <2>9. Overtaken'
    BY <1>0, <1>1, <2>1, <2>3, <2>4 DEF FindPrerequisites, At, Overtaken, TypeOK, deriveVars
  <2> QED BY <2>5, <2>6, <2>7, <2>8, <2>9
<1>2. CASE Count(d)
  <2>1. PICK a \in {"derive"} : Goto(d, a)
    BY <1>2 DEF Count
  <2>2. a \in Positions
    BY DEF Positions, DeriveAwaits, Ends
  <2>3. /\ pc' \in [Calls -> Positions]
        /\ pc'[d] = a
        /\ \A b \in Derives \ {d} : pc'[b] = pc[b]
    BY <2>1, <2>2, GotoMoves DEF Calls
  <2>4. /\ Indices' = Indices /\ WalletCount' = WalletCount
        /\ \A e : Owned(e)' = Owned(e)
    BY <1>2, SameWallets DEF Count
  <2>5. Onboarding' /\ TokenAfterOnboarding'
    BY <1>2, <2>1, <2>4, DeriveStepKeepsOnboarding DEF Count
  <2>6. TypeOK'
    BY <1>0, <1>2, <2>3, <2>4 DEF Count, At, TypeOK, Overtaken, Positions, orgVars, deriveVars
  <2>7. Dense'
    BY <1>0, <1>2, <2>4 DEF Count, Dense, TypeOK, deriveVars
  <2>8. OwnsItsIndex'
    BY <1>2, <2>1, <2>3, <2>4 DEF Count, At, OwnsItsIndex, TypeOK, deriveVars
  <2>9. Overtaken'
    BY <1>0, <1>2, <2>1, <2>3, <2>4 DEF Count, At, Overtaken, TypeOK, deriveVars
  <2> QED BY <2>5, <2>6, <2>7, <2>8, <2>9
<1>3. CASE DeriveAddress(d)
  <2>1. PICK a \in {"insert", "error"} : Goto(d, a)
    BY <1>3 DEF DeriveAddress
  <2>2. a \in Positions
    BY DEF Positions, DeriveAwaits, Ends
  <2>3. /\ pc' \in [Calls -> Positions]
        /\ pc'[d] = a
        /\ \A b \in Derives \ {d} : pc'[b] = pc[b]
    BY <2>1, <2>2, GotoMoves DEF Calls
  <2>4. /\ Indices' = Indices /\ WalletCount' = WalletCount
        /\ \A e : Owned(e)' = Owned(e)
    BY <1>3, SameWallets DEF DeriveAddress
  <2>5. Onboarding' /\ TokenAfterOnboarding'
    BY <1>3, <2>1, <2>4, DeriveStepKeepsOnboarding DEF DeriveAddress
  <2>6. TypeOK'
    BY <1>0, <1>3, <2>3, <2>4 DEF DeriveAddress, At, TypeOK, Overtaken, Positions, orgVars, deriveVars
  <2>7. Dense'
    BY <1>0, <1>3, <2>4 DEF DeriveAddress, Dense, TypeOK, deriveVars
  <2>8. OwnsItsIndex'
    BY <1>3, <2>1, <2>3, <2>4 DEF DeriveAddress, At, OwnsItsIndex, TypeOK, deriveVars
  <2>9. Overtaken'
    BY <1>0, <1>3, <2>1, <2>3, <2>4 DEF DeriveAddress, At, Overtaken, TypeOK, deriveVars
  <2> QED BY <2>5, <2>6, <2>7, <2>8, <2>9
<1>4. CASE Recount(d)
  <2>1. PICK a \in {"derive"} : Goto(d, a)
    BY <1>4 DEF Recount
  <2>2. a \in Positions
    BY DEF Positions, DeriveAwaits, Ends
  <2>3. /\ pc' \in [Calls -> Positions]
        /\ pc'[d] = a
        /\ \A b \in Derives \ {d} : pc'[b] = pc[b]
    BY <2>1, <2>2, GotoMoves DEF Calls
  <2>4. /\ Indices' = Indices /\ WalletCount' = WalletCount
        /\ \A e : Owned(e)' = Owned(e)
    BY <1>4, SameWallets DEF Recount
  <2>5. Onboarding' /\ TokenAfterOnboarding'
    BY <1>4, <2>1, <2>4, DeriveStepKeepsOnboarding DEF Recount
  <2>6. TypeOK'
    BY <1>0, <1>4, <2>3, <2>4 DEF Recount, At, TypeOK, Overtaken, Positions, orgVars, deriveVars
  <2>7. Dense'
    BY <1>0, <1>4, <2>4 DEF Recount, Dense, TypeOK, deriveVars
  <2>8. OwnsItsIndex'
    BY <1>4, <2>1, <2>3, <2>4 DEF Recount, At, OwnsItsIndex, TypeOK, deriveVars
  <2>9. Overtaken'
    BY <1>0, <1>4, <2>1, <2>3, <2>4 DEF Recount, At, Overtaken, TypeOK, deriveVars
  <2> QED BY <2>5, <2>6, <2>7, <2>8, <2>9
<1>5. CASE Audit(d)
  <2>1. PICK a \in {"ok"} : Goto(d, a)
    BY <1>5 DEF Audit
  <2>2. a \in Positions
    BY DEF Positions, DeriveAwaits, Ends
  <2>3. /\ pc' \in [Calls -> Positions]
        /\ pc'[d] = a
        /\ \A b \in Derives \ {d} : pc'[b] = pc[b]
    BY <2>1, <2>2, GotoMoves DEF Calls
  <2>4. /\ Indices' = Indices /\ WalletCount' = WalletCount
        /\ \A e : Owned(e)' = Owned(e)
    BY <1>5, SameWallets DEF Audit
  <2>5. Onboarding' /\ TokenAfterOnboarding'
    BY <1>5, <2>1, <2>4, DeriveStepKeepsOnboarding DEF Audit
  <2>6. TypeOK'
    BY <1>0, <1>5, <2>3, <2>4 DEF Audit, At, TypeOK, Overtaken, Positions, orgVars, deriveVars
  <2>7. Dense'
    BY <1>0, <1>5, <2>4 DEF Audit, Dense, TypeOK, deriveVars
  <2>8. OwnsItsIndex'
    BY <1>5, <2>1, <2>3, <2>4 DEF Audit, At, OwnsItsIndex, TypeOK, deriveVars
  <2>9. Overtaken'
    BY <1>0, <1>5, <2>1, <2>3, <2>4 DEF Audit, At, Overtaken, TypeOK, deriveVars
  <2> QED BY <2>5, <2>6, <2>7, <2>8, <2>9
<1>6. CASE InsertDerived(d)
  <2>1. CASE InsertWallet(d, index[d]) /\ Goto(d, "audit")
    <3>1. "audit" \in Positions
      BY DEF Positions, DeriveAwaits
    <3>2. /\ pc' \in [Calls -> Positions]
          /\ pc'[d] = "audit"
          /\ \A b \in Derives \ {d} : pc'[b] = pc[b]
      BY <2>1, <3>1, GotoMoves DEF Calls
    <3>3. UNCHANGED <<orgVars, deriveVars>> /\ pc[d] = "insert"
      BY <1>6 DEF InsertDerived, At
    <3>4. index[d] <= WalletCount /\ index[d] \notin Indices
      BY <2>1 DEF Dense, InsertWallet
    <3>5. /\ WalletCount' = WalletCount + 1
          /\ Indices' = 0..(WalletCount' - 1)
          /\ Indices' = Indices \cup {index[d]}
          /\ wallets'[index[d]] = d
          /\ \A j \in Indices : wallets'[j] = wallets[j]
      BY <1>0, <2>1, <3>4, InsertIsNext
    <3>6. Onboarding' /\ TokenAfterOnboarding'
      BY <2>1, <3>3, <3>5, DeriveStepKeepsOnboarding
    <3>7. TypeOK'
      <4>1. Indices' \subseteq Nat
        BY <1>0, <3>5 DEF TypeOK
      <4>2. \A i \in Indices' : wallets'[i] \in Calls
        BY <3>5 DEF TypeOK
      <4> QED BY <3>2, <3>3, <4>1, <4>2 DEF TypeOK, Positions, orgVars, deriveVars
    <3>8. Dense'
      BY <1>0, <3>3, <3>5 DEF Dense, deriveVars
    <3>9. Owned(d)' = {index[d]}
      <4>1. Owned(d) = {}
        BY <3>3 DEF OwnsItsIndex
      <4> QED BY <3>4, <3>5, <4>1 DEF Owned
    <3>10. \A e \in Derives \ {d} : Owned(e)' = Owned(e)
      BY <3>4, <3>5 DEF Owned
    <3>11. OwnsItsIndex'
      BY <3>2, <3>3, <3>9, <3>10 DEF OwnsItsIndex, deriveVars
    <3>12. Overtaken'
      BY <1>0, <3>2, <3>3, <3>5 DEF Overtaken, deriveVars
    <3> QED BY <3>6, <3>7, <3>8, <3>11, <3>12
  <2>2. CASE /\ index[d] \in Indices
             /\ Goto(d, IF attempt[d] = MaxAttempts THEN "conflict" ELSE "recount")
             /\ UNCHANGED wallets
    <3>1. PICK a \in {"conflict", "recount"} :
             /\ Goto(d, a)
             /\ a = IF attempt[d] = MaxAttempts THEN "conflict" ELSE "recount"
      BY <2>2
    <3>2. a \in Positions
      BY DEF Positions, DeriveAwaits, Ends
    <3>3. /\ pc' \in [Calls -> Positions]
          /\ pc'[d] = a
          /\ \A b \in Derives \ {d} : pc'[b] = pc[b]
      BY <3>1, <3>2, GotoMoves DEF Calls
    <3>4. UNCHANGED <<orgVars, deriveVars>> /\ pc[d] = "insert"
      BY <1>6 DEF InsertDerived, At
    <3>5. /\ Indices' = Indices /\ WalletCount' = WalletCount
          /\ \A e : Owned(e)' = Owned(e)
      BY <2>2, SameWallets
    <3>6. Onboarding' /\ TokenAfterOnboarding'
      BY <2>2, <3>1, <3>4, <3>5, DeriveStepKeepsOnboarding
    <3>7. TypeOK'
      BY <2>2, <3>3, <3>4, <3>5 DEF TypeOK, Positions, orgVars, deriveVars
    <3>8. Dense'
      BY <3>4, <3>5 DEF Dense, deriveVars
    <3>9. OwnsItsIndex'
      BY <3>1, <3>3, <3>4, <3>5 DEF OwnsItsIndex, deriveVars
    <3>10. index[d] < WalletCount /\ index[d] >= start[d] + attempt[d] - 1
      BY <1>0, <2>2, <3>4 DEF Dense, Overtaken
    <3>11. Overtaken'
      BY <1>0, <3>1, <3>3, <3>4, <3>5, <3>10 DEF Overtaken, deriveVars
    <3> QED BY <3>6, <3>7, <3>8, <3>9, <3>11
  <2> QED BY <1>6, <2>1, <2>2 DEF InsertDerived
<1> QED
  BY <1>1, <1>2, <1>3, <1>4, <1>5, <1>6 DEF Derive

(* A call that dies leaves the tables as they are.                         *)
LEMMA CrashStep ==
    ASSUME WalletInv, NEW c \in Calls, Crash(c)
    PROVE  WalletInv'
<1> USE DEF WalletInv
<1>1. "dead" \in Positions /\ Goto(c, "dead")
  BY DEF Positions, Ends, Crash
<1>2. /\ pc' \in [Calls -> Positions]
      /\ pc'[c] = "dead"
      /\ \A b \in Calls \ {c} : pc'[b] = pc[b]
  BY <1>1, GotoMoves
<1>3. UNCHANGED <<orgVars, wallets, deriveVars>>
  BY DEF Crash
<1>4. /\ Indices' = Indices /\ WalletCount' = WalletCount
      /\ \A e : Owned(e)' = Owned(e)
  BY <1>3, SameWallets
<1>5. TypeOK'
  BY <1>2, <1>3, <1>4 DEF TypeOK, Positions, orgVars, deriveVars
<1>6. Dense' /\ OwnsItsIndex'
  BY <1>2, <1>3, <1>4 DEF Dense, OwnsItsIndex, Calls, deriveVars
<1>7. Overtaken'
  BY <1>2, <1>3, <1>4 DEF Overtaken, Calls, deriveVars
<1>8. Onboarding' /\ TokenAfterOnboarding'
  BY <1>2, <1>3, <1>4 DEF Onboarding, TokenAfterOnboarding, Calls, orgVars
<1> QED BY <1>5, <1>6, <1>7, <1>8

(* The invariant holds in every reachable state.                           *)
LEMMA WalletInvariance == Spec => []WalletInv
<1>1. Init => WalletInv
  BY InitWallets
<1>2. WalletInv /\ [Next]_vars => WalletInv'
  <2> SUFFICES ASSUME WalletInv, [Next]_vars PROVE WalletInv'
    OBVIOUS
  <2>1. CASE UNCHANGED vars
    <3>1. /\ Indices' = Indices /\ WalletCount' = WalletCount
          /\ \A e : Owned(e)' = Owned(e)
      BY <2>1, SameWallets DEF vars
    <3>2. TypeOK' /\ Dense' /\ OwnsItsIndex'
      BY <2>1, <3>1 DEF WalletInv, TypeOK, Dense, OwnsItsIndex, vars
    <3>3. Overtaken' /\ Onboarding' /\ TokenAfterOnboarding'
      BY <2>1, <3>1 DEF WalletInv, Overtaken, Onboarding, TokenAfterOnboarding, vars
    <3> QED BY <3>2, <3>3 DEF WalletInv
  <2>2. CASE \E c \in Creates : FindSlug(c) \/ Create(c)
    BY <2>2, CreateStep
  <2>3. CASE \E d \in Derives : FindPrerequisites(d) \/ Derive(d)
    BY <2>3, DeriveStep
  <2>4. CASE \E c \in Calls : Crash(c)
    BY <2>4, CrashStep
  <2> QED BY <2>1, <2>2, <2>3, <2>4 DEF Next
<1> QED BY <1>1, <1>2, PTL DEF Spec

(* Tables and calls keep their types: in particular no interleaving makes  *)
(* the retry counter of a derivation exceed MAX_DERIVE_ATTEMPTS, although  *)
(* the attempt is incremented without looking at it again (deriveWallet).  *)
THEOREM TypesAreKept == Spec => []TypeOK
<1>1. WalletInv => TypeOK
  BY DEF WalletInv
<1> QED BY <1>1, WalletInvariance, PTL

(* Counting the wallets gives the next free index: however derivations     *)
(* race and crash, the indices in use have no hole (deriveWallet).         *)
THEOREM IndicesAreDense == Spec => []IndicesDense
<1>1. WalletInv => IndicesDense
  BY DEF WalletInv, Dense, IndicesDense
<1> QED BY <1>1, WalletInvariance, PTL

(* The address in a derivation's reply is that of the one wallet this very *)
(* call inserted (deriveWallet).                                           *)
THEOREM RepliesAreTruthful == Spec => []ReplyIsOwnWallet
<1>1. WalletInv => ReplyIsOwnWallet
  BY DEF WalletInv, OwnsItsIndex, Owned, ReplyIsOwnWallet
<1> QED BY <1>1, WalletInvariance, PTL

(* A derivation is refused only after as many other wallets as it has      *)
(* attempts were inserted since it began (deriveWallet).                   *)
THEOREM RefusalsAreEarned == Spec => []ConflictNeedsWinners
<1>1. WalletInv => ConflictNeedsWinners
  BY DEF WalletInv, Overtaken, ConflictNeedsWinners, WalletCount
<1> QED BY <1>1, WalletInvariance, PTL

(* The bootstrap token exists only once seed and first wallet do           *)
(* (OrganizationsService.create).                                          *)
THEOREM TokenComesLast == Spec => []TokenAfterOnboarding
<1>1. WalletInv => TokenAfterOnboarding
  BY DEF WalletInv
<1> QED BY <1>1, WalletInvariance, PTL

=============================================================================
