---------------------------- MODULE ApiKeysProofs ----------------------------
(***************************************************************************)
(* What ApiKeys guarantees for every set of organizations and calls.       *)
(*                                                                         *)
(* Neither theorem is inductive as it stands.  That a revocation is        *)
(* effective needs that an answered revocation's key is revoked and stays  *)
(* so (AnsweredRevocation), which in turn needs that no insert ever hits   *)
(* a row that is there (NoRowYet).  That the token is one-time needs that  *)
(* an answered registration's token is gone (SpentToken) and that a call   *)
(* past the check found it (TokenWasThere).                                *)
(***************************************************************************)
EXTENDS ApiKeys, TLAPS

\* The awaits of each route.
Located ==
    \A c \in Calls :
        /\ pc[c] \in {"find", "revoke"} => kind[c] = "revoke"
        /\ pc[c] = "serve" => kind[c] = "use"
        /\ pc[c] \in {"resolve", "validate", "has_scope", "insert", "clear"}
              => kind[c] = "register"
        /\ pc[c] = "audit" => kind[c] # "use"
        /\ tok[c] # NoOrg => kind[c] = "register"
        /\ pc[c] \in {"resolve", "validate", "clear"} => tok[c] # NoOrg
        /\ pc[c] = "has_scope" => stamp[c] # NoKey /\ tok[c] = NoOrg
        /\ touch[c] = "pending" => stamp[c] # NoKey
        /\ pc[c] \in {"idle", "guard", "find"} => target[c] = NoKey
        /\ pc[c] \in {"idle", "guard"} => touch[c] = "none"

NoRowYet ==
    \A c \in Calls :
        pc[c] \in {"idle", "guard", "resolve", "validate", "has_scope", "insert"}
           => keys[c] = NoRow

\* A stamp names a row that is there.
StampsExist == \A c \in Calls : stamp[c] # NoKey => Exists(stamp[c])

\* Past the guards a call acts for the organization of its credential.
ActsForOrg ==
    \A c \in Calls :
        /\ pc[c] \in {"insert", "clear", "audit", "ok"} /\ tok[c] # NoOrg
              => org[c] = tok[c]
        /\ pc[c] \in {"has_scope", "insert", "find", "revoke"}
              => Vouches(org[c], c)
        /\ pc[c] \in {"find", "revoke"} =>
              /\ stamp[c] # NoKey
              /\ keys[stamp[c]].org = org[c]
              /\ "key:write" \in keys[stamp[c]].scopes
        /\ pc[c] = "revoke" =>
              target[c] \in Calls /\ Exists(target[c]) /\ keys[target[c]].org = org[c]

AnsweredRevocation ==
    \A d \in Calls :
        kind[d] = "revoke" /\ pc[d] \in {"audit", "ok"}
           => target[d] \in Calls /\ keys[target[d]].status = "revoked"

BeforeAnswered == \A c \in Calls : \A d \in before[c] : pc[d] = "ok"

PastGuard == (Awaits \ {"guard"}) \cup {"ok"}

StampedBeforeRevocation ==
    \A c \in Calls : pc[c] \in PastGuard =>
        \A d \in before[c] : ~RevokesKeyOf(d, c)

SpentToken ==
    \A c \in Calls :
        pc[c] \in {"audit", "ok"} /\ tok[c] # NoOrg => tok[c] \notin token

TokenWasThere ==
    \A c \in Calls :
        pc[c] \in {"insert", "clear", "audit", "ok"} /\ tok[c] # NoOrg =>
            \A d \in before[c] : tok[d] # tok[c]

KeyInv ==
    /\ TypeOK
    /\ Located
    /\ NoRowYet
    /\ StampsExist
    /\ ActsForOrg
    /\ AnsweredRevocation
    /\ BeforeAnswered
    /\ StampedBeforeRevocation
    /\ SpentToken
    /\ TokenWasThere
    /\ KeysStayInOrg


-----------------------------------------------------------------------------
USE DEF At, Goto, Exists

LEMMA KeyInit == Init => KeyInv
  BY NoneAssumption
     DEF Init, KeyInv, TypeOK, Located, NoRowYet, StampsExist, ActsForOrg,
         AnsweredRevocation, BeforeAnswered, StampedBeforeRevocation,
         SpentToken, TokenWasThere, KeysStayInOrg, NoRow, KeyRow, PastGuard,
         Awaits, Outcomes, Kinds

\* The two updates of a row keep it one.
LEMMA RowUpdates ==
    ASSUME NEW row \in KeyRow
    PROVE  /\ Touched(row) \in KeyRow
           /\ [row EXCEPT !.status = "revoked"] \in KeyRow
  BY DEF KeyRow, Touched

(* A step of call c that changes only where it stands: it does not enter   *)
(* a stage whose invariants it does not already meet.                      *)
LEMMA PcStep ==
    ASSUME KeyInv, NEW c \in Calls,
           \/ GuardRefuses(c) \/ GuardOptional(c) \/ ValidateToken(c)
           \/ HasScope(c) \/ InsertRefused(c) \/ Audit(c) \/ Serve(c) \/ Crash(c)
    PROVE  KeyInv'
  <1> USE DEF KeyInv, TypeOK, headerVars, GuardRefuses, GuardOptional,
              ValidateToken, HasScope, InsertRefused, Audit, Serve, Crash
  <1>pc. /\ UNCHANGED <<keys, token, org, target, touch, headerVars>>
         /\ \A d \in Calls : d # c => pc'[d] = pc[d]
    BY DEF Awaits
  <1>1. TypeOK'
    BY <1>pc DEF Awaits, Outcomes
  <1>2. Located'
    BY <1>pc DEF Located, Awaits
  <1>3. NoRowYet'
    BY <1>pc DEF NoRowYet, Awaits
  <1>4. StampsExist'
    BY <1>pc DEF StampsExist
  <1>5. ActsForOrg'
    BY <1>pc, NoneAssumption DEF ActsForOrg, Vouches, Located, Awaits
  <1>6. AnsweredRevocation'
    BY <1>pc DEF AnsweredRevocation, Located, Awaits
  <1>7. BeforeAnswered'
    BY <1>pc DEF BeforeAnswered, Awaits
  <1>8. StampedBeforeRevocation'
    BY <1>pc DEF StampedBeforeRevocation, RevokesKeyOf, PastGuard, Awaits
  <1>9. SpentToken'
    BY <1>pc DEF SpentToken, Located, Awaits
  <1>10. TokenWasThere'
    <2>1. ASSUME NEW d \in before[c], ValidateToken(c), pc'[c] = "insert"
          PROVE  tok[d] # tok[c]
      BY <2>1 DEF BeforeAnswered, SpentToken, Located
    <2>2. pc[c] \notin {"insert", "clear", "audit", "ok"}
             /\ pc'[c] \in {"insert", "clear", "audit", "ok"} /\ tok[c] # NoOrg
             => ValidateToken(c) /\ pc'[c] = "insert"
      BY DEF Located, Awaits
    <2> QED
      BY <1>pc, <2>1, <2>2 DEF TokenWasThere
  <1>11. KeysStayInOrg'
    BY <1>pc DEF KeysStayInOrg, Vouches
  <1> QED
    BY <1>1, <1>2, <1>3, <1>4, <1>5, <1>6, <1>7, <1>8, <1>9, <1>10, <1>11

\* The guards let c through: its key was active, so no answered revocation's.
LEMMA PassStep ==
    ASSUME KeyInv, NEW c \in Calls, GuardPasses(c)
    PROVE  KeyInv'
  <1> USE DEF KeyInv, TypeOK
  <1>a. /\ UNCHANGED <<keys, token, target, kind, stamp, tok, before>>
        /\ pc[c] = "guard" /\ stamp[c] \in Calls /\ keys[stamp[c]].status = "active"
        /\ \A d \in Calls : d # c => pc'[d] = pc[d] /\ org'[d] = org[d] /\ touch'[d] = touch[d]
        /\ org'[c] = keys[stamp[c]].org /\ touch'[c] = "pending"
    BY DEF GuardPasses, Verified, headerVars
  <1>b. \/ /\ kind[c] = "register"
           /\ pc'[c] = IF tok[c] # NoOrg THEN "validate" ELSE "has_scope"
        \/ kind[c] = "use" /\ pc'[c] = "serve"
        \/ /\ kind[c] = "revoke" /\ pc'[c] = "find"
           /\ "key:write" \in keys[stamp[c]].scopes
        \/ pc'[c] = "refused"
    <2>1. "*" \notin keys[stamp[c]].scopes
      BY <1>a DEF KeyRow, ValidScopes, DefaultScopes
    <2>2. CASE kind[c] = "revoke"
      <3>1. RouteScopes[kind[c]] = {{"key:write"}}
        BY <2>2 DEF RouteScopes
      <3> QED
        BY <1>a, <2>1, <2>2, <3>1 DEF GuardPasses, ScopesPass, Handler
    <2>3. CASE kind[c] # "revoke"
      BY <2>3 DEF GuardPasses, Handler, Kinds
    <2> QED
      BY <2>2, <2>3
  <1>1. TypeOK'
    BY DEF GuardPasses, Handler, headerVars, Awaits, Outcomes, Kinds, KeyRow
  <1>2. Located'
    BY <1>a, <1>b, NoneAssumption DEF Located
  <1>3. NoRowYet'
    BY <1>a, <1>b, NoneAssumption DEF NoRowYet
  <1>4. StampsExist'
    BY <1>a, <1>b, NoneAssumption DEF StampsExist
  <1>5. ActsForOrg'
    BY <1>a, <1>b, NoneAssumption DEF ActsForOrg, Vouches, Located
  <1>6. AnsweredRevocation'
    BY <1>a, <1>b, NoneAssumption DEF AnsweredRevocation, Located
  <1>7. BeforeAnswered'
    BY <1>a, <1>b, NoneAssumption DEF BeforeAnswered
  <1>8. StampedBeforeRevocation'
    <2>1. ASSUME NEW d \in before[c]
          PROVE  ~RevokesKeyOf(d, c)
      BY <2>1, <1>a DEF BeforeAnswered, AnsweredRevocation, RevokesKeyOf
    <2> QED
      BY <1>a, <2>1 DEF StampedBeforeRevocation, RevokesKeyOf
  <1>9. SpentToken'
    BY <1>a, <1>b, NoneAssumption DEF SpentToken, Located
  <1>10. TokenWasThere'
    BY <1>a, <1>b, NoneAssumption DEF TokenWasThere, Located
  <1>11. KeysStayInOrg'
    BY <1>a, <1>b, NoneAssumption DEF KeysStayInOrg, Vouches
  <1> QED
    BY <1>1, <1>2, <1>3, <1>4, <1>5, <1>6, <1>7, <1>8, <1>9, <1>10, <1>11

\* The background update changes neither status, organization nor scopes.
LEMMA TouchStep ==
    ASSUME KeyInv, NEW c \in Calls, TouchWrites(c) \/ TouchFails(c)
    PROVE  KeyInv'
  <1> USE DEF KeyInv, TypeOK
  <1>a. /\ UNCHANGED <<token, pc, org, target, kind, stamp, tok, before>>
        /\ touch[c] = "pending" /\ stamp[c] \in Calls
        /\ touch'[c] = "over"
        /\ \A d \in Calls : d # c => touch'[d] = touch[d]
    BY DEF TouchWrites, TouchFails, headerVars, Located
  <1>b. \A k \in Calls : /\ keys'[k].status = keys[k].status
                           /\ keys'[k].org = keys[k].org
                           /\ keys'[k].scopes = keys[k].scopes
    BY <1>a DEF TouchWrites, TouchFails, Touched, KeyRow
  <1>c. \A k \in Calls : k # stamp[c] => keys'[k] = keys[k]
    BY <1>a DEF TouchWrites, TouchFails
  <1>1. TypeOK'
    <2>1. Touched(keys[stamp[c]]) \in KeyRow
      BY <1>a, RowUpdates
    <2> QED
      BY <1>a, <2>1 DEF TouchWrites, TouchFails
  <1>2. Located'
    BY <1>a, <1>b, <1>c, NoneAssumption DEF Located
  <1>3. NoRowYet'
    <2>1. keys[stamp[c]] # NoRow
      BY <1>a, NoneAssumption DEF StampsExist, NoRow
    <2> QED
      BY <1>a, <1>c, <2>1 DEF NoRowYet
  <1>4. StampsExist'
    BY <1>a, <1>b, <1>c, NoneAssumption DEF StampsExist
  <1>5. ActsForOrg'
    BY <1>a, <1>b, NoneAssumption DEF ActsForOrg, Vouches
  <1>6. AnsweredRevocation'
    BY <1>a, <1>b, <1>c, NoneAssumption DEF AnsweredRevocation, Located
  <1>7. BeforeAnswered'
    BY <1>a, <1>b, <1>c, NoneAssumption DEF BeforeAnswered
  <1>8. StampedBeforeRevocation'
    BY <1>a, <1>b, <1>c, NoneAssumption DEF StampedBeforeRevocation, RevokesKeyOf, PastGuard, Awaits
  <1>9. SpentToken'
    BY <1>a, <1>b, <1>c, NoneAssumption DEF SpentToken, Located
  <1>10. TokenWasThere'
    BY <1>a, <1>b, <1>c, NoneAssumption DEF TokenWasThere, Located
  <1>11. KeysStayInOrg'
    BY <1>a, <1>b, <1>c, NoneAssumption DEF KeysStayInOrg, Vouches
  <1> QED
    BY <1>1, <1>2, <1>3, <1>4, <1>5, <1>6, <1>7, <1>8, <1>9, <1>10, <1>11

\* The organization comes from the token.
LEMMA ResolveStep ==
    ASSUME KeyInv, NEW c \in Calls, ResolveOrg(c)
    PROVE  KeyInv'
  <1> USE DEF KeyInv, TypeOK
  <1>a. /\ UNCHANGED <<keys, token, target, touch, kind, stamp, tok, before>>
        /\ pc[c] = "resolve" /\ pc'[c] \in {"validate", "refused"}
        /\ \A d \in Calls : d # c => pc'[d] = pc[d] /\ org'[d] = org[d]
    BY DEF ResolveOrg, headerVars
  <1>1. TypeOK'
    BY DEF ResolveOrg, headerVars, Awaits, Outcomes
  <1>2. Located'
    BY <1>a, NoneAssumption DEF Located
  <1>3. NoRowYet'
    BY <1>a, NoneAssumption DEF NoRowYet
  <1>4. StampsExist'
    BY <1>a, NoneAssumption DEF StampsExist
  <1>5. ActsForOrg'
    BY <1>a, NoneAssumption DEF ActsForOrg, Vouches, Located
  <1>6. AnsweredRevocation'
    BY <1>a, NoneAssumption DEF AnsweredRevocation, Located
  <1>7. BeforeAnswered'
    BY <1>a, NoneAssumption DEF BeforeAnswered
  <1>8. StampedBeforeRevocation'
    BY <1>a, NoneAssumption DEF StampedBeforeRevocation, RevokesKeyOf, PastGuard, Awaits
  <1>9. SpentToken'
    BY <1>a, NoneAssumption DEF SpentToken, Located
  <1>10. TokenWasThere'
    BY <1>a, NoneAssumption DEF TokenWasThere, Located
  <1>11. KeysStayInOrg'
    BY <1>a, NoneAssumption DEF KeysStayInOrg, Vouches
  <1> QED
    BY <1>1, <1>2, <1>3, <1>4, <1>5, <1>6, <1>7, <1>8, <1>9, <1>10, <1>11

\* The insert makes a row where none was.
LEMMA InsertStep ==
    ASSUME KeyInv, NEW c \in Calls, InsertKey(c)
    PROVE  KeyInv'
  <1> USE DEF KeyInv, TypeOK
  <1>a. /\ UNCHANGED <<token, org, target, touch, kind, stamp, tok, before>>
        /\ pc[c] = "insert" /\ pc'[c] = IF tok[c] # NoOrg THEN "clear" ELSE "audit"
        /\ kind[c] = "register"
        /\ \A d \in Calls : d # c => pc'[d] = pc[d]
    BY DEF InsertKey, AfterInsert, headerVars, Located
  <1>b. /\ keys[c].status = "none"
        /\ keys'[c].status = "active" /\ keys'[c].org = org[c]
        /\ \A k \in Calls : k # c => keys'[k] = keys[k]
    BY DEF InsertKey, NoRowYet, NoRow
  <1>c. \A d \in Calls : stamp[d] # c /\ (pc[d] = "revoke" => target[d] # c)
    BY <1>b, NoneAssumption DEF StampsExist, ActsForOrg
  <1>1. TypeOK'
    <2>1. keys' \in [Calls -> KeyRow]
      BY DEF InsertKey, GrantedScopes, ValidScopes, DefaultScopes, KeyRow
    <2> QED
      BY <2>1 DEF InsertKey, AfterInsert, headerVars, Awaits, Outcomes
  <1>2. Located'
    BY <1>a, <1>b, <1>c, NoneAssumption DEF Located
  <1>3. NoRowYet'
    BY <1>a, <1>b, <1>c, NoneAssumption DEF NoRowYet
  <1>4. StampsExist'
    BY <1>a, <1>b, <1>c, NoneAssumption DEF StampsExist
  <1>5. ActsForOrg'
    BY <1>a, <1>b, <1>c, NoneAssumption DEF ActsForOrg, Vouches, Located
  <1>6. AnsweredRevocation'
    BY <1>a, <1>b, <1>c, NoneAssumption DEF AnsweredRevocation, Located
  <1>7. BeforeAnswered'
    BY <1>a, <1>b, <1>c, NoneAssumption DEF BeforeAnswered
  <1>8. StampedBeforeRevocation'
    BY <1>a, <1>b, <1>c, NoneAssumption DEF StampedBeforeRevocation, RevokesKeyOf, PastGuard, Awaits
  <1>9. SpentToken'
    BY <1>a, <1>b, <1>c, NoneAssumption DEF SpentToken, Located
  <1>10. TokenWasThere'
    BY <1>a, <1>b, <1>c, NoneAssumption DEF TokenWasThere, Located
  <1>11. KeysStayInOrg'
    BY <1>a, <1>b, <1>c, NoneAssumption DEF KeysStayInOrg, Vouches, ActsForOrg
  <1> QED
    BY <1>1, <1>2, <1>3, <1>4, <1>5, <1>6, <1>7, <1>8, <1>9, <1>10, <1>11

\* The token goes.
LEMMA ClearStep ==
    ASSUME KeyInv, NEW c \in Calls, ClearToken(c)
    PROVE  KeyInv'
  <1> USE DEF KeyInv, TypeOK
  <1>a. /\ UNCHANGED <<keys, org, target, touch, kind, stamp, tok, before>>
        /\ pc[c] = "clear" /\ pc'[c] = "audit"
        /\ tok[c] # NoOrg /\ org[c] = tok[c] /\ kind[c] = "register"
        /\ token' = token \ {tok[c]}
        /\ \A d \in Calls : d # c => pc'[d] = pc[d]
    BY DEF ClearToken, headerVars, Located, ActsForOrg
  <1>1. TypeOK'
    BY DEF ClearToken, headerVars, Awaits, Outcomes
  <1>2. Located'
    BY <1>a, NoneAssumption DEF Located
  <1>3. NoRowYet'
    BY <1>a, NoneAssumption DEF NoRowYet
  <1>4. StampsExist'
    BY <1>a, NoneAssumption DEF StampsExist
  <1>5. ActsForOrg'
    BY <1>a, NoneAssumption DEF ActsForOrg, Vouches, Located
  <1>6. AnsweredRevocation'
    BY <1>a, NoneAssumption DEF AnsweredRevocation, Located
  <1>7. BeforeAnswered'
    BY <1>a, NoneAssumption DEF BeforeAnswered
  <1>8. StampedBeforeRevocation'
    BY <1>a, NoneAssumption DEF StampedBeforeRevocation, RevokesKeyOf, PastGuard, Awaits
  <1>9. SpentToken'
    BY <1>a, NoneAssumption DEF SpentToken, Located
  <1>10. TokenWasThere'
    BY <1>a, NoneAssumption DEF TokenWasThere, Located
  <1>11. KeysStayInOrg'
    BY <1>a, NoneAssumption DEF KeysStayInOrg, Vouches
  <1> QED
    BY <1>1, <1>2, <1>3, <1>4, <1>5, <1>6, <1>7, <1>8, <1>9, <1>10, <1>11

\* The row to revoke is one of the caller's organization.
LEMMA FindStep ==
    ASSUME KeyInv, NEW c \in Calls, FindKey(c)
    PROVE  KeyInv'
  <1> USE DEF KeyInv, TypeOK
  <1>a. /\ UNCHANGED <<keys, token, org, touch, kind, stamp, tok, before>>
        /\ pc[c] = "find" /\ kind[c] = "revoke"
        /\ \A d \in Calls : d # c => pc'[d] = pc[d] /\ target'[d] = target[d]
    BY DEF FindKey, headerVars, Located
  <1>b. \/ /\ pc'[c] = "revoke" /\ target'[c] \in Calls
           /\ Exists(target'[c]) /\ keys[target'[c]].org = org[c]
        \/ pc'[c] = "refused" /\ target' = target
    BY DEF FindKey, MayRevoke
  <1>1. TypeOK'
    BY DEF FindKey, headerVars, Awaits, Outcomes
  <1>2. Located'
    BY <1>a, <1>b, NoneAssumption DEF Located
  <1>3. NoRowYet'
    BY <1>a, <1>b, NoneAssumption DEF NoRowYet
  <1>4. StampsExist'
    BY <1>a, <1>b, NoneAssumption DEF StampsExist
  <1>5. ActsForOrg'
    BY <1>a, <1>b, NoneAssumption DEF ActsForOrg, Vouches, Located
  <1>6. AnsweredRevocation'
    BY <1>a, <1>b, NoneAssumption DEF AnsweredRevocation, Located
  <1>7. BeforeAnswered'
    BY <1>a, <1>b, NoneAssumption DEF BeforeAnswered
  <1>8. StampedBeforeRevocation'
    <2>1. \A e \in Calls : c \notin before[e]
      BY <1>a DEF BeforeAnswered
    <2> QED
      BY <1>a, <1>b, <2>1 DEF StampedBeforeRevocation, RevokesKeyOf, PastGuard, Awaits
  <1>9. SpentToken'
    BY <1>a, <1>b, NoneAssumption DEF SpentToken, Located
  <1>10. TokenWasThere'
    BY <1>a, <1>b, NoneAssumption DEF TokenWasThere, Located
  <1>11. KeysStayInOrg'
    BY <1>a, <1>b, NoneAssumption DEF KeysStayInOrg, Vouches, Located
  <1> QED
    BY <1>1, <1>2, <1>3, <1>4, <1>5, <1>6, <1>7, <1>8, <1>9, <1>10, <1>11

\* The row is revoked.
LEMMA RevokeStep ==
    ASSUME KeyInv, NEW c \in Calls, RevokeKey(c)
    PROVE  KeyInv'
  <1> USE DEF KeyInv, TypeOK
  <1>a. /\ UNCHANGED <<token, org, target, touch, kind, stamp, tok, before>>
        /\ pc[c] = "revoke" /\ pc'[c] = "audit" /\ kind[c] = "revoke"
        /\ target[c] \in Calls /\ keys[target[c]].status # "none"
        /\ \A d \in Calls : d # c => pc'[d] = pc[d]
    BY DEF RevokeKey, headerVars, Located, ActsForOrg
  <1>b. /\ \A k \in Calls : k # target[c] => keys'[k] = keys[k]
        /\ keys'[target[c]].status = "revoked"
        /\ \A k \in Calls : /\ keys'[k].org = keys[k].org
                              /\ keys'[k].scopes = keys[k].scopes
    BY <1>a DEF RevokeKey, KeyRow
  <1>1. TypeOK'
    <2>1. keys' \in [Calls -> KeyRow]
      BY <1>a, RowUpdates DEF RevokeKey
    <2> QED
      BY <2>1 DEF RevokeKey, headerVars, Awaits, Outcomes
  <1>2. Located'
    BY <1>a, <1>b, NoneAssumption DEF Located
  <1>3. NoRowYet'
    <2>1. keys[target[c]] # NoRow
      BY <1>a DEF NoRow
    <2> QED
      BY <1>a, <1>b, <2>1 DEF NoRowYet
  <1>4. StampsExist'
    BY <1>a, <1>b, NoneAssumption DEF StampsExist
  <1>5. ActsForOrg'
    BY <1>a, <1>b, NoneAssumption DEF ActsForOrg, Vouches, Located
  <1>6. AnsweredRevocation'
    BY <1>a, <1>b, NoneAssumption DEF AnsweredRevocation, Located
  <1>7. BeforeAnswered'
    BY <1>a, <1>b, NoneAssumption DEF BeforeAnswered
  <1>8. StampedBeforeRevocation'
    BY <1>a, <1>b, NoneAssumption DEF StampedBeforeRevocation, RevokesKeyOf, PastGuard, Awaits
  <1>9. SpentToken'
    BY <1>a, <1>b, NoneAssumption DEF SpentToken, Located
  <1>10. TokenWasThere'
    BY <1>a, <1>b, NoneAssumption DEF TokenWasThere, Located
  <1>11. KeysStayInOrg'
    BY <1>a, <1>b DEF KeysStayInOrg, Vouches, ActsForOrg
  <1> QED
    BY <1>1, <1>2, <1>3, <1>4, <1>5, <1>6, <1>7, <1>8, <1>9, <1>10, <1>11

\* A new call: everything answered so far is before it.
LEMMA ArriveStep ==
    ASSUME KeyInv, NEW c \in Calls, Arrive(c)
    PROVE  KeyInv'
  <1> USE DEF KeyInv, TypeOK
  <1>a. /\ UNCHANGED <<keys, token, org, target, touch, kind>>
        /\ pc[c] = "idle" /\ pc'[c] = "guard"
        /\ \A d \in Calls : d # c => /\ pc'[d] = pc[d] /\ stamp'[d] = stamp[d]
                                         /\ tok'[d] = tok[d] /\ before'[d] = before[d]
    BY DEF Arrive
  <1>b. /\ stamp'[c] = NoKey \/ (stamp'[c] \in Calls /\ Exists(stamp'[c]))
        /\ kind[c] # "register" => tok'[c] = NoOrg
        /\ before'[c] = {d \in Calls : pc[d] = "ok"}
    BY DEF Arrive
  <1>c. /\ keys[c].status = "none"
        /\ \A d \in Calls : pc[d] \in PastGuard \cup {"refused"} => d # c
        /\ \A d \in Calls : c \notin before[d]
    BY <1>a DEF NoRowYet, NoRow, PastGuard, Awaits, BeforeAnswered
  <1>1. TypeOK'
    BY DEF Arrive, Awaits, Outcomes
  <1>2. Located'
    BY <1>a, <1>b, NoneAssumption DEF Located, Awaits
  <1>3. NoRowYet'
    BY <1>a, <1>b, <1>c, NoneAssumption DEF NoRowYet
  <1>4. StampsExist'
    BY <1>a, <1>b, <1>c, NoneAssumption DEF StampsExist
  <1>5. ActsForOrg'
    BY <1>a, <1>b, <1>c, NoneAssumption DEF ActsForOrg, Vouches, Located
  <1>6. AnsweredRevocation'
    BY <1>a, <1>b, <1>c, NoneAssumption DEF AnsweredRevocation, Located
  <1>7. BeforeAnswered'
    BY <1>a, <1>b, <1>c, NoneAssumption DEF BeforeAnswered
  <1>8. StampedBeforeRevocation'
    BY <1>a, <1>b, <1>c, NoneAssumption DEF StampedBeforeRevocation, RevokesKeyOf, PastGuard, Awaits
  <1>9. SpentToken'
    BY <1>a, <1>b, <1>c, NoneAssumption DEF SpentToken, Located
  <1>10. TokenWasThere'
    BY <1>a, <1>b, <1>c, NoneAssumption DEF TokenWasThere, Located
  <1>11. KeysStayInOrg'
    BY <1>a, <1>b, <1>c, NoneAssumption DEF KeysStayInOrg, Vouches, Located
  <1> QED
    BY <1>1, <1>2, <1>3, <1>4, <1>5, <1>6, <1>7, <1>8, <1>9, <1>10, <1>11

LEMMA KeyStep == KeyInv /\ [Next]_vars => KeyInv'
  <1> SUFFICES ASSUME KeyInv, [Next]_vars
               PROVE  KeyInv'
    OBVIOUS
  <1>1. CASE UNCHANGED vars
    BY <1>1 DEF vars, headerVars, KeyInv, TypeOK, Located, NoRowYet,
                StampsExist, ActsForOrg, Vouches, AnsweredRevocation,
                BeforeAnswered, StampedBeforeRevocation, RevokesKeyOf,
                SpentToken, TokenWasThere, KeysStayInOrg
  <1>2. CASE Next
    BY <1>2, PcStep, PassStep, TouchStep, ResolveStep, InsertStep, ClearStep,
       FindStep, RevokeStep, ArriveStep DEF Next
  <1> QED
    BY <1>1, <1>2

LEMMA KeyInvariant == Spec => []KeyInv
  BY KeyInit, KeyStep, PTL DEF Spec

(* No call that arrives after a revocation was answered is served with the *)
(* revoked key, whatever else is in flight.                                *)
THEOREM RevocationTakesEffect == Spec => []RevocationIsEffective
  <1>1. KeyInv => RevocationIsEffective
    BY DEF KeyInv, StampedBeforeRevocation, PastGuard, RevocationIsEffective
  <1> QED
    BY <1>1, KeyInvariant, PTL

(* No call that arrives after a registration with the bootstrap token was  *)
(* answered registers a key with that token.                               *)
THEOREM TokenWorksOnce == Spec => []TokenIsOneTime
  <1>1. KeyInv => TokenIsOneTime
    BY DEF KeyInv, TokenWasThere, TokenIsOneTime
  <1> QED
    BY <1>1, KeyInvariant, PTL

(* Keys are registered and revoked only on behalf of their organization.   *)
THEOREM KeysBelongToTheirOrg == Spec => []KeysStayInOrg
  <1>1. KeyInv => KeysStayInOrg
    BY DEF KeyInv
  <1> QED
    BY <1>1, KeyInvariant, PTL

(* Neither the background update of last_used_at nor a registration ever   *)
(* reactivates a revoked key.                                              *)
THEOREM RevocationIsFinal == Spec => RevokedStaysRevoked
  <1>1. ASSUME KeyInv, [Next]_vars, NEW k \in Calls, keys[k].status = "revoked"
        PROVE  keys'[k].status = "revoked"
    <2>1. \/ UNCHANGED keys
          \/ \E c \in Calls : TouchWrites(c) \/ InsertKey(c) \/ RevokeKey(c)
      BY <1>1 DEF Next, vars, Arrive, GuardRefuses, GuardOptional, GuardPasses,
             TouchFails, ResolveOrg, ValidateToken, HasScope, InsertRefused,
             ClearToken, Audit, FindKey, Serve, Crash
    <2>2. ASSUME NEW c \in Calls, TouchWrites(c)
          PROVE  keys'[k].status = "revoked"
      BY <1>1, <2>2 DEF TouchWrites, Touched, KeyInv, TypeOK, KeyRow
    <2>3. ASSUME NEW c \in Calls, InsertKey(c)
          PROVE  keys'[k].status = "revoked"
      BY <1>1, <2>3 DEF InsertKey, KeyInv, TypeOK, NoRowYet, NoRow
    <2>4. ASSUME NEW c \in Calls, RevokeKey(c)
          PROVE  keys'[k].status = "revoked"
      BY <1>1, <2>4 DEF RevokeKey, KeyInv, TypeOK, KeyRow
    <2> QED
      BY <1>1, <2>1, <2>2, <2>3, <2>4
  <1>2. KeyInv /\ [Next]_vars =>
           [\A k \in Calls : keys[k].status = "revoked"
                               => keys'[k].status = "revoked"]_vars
    BY <1>1
  <1> QED
    BY <1>2, KeyInvariant, PTL DEF Spec, RevokedStaysRevoked

=============================================================================
