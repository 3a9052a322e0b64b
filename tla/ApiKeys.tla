------------------------------- MODULE ApiKeys -------------------------------
(***************************************************************************)
(* Who may call the API: the guards every call passes                      *)
(* (libs/auth/src/stamp-verifier.guard.ts, scopes.guard.ts), registration  *)
(* and revocation of API keys (auth.service.ts) and the one-time bootstrap *)
(* token, for any number of concurrent calls of several organizations.     *)
(* One action per await.                                                   *)
(*                                                                         *)
(* A key row is named by the call that inserted it.  Its two identifiers,  *)
(* the primary key and key_id, are random and never equal.  Signatures,    *)
(* time stamps and rate limits are the choices the guards see: pass or     *)
(* refuse.                                                                 *)
(***************************************************************************)
EXTENDS Integers

CONSTANTS
    Orgs,   \* organizations, onboarded and with a token each
    Calls,  \* HTTP calls
    NoOrg,  \* no X-Bootstrap-Token header
    NoKey   \* no X-Stamp header

ASSUME NoneAssumption == NoOrg \notin Orgs /\ NoKey \notin Calls

VARIABLES
    keys,    \* api_keys, by the call that inserted the row
    token,   \* the organizations whose bootstrap_token_hash is not null
    pc,      \* call -> the await it stands at, or how it ended
    kind,    \* call -> the route
    stamp,   \* call -> the key of its X-Stamp header
    tok,     \* call -> the organization whose token it presents
    org,     \* call -> the organization it acts for, once known
    target,  \* revocation -> the key it found
    touch,   \* call -> its fire-and-forget update of last_used_at
    before   \* history: the calls answered with success when it arrived

headerVars == <<kind, stamp, tok, before>>
vars == <<keys, token, pc, org, target, touch, headerVars>>

\* "use" is every other stamped route, from listing keys to signing.
Kinds == {"register", "revoke", "use"}
Awaits == {"guard", "resolve", "validate", "has_scope", "insert", "clear",
           "find", "revoke", "audit", "serve"}
Outcomes == {"ok", "refused", "no_scope", "dead"}

\* A management and a signing scope stand for all; "*" is never granted.
DefaultScopes == {"key:write"}
ValidScopes == DefaultScopes \cup {"wallet:sign"}

KeyRow == [status : {"none", "active", "revoked"}, org : Orgs \cup {NoOrg},
           scopes : SUBSET ValidScopes, used : BOOLEAN]
NoRow == [status |-> "none", org |-> NoOrg, scopes |-> {}, used |-> FALSE]

\* Every definition below keeps the state in these sets.
TypeOK ==
    /\ keys \in [Calls -> KeyRow]
    /\ token \subseteq Orgs
    /\ pc \in [Calls -> {"idle"} \cup Awaits \cup Outcomes]
    /\ kind \in [Calls -> Kinds]
    /\ stamp \in [Calls -> Calls \cup {NoKey}]
    /\ tok \in [Calls -> Orgs \cup {NoOrg}]
    /\ org \in [Calls -> Orgs \cup {NoOrg}]
    /\ target \in [Calls -> Calls \cup {NoKey}]
    /\ touch \in [Calls -> {"none", "pending", "over"}]
    /\ before \in [Calls -> SUBSET Calls]

Init ==
    /\ keys = [c \in Calls |-> NoRow]
    /\ token = Orgs
    /\ pc = [c \in Calls |-> "idle"]
    /\ kind \in [Calls -> Kinds]
    /\ stamp = [c \in Calls |-> NoKey]
    /\ tok = [c \in Calls |-> NoOrg]
    /\ org = [c \in Calls |-> NoOrg]
    /\ target = [c \in Calls |-> NoKey]
    /\ touch = [c \in Calls |-> "none"]
    /\ before = [c \in Calls |-> {}]

-----------------------------------------------------------------------------
At(c, a) == pc[c] = a
Goto(c, a) == pc' = [pc EXCEPT ![c] = a]

Exists(k) == keys[k].status # "none"

\* The two identifiers of a row.
RowId(k) == <<"id", k>>
KeyId(k) == <<"key_id", k>>

FindByKeyId(x) == {k \in Calls : Exists(k) /\ KeyId(k) = x}

(* A call arrives, with the key_id of a row there is (a client knows it    *)
(* from a reply or from a list) and a token, or without.                   *)
Arrive(c) ==
    /\ At(c, "idle")
    /\ \E k \in {i \in Calls : Exists(i)} \cup {NoKey} :
          stamp' = [stamp EXCEPT ![c] = k]
    /\ \E o \in Orgs \cup {NoOrg} :
          /\ kind[c] # "register" => o = NoOrg
          /\ tok' = [tok EXCEPT ![c] = o]
    /\ before' = [before EXCEPT ![c] = {d \in Calls : At(d, "ok")}]
    /\ Goto(c, "guard")
    /\ UNCHANGED <<keys, token, org, target, touch, kind>>

(* StampVerifierGuard refuses: no header where one is required, malformed  *)
(* or out of the time window, unknown or inactive key, bad signature.      *)
GuardRefuses(c) ==
    /\ At(c, "guard")
    /\ stamp[c] # NoKey \/ kind[c] # "register"
    /\ Goto(c, "refused")
    /\ UNCHANGED <<keys, token, org, target, touch, headerVars>>

\* Only POST /api-keys has @OptionalStamp.
GuardOptional(c) ==
    /\ At(c, "guard")
    /\ stamp[c] = NoKey /\ kind[c] = "register"
    /\ Goto(c, IF tok[c] # NoOrg THEN "resolve" ELSE "refused")
    /\ UNCHANGED <<keys, token, org, target, touch, headerVars>>

\* Mutation of Verified: the status of the key is not looked at.
VerifiedAnyStatus(c) == Exists(stamp[c])

\* The key as the guard's query returns it.
Verified(c) == keys[stamp[c]].status = "active"

\* What the routes declare with @Scopes.
RouteScopes ==
    [register |-> {{}},
     revoke   |-> {{"key:write"}},
     use      |-> {{}} \cup {{s} : s \in ValidScopes}]

\* ScopesGuard: nothing required, the wildcard, or any one of the required.
ScopesPass(c, required) ==
    LET scopes == keys[stamp[c]].scopes
    IN  required = {} \/ "*" \in scopes \/ required \cap scopes # {}

\* The first await of the handler.
Handler(c) ==
    CASE kind[c] = "register" -> IF tok[c] # NoOrg THEN "validate" ELSE "has_scope"
      [] kind[c] = "revoke"   -> "find"
      [] kind[c] = "use"      -> "serve"

(* StampVerifierGuard passes, attaches the key's organization and starts   *)
(* the update of last_used_at; throttler and ScopesGuard follow.           *)
GuardPasses(c) ==
    /\ At(c, "guard")
    /\ stamp[c] # NoKey
    /\ Verified(c)
    /\ touch' = [touch EXCEPT ![c] = "pending"]
    /\ org' = [org EXCEPT ![c] = keys[stamp[c]].org]
    /\ \/ /\ \E required \in RouteScopes[kind[c]] : ScopesPass(c, required)
          /\ Goto(c, Handler(c))
       \/ Goto(c, "refused")
    /\ UNCHANGED <<keys, token, target, headerVars>>

\* Mutation of Touched: the row as the guard read it is written back.
TouchedWholeRow(row) == [row EXCEPT !.used = TRUE, !.status = "active"]

\* The update sets last_used_at alone.
Touched(row) == [row EXCEPT !.used = TRUE]

TouchWrites(c) ==
    /\ touch[c] = "pending"
    /\ keys' = [keys EXCEPT ![stamp[c]] = Touched(@)]
    /\ touch' = [touch EXCEPT ![c] = "over"]
    /\ UNCHANGED <<token, pc, org, target, headerVars>>

\* Its errors are swallowed.
TouchFails(c) ==
    /\ touch[c] = "pending"
    /\ touch' = [touch EXCEPT ![c] = "over"]
    /\ UNCHANGED <<keys, token, pc, org, target, headerVars>>

-----------------------------------------------------------------------------
\* resolveOrgIdFromBootstrapToken, when there is no stamp.
ResolveOrg(c) ==
    /\ At(c, "resolve")
    /\ IF tok[c] \in token
       THEN org' = [org EXCEPT ![c] = tok[c]] /\ Goto(c, "validate")
       ELSE Goto(c, "refused") /\ UNCHANGED org
    /\ UNCHANGED <<keys, token, target, touch, headerVars>>

(* validateBootstrapToken: the organization has a token, and it is the one *)
(* presented.  Organizations are never deleted, so findById finds it.      *)
ValidateToken(c) ==
    /\ At(c, "validate")
    /\ Goto(c, IF org[c] \in token /\ tok[c] = org[c] THEN "insert" ELSE "refused")
    /\ UNCHANGED <<keys, token, org, target, touch, headerVars>>

(* Without a token: hasScope, which looks for key_id and is given          *)
(* request.user.apiKeyId, the row's primary key.                           *)
HasScope(c) ==
    /\ At(c, "has_scope")
    /\ Goto(c, IF \E k \in FindByKeyId(RowId(stamp[c])) :
                     "key:write" \in keys[k].scopes
               THEN "insert" ELSE "no_scope")
    /\ UNCHANGED <<keys, token, org, target, touch, headerVars>>

\* The scopes of the new key: explicit and valid, or the bootstrap defaults.
GrantedScopes(c) ==
    (SUBSET ValidScopes \ {{}}) \cup (IF tok[c] # NoOrg THEN {DefaultScopes} ELSE {})

\* Mutation of AfterInsert: the token is left in place.
AfterInsertTokenKept(c) == "audit"

AfterInsert(c) == IF tok[c] # NoOrg THEN "clear" ELSE "audit"

(* The checks of the body, then the insert; the unique index on public_key *)
(* refuses a key that is already there.                                    *)
InsertKey(c) ==
    /\ At(c, "insert")
    /\ \E s \in GrantedScopes(c) :
          keys' = [keys EXCEPT ![c] = [status |-> "active", org |-> org[c],
                                       scopes |-> s, used |-> FALSE]]
    /\ Goto(c, AfterInsert(c))
    /\ UNCHANGED <<token, org, target, touch, headerVars>>

InsertRefused(c) ==
    /\ At(c, "insert")
    /\ Goto(c, "refused")
    /\ UNCHANGED <<keys, token, org, target, touch, headerVars>>

ClearToken(c) ==
    /\ At(c, "clear")
    /\ token' = token \ {org[c]}
    /\ Goto(c, "audit")
    /\ UNCHANGED <<keys, org, target, touch, headerVars>>

\* The audit entry of a registration or revocation, then the reply.
Audit(c) ==
    /\ At(c, "audit")
    /\ Goto(c, "ok")
    /\ UNCHANGED <<keys, token, org, target, touch, headerVars>>

-----------------------------------------------------------------------------
\* Mutation of MayRevoke: any organization's key.
MayRevokeAny(c, k) == Exists(k)

MayRevoke(c, k) == Exists(k) /\ keys[k].org = org[c]

\* revokeApiKey: the row, which must be of the caller's organization.
FindKey(c) ==
    /\ At(c, "find")
    /\ \/ \E k \in Calls :
             /\ MayRevoke(c, k)
             /\ target' = [target EXCEPT ![c] = k]
             /\ Goto(c, "revoke")
       \/ Goto(c, "refused") /\ UNCHANGED target
    /\ UNCHANGED <<keys, token, org, touch, headerVars>>

RevokeKey(c) ==
    /\ At(c, "revoke")
    /\ keys' = [keys EXCEPT ![target[c]].status = "revoked"]
    /\ Goto(c, "audit")
    /\ UNCHANGED <<token, org, target, touch, headerVars>>

\* Any other handler: it does its work or refuses.
Serve(c) ==
    /\ At(c, "serve")
    /\ Goto(c, "ok") \/ Goto(c, "refused")
    /\ UNCHANGED <<keys, token, org, target, touch, headerVars>>

\* The process dies or a database call throws.
Crash(c) ==
    /\ pc[c] \in Awaits
    /\ Goto(c, "dead")
    /\ UNCHANGED <<keys, token, org, target, touch, headerVars>>

-----------------------------------------------------------------------------
Next ==
    \E c \in Calls :
        \/ Arrive(c) \/ GuardRefuses(c) \/ GuardOptional(c) \/ GuardPasses(c)
        \/ TouchWrites(c) \/ TouchFails(c)
        \/ ResolveOrg(c) \/ ValidateToken(c) \/ HasScope(c)
        \/ InsertKey(c) \/ InsertRefused(c) \/ ClearToken(c) \/ Audit(c)
        \/ FindKey(c) \/ RevokeKey(c) \/ Serve(c) \/ Crash(c)

Spec == Init /\ [][Next]_vars

-----------------------------------------------------------------------------
\* Revocation d of the key that call c is stamped with.
RevokesKeyOf(d, c) ==
    kind[d] = "revoke" /\ target[d] # NoKey /\ target[d] = stamp[c]

(* Once a revocation has been answered, no call that arrives afterwards is *)
(* served with that key, although guards, handlers and the background      *)
(* update of last_used_at of earlier calls are still running.              *)
RevocationIsEffective ==
    \A c \in Calls : pc[c] = "ok" =>
        \A d \in before[c] : ~RevokesKeyOf(d, c)

(* docs/STAMP_AUTH.md's one-time token: once a registration with the token *)
(* has been answered, no call that arrives afterwards registers a key with *)
(* it.  (Two calls that overlap may both: the token is checked and cleared *)
(* in two awaits.)                                                         *)
TokenIsOneTime ==
    \A c \in Calls :
        pc[c] = "ok" /\ tok[c] # NoOrg =>
            \A d \in before[c] : tok[d] # tok[c]

\* Organization o vouches for call c: by its token, or by the key of the stamp.
Vouches(o, c) == tok[c] = o \/ (stamp[c] # NoKey /\ keys[stamp[c]].org = o)

(* A key belongs to an organization whose token or key vouched for its     *)
(* registration, and it is revoked only by a call stamped with a key of    *)
(* the same organization that has key:write.                               *)
KeysStayInOrg ==
    \A k \in Calls :
        /\ Exists(k) => Vouches(keys[k].org, k)
        /\ keys[k].status = "revoked" =>
              \E d \in Calls :
                 /\ target[d] = k /\ stamp[d] # NoKey
                 /\ keys[stamp[d]].org = keys[k].org
                 /\ "key:write" \in keys[stamp[d]].scopes

(* A revoked key never becomes active again.                               *)
RevokedStaysRevoked ==
    [][\A k \in Calls :
          keys[k].status = "revoked" => keys'[k].status = "revoked"]_vars

-----------------------------------------------------------------------------
(* Violated.  docs/STAMP_AUTH.md: POST /api-keys accepts "a valid stamp    *)
(* (from a key with key:write scope)": a registration is refused for want  *)
(* of scope only if the key has none.  The scope is looked up under the    *)
(* wrong identifier, so every stamped registration is refused.             *)
WriteScopeCanRegister ==
    \A c \in Calls :
        pc[c] = "no_scope" => "key:write" \notin keys[stamp[c]].scopes

=============================================================================
