------------------------------ MODULE VaultToken ------------------------------
(***************************************************************************)
(* The sidecar's Vault token (cmd/crypto/vault.go): AppRole login with     *)
(* three attempts at startup, then a goroutine that renews the token at    *)
(* three quarters of its lease, and the Transit calls that carry it.       *)
(*                                                                         *)
(* Time is counted in seconds that remain.  renew-self returns the token   *)
(* it was called with, so the token's value is left out and what is kept   *)
(* of it is how long Vault still honours it.                               *)
(***************************************************************************)
EXTENDS Integers

CONSTANTS
    TokenTTL,    \* token_ttl of the role, 1 h
    MaxTTL,      \* token_max_ttl of the role, 24 h
    RpcTimeout,  \* httpClient.Timeout, 10 s
    RetryDelay,  \* loginRetryDelay, 5 s
    MaxAttempts  \* loginMaxAttempts, 3

\* time.Duration(float64(leaseDur)*0.75), truncated to whole seconds.
RenewIn(lease) == (3 * lease) \div 4

(* The quarter of the lease that is left covers the reply of one call and  *)
(* the whole of the next.                                                  *)
ASSUME VaultAssumption ==
    /\ TokenTTL \in Nat /\ MaxTTL \in Nat /\ RpcTimeout \in Nat
    /\ RetryDelay \in Nat /\ MaxAttempts \in Nat \ {0}
    /\ TokenTTL - RenewIn(TokenTTL) > 2 * RpcTimeout
    /\ TokenTTL <= MaxTTL

VARIABLES
    pc,           \* where the sidecar's main or its renewal goroutine stands
    attempt,      \* AppRoleLogin's counter
    leaseDurSec,  \* vaultState.leaseDurSec
    sleep,        \* what is left of the time.Sleep
    waited,       \* how long the call to Vault has taken
    ttl,          \* Vault: what is left of the token, 0 when it has expired
    maxLeft,      \* Vault: what is left until token_max_ttl
    granted,      \* lease_duration of the reply under way
    failed,       \* the last renewal returned an error
    capped,       \* Vault has granted less than TokenTTL to this token
    refused       \* some Transit call was refused for its token

vaultVars == <<ttl, maxLeft, granted, capped>>
vars == <<pc, attempt, leaseDurSec, sleep, waited, vaultVars, failed, refused>>

Serving == pc \in {"sleep", "renew", "answered"}

TimesOK ==
    /\ pc \in {"login", "granted", "backoff", "sleep", "renew", "answered", "dead"}
    /\ attempt \in 1 .. MaxAttempts
    /\ leaseDurSec \in Nat /\ sleep \in Nat /\ granted \in Nat
    /\ waited \in 0 .. RpcTimeout
    /\ ttl \in 0 .. TokenTTL /\ maxLeft \in 0 .. MaxTTL

FlagsOK == failed \in BOOLEAN /\ capped \in BOOLEAN /\ refused \in BOOLEAN

\* Every definition below keeps the state in these sets.
TypeOK == TimesOK /\ FlagsOK

\* The process as it starts; no token of it is known to Vault.
Init ==
    /\ pc = "login" /\ attempt = 1
    /\ leaseDurSec = TokenTTL  \* the default, one hour like the role's TTL
    /\ sleep = 0 /\ waited = 0
    /\ ttl = 0 /\ maxLeft = 0 /\ granted = 0
    /\ failed = FALSE /\ capped = FALSE /\ refused = FALSE

-----------------------------------------------------------------------------
\* Vault issues a token of the role.
LoginArrives ==
    /\ pc = "login"
    /\ ttl' = TokenTTL /\ maxLeft' = MaxTTL /\ granted' = TokenTTL
    /\ capped' = FALSE
    /\ pc' = "granted"
    /\ UNCHANGED <<attempt, leaseDurSec, sleep, waited, failed, refused>>

\* Mutation of Schedule: one lease, not three quarters of it.
ScheduleAtExpiry(lease) ==
    /\ leaseDurSec' = lease
    /\ sleep' = lease
    /\ pc' = "sleep"

\* The head of the renewal loop.
Schedule(lease) ==
    /\ leaseDurSec' = lease
    /\ sleep' = RenewIn(lease)
    /\ pc' = "sleep"

LoginReply ==
    /\ pc = "granted"
    /\ Schedule(granted)
    /\ UNCHANGED <<attempt, waited, vaultVars, failed, refused>>

\* No or no good answer: the next attempt after the delay, or log.Fatalf.
LoginFails ==
    /\ pc \in {"login", "granted"}
    /\ \/ /\ attempt < MaxAttempts
          /\ attempt' = attempt + 1
          /\ pc' = "backoff" /\ sleep' = RetryDelay
       \/ /\ attempt = MaxAttempts
          /\ pc' = "dead"
          /\ UNCHANGED <<attempt, sleep>>
    /\ UNCHANGED <<leaseDurSec, waited, vaultVars, failed, refused>>

LoginAgain ==
    /\ pc = "backoff" /\ sleep = 0
    /\ pc' = "login" /\ waited' = 0
    /\ UNCHANGED <<attempt, leaseDurSec, sleep, vaultVars, failed, refused>>

-----------------------------------------------------------------------------
\* RenewToken is called when the sleep is over.
RenewStarts ==
    /\ pc = "sleep" /\ sleep = 0
    /\ pc' = "renew" /\ waited' = 0
    /\ UNCHANGED <<attempt, leaseDurSec, sleep, vaultVars, failed, refused>>

(* Vault extends a live token, up to its max TTL; lease_duration is in     *)
(* whole seconds.                                                          *)
RenewArrives ==
    /\ pc = "renew" /\ ttl > 0
    /\ \/ /\ maxLeft >= TokenTTL
          /\ ttl' = TokenTTL /\ granted' = TokenTTL
          /\ UNCHANGED capped
       \/ /\ maxLeft < TokenTTL
          /\ ttl' = maxLeft /\ granted' \in {maxLeft - 1, maxLeft}
          /\ capped' = TRUE
    /\ pc' = "answered"
    /\ UNCHANGED <<attempt, leaseDurSec, sleep, waited, maxLeft, failed, refused>>

\* A lease of zero is not stored.
RenewReply ==
    /\ pc = "answered"
    /\ failed' = FALSE
    /\ Schedule(IF granted > 0 THEN granted ELSE leaseDurSec)
    /\ UNCHANGED <<attempt, waited, vaultVars, refused>>

(* The error is logged and the loop goes on with the lease it knows.  A    *)
(* reply that is lost is such an error, although Vault renewed the token.  *)
RenewFails ==
    /\ pc \in {"renew", "answered"}
    /\ failed' = TRUE
    /\ Schedule(leaseDurSec)
    /\ UNCHANGED <<attempt, waited, vaultVars, refused>>

(* EncryptDEK or DecryptDEK, for a request the server takes once the login *)
(* is done.  A call that gets through is answered by the token's validity. *)
DekCall ==
    /\ Serving
    /\ refused' = (refused \/ ttl = 0)
    /\ UNCHANGED <<pc, attempt, leaseDurSec, sleep, waited, vaultVars, failed>>

\* The process is restarted, after log.Fatalf or a crash.
Restart ==
    /\ pc' = "login" /\ attempt' = 1
    /\ leaseDurSec' = TokenTTL
    /\ sleep' = 0 /\ waited' = 0
    /\ failed' = FALSE /\ refused' = FALSE
    /\ UNCHANGED vaultVars

Calling == pc \in {"login", "granted", "renew", "answered"}
Down(n) == IF n > 0 THEN n - 1 ELSE 0

\* A second passes; sleeps and calls end on time.
Tick ==
    /\ pc \in {"sleep", "backoff"} => sleep > 0
    /\ Calling => waited < RpcTimeout
    /\ ttl' = Down(ttl) /\ maxLeft' = Down(maxLeft) /\ sleep' = Down(sleep)
    /\ waited' = IF Calling THEN waited + 1 ELSE waited
    /\ UNCHANGED <<pc, attempt, leaseDurSec, granted, capped, failed, refused>>

Next ==
    \/ LoginArrives \/ LoginReply \/ LoginFails \/ LoginAgain
    \/ RenewStarts \/ RenewArrives \/ RenewReply \/ RenewFails
    \/ DekCall \/ Restart \/ Tick

Spec == Init /\ [][Next]_vars

-----------------------------------------------------------------------------
(* No seed is out of reach while renewals work: a Transit call is refused  *)
(* for its token only after a renewal failed or the token came to its max  *)
(* TTL, however long logins, renewals and their replies take               *)
(* (StartTokenRenewalLoop, RenewToken).                                    *)
RefusedOnlyAfterLostRenewal == refused => failed \/ capped

-----------------------------------------------------------------------------
\* The parts of the inductive invariant.

\* Vault never honours a token beyond its max TTL.
WithinMaxTTL == ttl <= maxLeft

\* Until the max TTL is near the loop goes by the role's full lease.
LeaseKnown ==
    /\ pc = "granted" => ~capped
    /\ Serving /\ ~capped => leaseDurSec = TokenTTL
    /\ pc \in {"granted", "answered"} /\ ~capped => granted = TokenTTL

\* A reply is read while at most RpcTimeout of the new lease is over.
ReplyFresh ==
    pc \in {"granted", "answered"} /\ ~capped => ttl + waited >= TokenTTL

\* The token outlives the sleep and the call that follows it.
MarginKept ==
    ~failed /\ ~capped =>
        /\ pc = "sleep" => ttl > sleep + RpcTimeout
        /\ pc = "renew" => ttl + waited > RpcTimeout

\* An expired token stays expired until the process is started again.
RefusedForGood == refused => Serving /\ (capped \/ (failed /\ ttl = 0))

Timing ==
    /\ TimesOK /\ WithinMaxTTL /\ LeaseKnown /\ ReplyFresh /\ MarginKept
    /\ RefusedForGood

VaultInv == FlagsOK /\ Timing
===============================================================================
