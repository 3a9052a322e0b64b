--------------------------- MODULE SigningPipeline ---------------------------
(***************************************************************************)
(* WalletService.requestSign (libs/wallet/src/wallet.service.ts): what     *)
(* POST /wallets/:id/sign does, one action per await, for any number of    *)
(* concurrent requests on one wallet and chain.  They share two tables:    *)
(*                                                                         *)
(*   signing_requests  one row per idempotency key (unique index)          *)
(*   wallet_nonces     the account's nonce counter                         *)
(*                                                                         *)
(* and the chain (Ledger).  Between two awaits any other request may run.  *)
(* Policy, fee estimation and the crypto sidecar are the choices this      *)
(* handler sees: allow or deny, a result or an error.                      *)
(***************************************************************************)
EXTENDS Ledger

CONSTANT NoTx  \* the NULL tx_hash

NoNonce == -1  \* the NULL tx_payload, and "nothing reserved yet"

ASSUME NoTxAssumption == NoTx \notin Tx

VARIABLES
    pc,       \* request -> the await it stands at, or how it ended
    rkey,     \* request -> the idempotency key of its payload
    rnonce,   \* request -> the nonce it reserved
    rows,     \* signing_requests, by idempotency key
    counter,  \* wallet_nonces.nonce
    spc,      \* request -> its fire-and-forget syncNonce
    sval      \* request -> the pending count that syncNonce read

tableVars == <<rows, counter>>
vars == <<pc, rkey, rnonce, rows, counter, spc, sval, ledgerVars>>

-----------------------------------------------------------------------------
(* The awaits between the nonce's reservation and the reply, in the order  *)
(* of the code, and those before it.                                       *)
BeforeReserve == {"find", "policy", "fees", "create", "refind", "reset"}
AfterReserve  == {"payload", "sign", "fail_sign", "release", "store",
                  "broadcast", "mark", "fail_broadcast", "audit"}
Awaiting  == BeforeReserve \cup {"reserve"} \cup AfterReserve

\* How a request ended: the reply it gave, or "dead" when it gave none.
Outcomes == {"rejected", "existing", "denied", "fees_failed", "sign_failed",
             "broadcast_failed", "ok", "dead"}

Statuses == {"none", "pending", "signed", "broadcasted", "confirmed",
             "failed", "dropped"}

(* A row of signing_requests.  nonce is tx_payload.nonce, reason whether   *)
(* failure_reason is set, attempts speed_up_attempts, and orig             *)
(* original_tx_hash.  status "none" is the absent row.                     *)
Row == [status : Statuses, nonce : Nat \cup {NoNonce}, tx : Tx \cup {NoTx},
        reason : BOOLEAN, attempts : Nat, orig : Tx \cup {NoTx}]

NoRow == [status |-> "none", nonce |-> NoNonce, tx |-> NoTx,
          reason |-> FALSE, attempts |-> 0, orig |-> NoTx]

\* Every definition below keeps the state in these sets.
TypeOK ==
    /\ pc \in [Requests -> {"idle"} \cup Awaiting \cup Outcomes]
    /\ rkey \in [Requests -> Keys]
    /\ rnonce \in [Requests -> Nat \cup {NoNonce}]
    /\ rows \in [Keys -> Row]
    /\ counter \in Nat
    /\ spc \in [Requests -> {"none", "read", "write", "over"}]
    /\ sval \in [Requests -> Nat]
    /\ LedgerTypeOK

Init ==
    /\ pc = [r \in Requests |-> "idle"]
    /\ rkey \in [Requests -> Keys]
    /\ rnonce = [r \in Requests |-> NoNonce]
    /\ rows = [k \in Keys |-> NoRow]
    /\ counter = 0
    /\ spc = [r \in Requests |-> "none"]
    /\ sval = [r \in Requests |-> 0]
    /\ LedgerInit

-----------------------------------------------------------------------------
At(r, a) == pc[r] = a
Goto(r, a) == pc' = [pc EXCEPT ![r] = a]

RowOf(r) == rows[rkey[r]]
SetRow(r, row) == rows' = [rows EXCEPT ![rkey[r]] = row]

\* The transaction the sidecar signs for request r.
TxOf(r) ==
    [key |-> rkey[r], nonce |-> rnonce[r], by |-> r, bump |-> 0, fee |-> 0]

syncVars == <<spc, sval>>

\* 1. Load seed and wallet; the checks on them reject the request.
LoadPrerequisites(r) ==
    /\ At(r, "idle")
    /\ \/ Goto(r, "find")
       \/ Goto(r, "rejected")
    /\ UNCHANGED <<rkey, rnonce, tableVars, syncVars, ledgerVars>>

\* 2. The fast path: a row that did not fail answers the request.
FindByIdempotencyKey(r) ==
    /\ At(r, "find")
    /\ Goto(r, IF RowOf(r).status \notin {"none", "failed"}
               THEN "existing" ELSE "policy")
    /\ UNCHANGED <<rkey, rnonce, tableVars, syncVars, ledgerVars>>

\* 3. Policy, before anything is written.
EvaluatePolicy(r) ==
    /\ At(r, "policy")
    /\ \/ Goto(r, "fees")
       \/ Goto(r, "denied")
    /\ UNCHANGED <<rkey, rnonce, tableVars, syncVars, ledgerVars>>

\* 4. Fees, from the providers; an error leaves nothing behind.
EstimateFees(r) ==
    /\ At(r, "fees")
    /\ \/ Goto(r, "create")
       \/ Goto(r, "fees_failed")
    /\ UNCHANGED <<rkey, rnonce, tableVars, syncVars, ledgerVars>>

(* 5. Insert the pending row.  The unique index refuses a second row for   *)
(* the key (23505), whatever the first one's status.                       *)
CreateRow(r) ==
    /\ At(r, "create")
    /\ IF RowOf(r).status = "none"
       THEN /\ SetRow(r, [NoRow EXCEPT !.status = "pending"])
            /\ Goto(r, "reserve")
       ELSE /\ Goto(r, "refind")
            /\ UNCHANGED rows
    /\ UNCHANGED <<rkey, rnonce, counter, syncVars, ledgerVars>>

\* Mutation of FindRaced: the status of the raced row is not looked at.
FindRacedAnyStatus(r) ==
    /\ At(r, "refind")
    /\ Goto(r, "reset")
    /\ UNCHANGED <<rkey, rnonce, tableVars, syncVars, ledgerVars>>

(* 5b. After the conflict, look again: only a failed row is taken over.    *)
(* Rows are never deleted, so the row is there.                            *)
FindRaced(r) ==
    /\ At(r, "refind")
    /\ Goto(r, IF RowOf(r).status = "failed" THEN "reset" ELSE "existing")
    /\ UNCHANGED <<rkey, rnonce, tableVars, syncVars, ledgerVars>>

(* 5c. Take the failed row over.  update() drops the fields passed as      *)
(* undefined, so only the status changes; and it is keyed by id alone, so  *)
(* it applies whatever the status has become since 5b.                     *)
ResetRow(r) ==
    /\ At(r, "reset")
    /\ SetRow(r, [RowOf(r) EXCEPT !.status = "pending"])
    /\ Goto(r, "reserve")
    /\ UNCHANGED <<rkey, rnonce, counter, syncVars, ledgerVars>>

\* 6. Reserve: one upsert that increments and returns the old value.
ReserveNonce(r) ==
    /\ At(r, "reserve")
    /\ rnonce' = [rnonce EXCEPT ![r] = counter]
    /\ counter' = counter + 1
    /\ Goto(r, "payload")
    /\ UNCHANGED <<rkey, rows, syncVars, ledgerVars>>

\* Mutation of StorePayload: the update is forgotten.
StorePayloadForgotten(r) ==
    /\ At(r, "payload")
    /\ Goto(r, "sign")
    /\ UNCHANGED <<rkey, rnonce, tableVars, syncVars, ledgerVars>>

StorePayload(r) ==
    /\ At(r, "payload")
    /\ SetRow(r, [RowOf(r) EXCEPT !.nonce = rnonce[r]])
    /\ Goto(r, "sign")
    /\ UNCHANGED <<rkey, rnonce, counter, syncVars, ledgerVars>>

\* 7. The sidecar signs, or the call throws.
SignTransaction(r) ==
    /\ At(r, "sign")
    /\ \/ Goto(r, "store")
       \/ Goto(r, "fail_sign")
    /\ UNCHANGED <<rkey, rnonce, tableVars, syncVars, ledgerVars>>

FailedRow(row) == [row EXCEPT !.status = "failed", !.reason = TRUE]

MarkSignFailed(r) ==
    /\ At(r, "fail_sign")
    /\ SetRow(r, FailedRow(RowOf(r)))
    /\ Goto(r, "release")
    /\ UNCHANGED <<rkey, rnonce, counter, syncVars, ledgerVars>>

\* Mutations of Released: the WHERE clause dropped; one too far back.
ReleasedAlways(n) == n
ReleasedTooFar(n) == IF counter = n + 1 THEN n - 1 ELSE counter

\* The counter after release(n): only the tail of the sequence goes back.
Released(n) == IF counter = n + 1 THEN n ELSE counter

ReleaseNonce(r) ==
    /\ At(r, "release")
    /\ counter' = Released(rnonce[r])
    /\ Goto(r, "sign_failed")
    /\ UNCHANGED <<rkey, rnonce, rows, syncVars, ledgerVars>>

\* 8. Record hash and signature.
StoreSigned(r) ==
    /\ At(r, "store")
    /\ SetRow(r, [RowOf(r) EXCEPT !.status = "signed", !.tx = TxOf(r)])
    /\ Goto(r, "broadcast")
    /\ UNCHANGED <<rkey, rnonce, counter, syncVars, ledgerVars>>

(* 9. Broadcast, over every attempt and provider of rpcCallWithRetry: a    *)
(* provider accepts it and says so; or the call ends in an error, and then *)
(* the transaction was accepted or not.                                    *)
BroadcastAccepted(r) ==
    /\ At(r, "broadcast")
    /\ Acceptable(TxOf(r))
    /\ Accept(TxOf(r))
    /\ Goto(r, "mark")
    /\ UNCHANGED <<rkey, rnonce, tableVars, syncVars>>

\* Mutation of BroadcastFails: the error is swallowed.
BroadcastErrorIgnored(r) ==
    /\ At(r, "broadcast")
    /\ Goto(r, "mark")
    /\ UNCHANGED <<rkey, rnonce, tableVars, syncVars, ledgerVars>>

BroadcastFails(r) ==
    /\ At(r, "broadcast")
    /\ Goto(r, "fail_broadcast")
    /\ UNCHANGED <<rkey, rnonce, tableVars, syncVars, ledgerVars>>

BroadcastReplyLost(r) ==
    /\ "lost_reply" \in Faults
    /\ At(r, "broadcast")
    /\ Acceptable(TxOf(r))
    /\ Accept(TxOf(r))
    /\ Goto(r, "fail_broadcast")
    /\ UNCHANGED <<rkey, rnonce, tableVars, syncVars>>

MarkBroadcasted(r) ==
    /\ At(r, "mark")
    /\ SetRow(r, [RowOf(r) EXCEPT !.status = "broadcasted"])
    /\ Goto(r, "audit")
    /\ UNCHANGED <<rkey, rnonce, counter, syncVars, ledgerVars>>

(* The update is inside the broadcast's try block: when it throws, the     *)
(* transaction just accepted is handled as a failed broadcast.             *)
MarkBroadcastedThrows(r) ==
    /\ "crash" \in Faults
    /\ At(r, "mark")
    /\ Goto(r, "fail_broadcast")
    /\ UNCHANGED <<rkey, rnonce, tableVars, syncVars, ledgerVars>>

\* Mutation of MarkBroadcastFailed: the row is not updated.
BroadcastFailureNotStored(r) ==
    /\ At(r, "fail_broadcast")
    /\ spc' = [spc EXCEPT ![r] = "read"]
    /\ Goto(r, "broadcast_failed")
    /\ UNCHANGED <<rkey, rnonce, tableVars, sval, ledgerVars>>

\* The row fails, syncNonce starts in the background, the reply is an error.
MarkBroadcastFailed(r) ==
    /\ At(r, "fail_broadcast")
    /\ SetRow(r, FailedRow(RowOf(r)))
    /\ spc' = [spc EXCEPT ![r] = "read"]
    /\ Goto(r, "broadcast_failed")
    /\ UNCHANGED <<rkey, rnonce, counter, sval, ledgerVars>>

\* 10, 11. Audit, then the reply "broadcasted".
Audit(r) ==
    /\ At(r, "audit")
    /\ Goto(r, "ok")
    /\ UNCHANGED <<rkey, rnonce, tableVars, syncVars, ledgerVars>>

-----------------------------------------------------------------------------
\* syncNonce: read the pending count, then write it if it raises the counter.
SyncRead(r) ==
    /\ spc[r] = "read"
    /\ \E n \in PendingCounts : sval' = [sval EXCEPT ![r] = n]
    /\ spc' = [spc EXCEPT ![r] = "write"]
    /\ UNCHANGED <<pc, rkey, rnonce, tableVars, ledgerVars>>

\* Mutations of Synced: no guard against moving back; count taken as last used.
SyncedAlways(n) == n
SyncedPastCount(n) == IF counter <= n THEN n + 1 ELSE counter

Synced(n) == IF counter < n THEN n ELSE counter

SyncWrite(r) ==
    /\ spc[r] = "write"
    /\ counter' = Synced(sval[r])
    /\ spc' = [spc EXCEPT ![r] = "over"]
    /\ UNCHANGED <<pc, rkey, rnonce, rows, sval, ledgerVars>>

\* Its errors are logged and dropped.
SyncFails(r) ==
    /\ spc[r] \in {"read", "write"}
    /\ spc' = [spc EXCEPT ![r] = "over"]
    /\ UNCHANGED <<pc, rkey, rnonce, tableVars, sval, ledgerVars>>

(* The request ends at an await with no reply of its own: the process died *)
(* there, or the database call threw and the error left the handler.       *)
Crash(r) ==
    /\ "crash" \in Faults
    /\ pc[r] \in Awaiting
    /\ Goto(r, "dead")
    /\ UNCHANGED <<rkey, rnonce, tableVars, syncVars, ledgerVars>>

-----------------------------------------------------------------------------
Step(r) ==
    \/ FindByIdempotencyKey(r) \/ EvaluatePolicy(r) \/ EstimateFees(r)
    \/ CreateRow(r) \/ FindRaced(r) \/ ResetRow(r)
    \/ ReserveNonce(r) \/ StorePayload(r)
    \/ SignTransaction(r) \/ MarkSignFailed(r) \/ ReleaseNonce(r)
    \/ StoreSigned(r)
    \/ BroadcastAccepted(r) \/ BroadcastFails(r) \/ BroadcastReplyLost(r)
    \/ MarkBroadcasted(r) \/ MarkBroadcastedThrows(r) \/ MarkBroadcastFailed(r)
    \/ Audit(r)

Sync(r) == SyncRead(r) \/ SyncWrite(r) \/ SyncFails(r)

pipelineVars == <<pc, rkey, rnonce, tableVars, syncVars>>

ChainStep == LedgerNext /\ UNCHANGED pipelineVars

Next ==
    \/ \E r \in Requests :
          LoadPrerequisites(r) \/ Step(r) \/ Sync(r) \/ Crash(r)
    \/ ChainStep

Spec == Init /\ [][Next]_vars

(* A request that is being served keeps running: Node runs every ready     *)
(* continuation and every await of the handler ends (the calls have        *)
(* timeouts).  The chain mines what it can mine.                           *)
FairSpec ==
    /\ Spec
    /\ \A r \in Requests : WF_vars(Step(r)) /\ WF_vars(Sync(r))
    /\ WF_vars(\E t \in pool : Mine(t) /\ UNCHANGED pipelineVars)

-----------------------------------------------------------------------------
\* Between these awaits a request owns its row: it will write it again.
Working == {"reserve", "payload", "sign", "fail_sign", "store", "broadcast",
            "mark", "fail_broadcast"}

(* A request keeps its nonce from the reservation on, for ever: it may be  *)
(* on chain.  Only a signing failure gives it up.                          *)
Holds(r) == rnonce[r] # NoNonce /\ pc[r] # "sign_failed"

(* No two requests hold the same nonce, although a release moves the       *)
(* counter back (WalletNonceRepository.reserve, release).                  *)
HeldNoncesDistinct ==
    \A r, s \in Requests :
        r # s /\ Holds(r) /\ Holds(s) => rnonce[r] # rnonce[s]

(* "The guarantee that matters is that a nonce is never used twice"        *)
(* (wallet-nonce.repository.ts): of all the transactions the providers     *)
(* ever accepted, no two that different requests sent share a nonce.  So   *)
(* it is as long as requests alone send; beside the monitor it is not      *)
(* (TxMonitor, SharedNonceOnlyAfterFailure).                               *)
NonceNeverUsedTwice ==
    \A t, u \in accepted : t.nonce = u.nonce => t.by = u.by

(* Every nonce below the counter was handed to some request: neither       *)
(* release nor syncNonce makes the counter skip a nonce, which would block *)
(* the account for good.                                                   *)
NoNonceSkipped ==
    \A n \in 0..(counter - 1) : \E r \in Requests : rnonce[r] = n

(* Until the key's row has failed once, one request at most works on it:   *)
(* of the requests that race, the unique index lets one through.           *)
OneWorkerUntilFailure ==
    \A r, s \in Requests :
        /\ r # s /\ rkey[r] = rkey[s]
        /\ pc[r] \in Working /\ pc[s] \in Working
        => RowOf(r).reason

(* A payment reaches the chain twice only if its row was marked failed in  *)
(* between: without a failure, retries of the client never send it again.  *)
SentTwiceOnlyAfterFailure ==
    \A t, u \in accepted : t.key = u.key /\ t # u => rows[t.key].reason

(* A row left pending or signed has a request that will still write it, or *)
(* one that died working on it; no interleaving of retries strands a row.  *)
UnfinishedRowHasWorker ==
    \A k \in Keys :
        rows[k].status \in {"pending", "signed"} =>
            \E r \in Requests :
                rkey[r] = k /\ pc[r] \in Working \cup {"dead"}

(* While a single request has ever worked on a row that says broadcasted,  *)
(* the hash the monitor will look for is one the providers accepted, and   *)
(* the payload it will rebuild from has that transaction's nonce.          *)
BroadcastedRowIsOnChain ==
    \A k \in Keys :
        rows[k].status = "broadcasted" /\ ~rows[k].reason =>
            rows[k].tx \in accepted /\ rows[k].nonce = rows[k].tx.nonce

(* The reply "broadcasted" is only given for a transaction of that very    *)
(* request that a provider accepted, with the nonce it reserved.           *)
OkMeansAccepted ==
    \A r \in Requests : pc[r] = "ok" => TxOf(r) \in accepted

(* The counter goes back only when a request whose signing failed gives    *)
(* back the last nonce, and never to or below a nonce already broadcast,   *)
(* as long as requests alone send: a speed-up of the monitor may have sent *)
(* the nonce that is given back.                                           *)
CounterMovesBackOnlyOverUnsent ==
    [][counter' < counter =>
         /\ counter' = counter - 1
         /\ \A t \in accepted : t.nonce < counter']_vars

(* syncNonce, the repair after a failed broadcast, never finds anything to *)
(* repair: the counter is already past every nonce the chain counts, as    *)
(* long as requests alone send.  Once a speed-up of the monitor has sent a *)
(* nonce that was given back, syncNonce does raise the counter.            *)
SyncNeverMovesCounter ==
    [][(\E r \in Requests : SyncWrite(r)) => counter' = counter]_vars

(* The counter, the release, syncNonce and the chain together implement    *)
(* NonceDispenser: a reservation yields a nonce no request holds and none  *)
(* ever broadcast, and only an unsent nonce is given back.  This, too, is  *)
(* about requests alone: the monitor's speed-ups use nonces they have not  *)
(* taken.                                                                  *)
Dispenser == INSTANCE NonceDispenser WITH
    Clients <- Requests,
    held    <- [r \in Requests |-> IF Holds(r) THEN rnonce[r] ELSE NoNonce],
    used    <- {t.nonce : t \in accepted}

ImplementsDispenser == Dispenser!Spec

(* Every row that is pending or signed gets a final status, unless a       *)
(* request died.                                                           *)
UnfinishedRowIsResolved ==
    \A k \in Keys :
        rows[k].status \in {"pending", "signed"} ~>
            \/ rows[k].status \in {"broadcasted", "failed"}
            \/ \E r \in Requests : pc[r] = "dead"

-----------------------------------------------------------------------------
(* Violated.  docs/API.md: idempotency "prevents accidental double-spends  *)
(* caused by network retries": a payment is in the chain's blocks at most  *)
(* once.  A broadcast whose reply was lost is retried with a fresh nonce.  *)
PaidAtMostOnce ==
    \A t, u \in mined : t.key = u.key => t = u

(* Violated.  docs/HOW_IT_WORKS.md: "Gaps in the nonce sequence are        *)
(* harmless": what was answered with "broadcasted" gets into a block.  A   *)
(* nonce whose broadcast failed is used by nobody, and blocks those above. *)
AcceptedIsMined ==
    \A r \in Requests : pc[r] = "ok" ~> TxOf(r) \in mined

=============================================================================
