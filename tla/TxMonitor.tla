------------------------------ MODULE TxMonitor ------------------------------
(***************************************************************************)
(* The signing pipeline together with the transaction monitor              *)
(* (libs/monitor): TransactionMonitorService starts a poll every           *)
(* PENDING_POLL_INTERVAL_SECONDS whether or not the last one has ended,    *)
(* PendingMonitor reads the broadcasted rows once and then drives them     *)
(* one after the other, and SpeedUpService replaces a stuck transaction    *)
(* by one with the same nonce and higher fees.  One action per await.      *)
(*                                                                         *)
(* A poll works on the rows as it read them; its updates are keyed by id   *)
(* alone.  The age of a row is abstracted to "over the threshold or not",  *)
(* and the order by broadcasted_at to any order.                           *)
(***************************************************************************)
EXTENDS SigningPipeline

CONSTANTS
    Polls,        \* poll cycles that may overlap
    MaxSpeedUps,  \* MAX_SPEED_UP_ATTEMPTS
    Fees,         \* what fresh estimates, times the multiplier, may give
    NoKey         \* a poll between two rows

ASSUME MonitorAssumption ==
    MaxSpeedUps \in Nat /\ Fees \subseteq Nat /\ NoKey \notin Keys

VARIABLES
    ppc,   \* poll -> the await it stands at
    todo,  \* poll -> keys of the rows it has still to process
    seen,  \* poll -> the rows as findBroadcasted returned them
    cur,   \* poll -> key of the row it is processing
    fee    \* poll -> the bumped fee of the replacement it builds

monitorVars == <<ppc, todo, seen, cur, fee>>
allVars == <<vars, monitorVars>>

PollAwaits == {"next", "receipt", "confirm", "reverted", "lookup", "drop",
               "give_up", "estimate", "sign", "broadcast", "record", "fail"}

\* The monitor's and the pipeline's types.
MonitorTypeOK ==
    /\ TypeOK
    /\ ppc \in [Polls -> {"idle"} \cup PollAwaits]
    /\ todo \in [Polls -> SUBSET Keys]
    /\ seen \in [Polls -> [Keys -> Row]]
    /\ cur \in [Polls -> Keys \cup {NoKey}]
    /\ fee \in [Polls -> Nat]

MonitorInit ==
    /\ Init
    /\ ppc = [p \in Polls |-> "idle"]
    /\ todo = [p \in Polls |-> {}]
    /\ seen = [p \in Polls |-> [k \in Keys |-> NoRow]]
    /\ cur = [p \in Polls |-> NoKey]
    /\ fee = [p \in Polls |-> 0]

-----------------------------------------------------------------------------
PollAt(p, a) == ppc[p] = a
PollGoto(p, a) == ppc' = [ppc EXCEPT ![p] = a]

\* The row being processed, as the poll read it.
SeenRow(p) == seen[p][cur[p]]

\* signingRequestRepo.update(row.id, fields), on the row as it is now.
UpdateRow(p, row) == rows' = [rows EXCEPT ![cur[p]] = row]
CurrentRow(p) == rows[cur[p]]

requestVars == <<pc, rkey, rnonce, counter, syncVars>>
batchVars == <<todo, seen, cur, fee>>

Broadcasted == {k \in Keys : rows[k].status = "broadcasted"}

\* poll: one query for the broadcasted rows.
StartPoll(p) ==
    /\ PollAt(p, "idle")
    /\ Broadcasted # {}
    /\ todo' = [todo EXCEPT ![p] = Broadcasted]
    /\ seen' = [seen EXCEPT ![p] = [k \in Keys |->
                  IF k \in Broadcasted THEN rows[k] ELSE NoRow]]
    /\ PollGoto(p, "next")
    /\ UNCHANGED <<cur, fee, requestVars, rows, ledgerVars>>

(* The loop over the rows; the last one ends the poll.  A row is dropped   *)
(* from the poll's memory, with its fees, once it is processed.            *)
NextRow(p) ==
    /\ PollAt(p, "next")
    /\ fee' = [fee EXCEPT ![p] = 0]
    /\ \/ \E k \in todo[p] :
            /\ cur' = [cur EXCEPT ![p] = k]
            /\ todo' = [todo EXCEPT ![p] = @ \ {k}]
            /\ seen' = [seen EXCEPT ![p] = [j \in Keys |->
                          IF j \in todo[p] THEN @[j] ELSE NoRow]]
            \* a row without a hash is failed at once (lines 60-72)
            /\ PollGoto(p, IF seen[p][k].tx = NoTx THEN "fail" ELSE "receipt")
       \/ /\ todo[p] = {}
          /\ cur' = [cur EXCEPT ![p] = NoKey]
          /\ seen' = [seen EXCEPT ![p] = [k \in Keys |-> NoRow]]
          /\ PollGoto(p, "idle")
          /\ UNCHANGED todo
    /\ UNCHANGED <<requestVars, rows, ledgerVars>>

\* Mutation of FetchReceipt: the receipt's status is not looked at.
FetchReceiptAnyStatus(p) ==
    /\ PollAt(p, "receipt")
    /\ HasReceipt(SeenRow(p).tx)
    /\ PollGoto(p, "confirm")
    /\ UNCHANGED <<batchVars, requestVars, rows, ledgerVars>>

\* 1, 2. The receipt of the hash in the row as it was read.
FetchReceipt(p) ==
    /\ PollAt(p, "receipt")
    /\ HasReceipt(SeenRow(p).tx)
    /\ PollGoto(p, IF SeenRow(p).tx \in reverted THEN "reverted" ELSE "confirm")
    /\ UNCHANGED <<batchVars, requestVars, rows, ledgerVars>>

Confirm(p) ==
    /\ PollAt(p, "confirm")
    /\ UpdateRow(p, [CurrentRow(p) EXCEPT !.status = "confirmed"])
    /\ PollGoto(p, "next")
    /\ UNCHANGED <<batchVars, requestVars, ledgerVars>>

MarkReverted(p) ==
    /\ PollAt(p, "reverted")
    /\ UpdateRow(p, FailedRow(CurrentRow(p)))
    /\ PollGoto(p, "next")
    /\ UNCHANGED <<batchVars, requestVars, ledgerVars>>

\* 3. No receipt: leave a young row for the next poll, look up an old one.
LeaveYoung(p) ==
    /\ PollAt(p, "receipt")
    /\ ~HasReceipt(SeenRow(p).tx)
    /\ PollGoto(p, "next")
    /\ UNCHANGED <<batchVars, requestVars, rows, ledgerVars>>

FindStuck(p) ==
    /\ PollAt(p, "receipt")
    /\ ~HasReceipt(SeenRow(p).tx)
    /\ PollGoto(p, "lookup")
    /\ UNCHANGED <<batchVars, requestVars, rows, ledgerVars>>

\* Mutation of LookUp: the attempt to be made counted as made.
LookUpOneTooFew(p) ==
    /\ PollAt(p, "lookup")
    /\ PollGoto(p, IF ~KnownToNode(SeenRow(p).tx) THEN "drop"
                   ELSE IF SeenRow(p).attempts + 1 >= MaxSpeedUps THEN "give_up"
                   ELSE IF SeenRow(p).nonce = NoNonce THEN "fail"
                   ELSE "estimate")
    /\ UNCHANGED <<batchVars, requestVars, rows, ledgerVars>>

\* Mutation of LookUp: only the mempool is asked.
LookUpPendingOnly(p) ==
    /\ PollAt(p, "lookup")
    /\ PollGoto(p, IF SeenRow(p).tx \notin pool THEN "drop"
                   ELSE IF SeenRow(p).attempts >= MaxSpeedUps THEN "give_up"
                   ELSE IF SeenRow(p).nonce = NoNonce THEN "fail"
                   ELSE "estimate")
    /\ UNCHANGED <<batchVars, requestVars, rows, ledgerVars>>

(* 4. getTransactionByHash: a hash no node knows is dropped; any other one *)
(* is sped up, while the budget lasts.                                     *)
LookUp(p) ==
    /\ PollAt(p, "lookup")
    /\ PollGoto(p, IF ~KnownToNode(SeenRow(p).tx) THEN "drop"
                   ELSE IF SeenRow(p).attempts >= MaxSpeedUps THEN "give_up"
                   ELSE IF SeenRow(p).nonce = NoNonce THEN "fail"
                   ELSE "estimate")
    /\ UNCHANGED <<batchVars, requestVars, rows, ledgerVars>>

MarkDropped(p) ==
    /\ PollAt(p, "drop")
    /\ UpdateRow(p, [CurrentRow(p) EXCEPT !.status = "dropped", !.reason = TRUE])
    /\ PollGoto(p, "next")
    /\ UNCHANGED <<batchVars, requestVars, ledgerVars>>

\* An RPC error in 1, 4 or the fee estimate leaves the row for the next poll.
RpcFails(p) ==
    /\ ppc[p] \in {"receipt", "lookup", "estimate"}
    /\ PollGoto(p, "next")
    /\ UNCHANGED <<batchVars, requestVars, rows, ledgerVars>>

-----------------------------------------------------------------------------
(* SpeedUpService.speedUp, on the row as the poll read it.  Wallets and    *)
(* seeds are never deleted, so lines 85-109 always find them.              *)

\* Mutation of GiveUp: logged, not stored.
GiveUpNotStored(p) ==
    /\ PollAt(p, "give_up")
    /\ PollGoto(p, "next")
    /\ UNCHANGED <<batchVars, requestVars, rows, ledgerVars>>

\* 1. The budget is spent.
GiveUp(p) ==
    /\ PollAt(p, "give_up")
    /\ UpdateRow(p, FailedRow(CurrentRow(p)))
    /\ PollGoto(p, "next")
    /\ UNCHANGED <<batchVars, requestVars, ledgerVars>>

(* 2. Fresh fees, times the bump multiplier: two estimates for one row may *)
(* differ, whatever attempt they are for.                                  *)
EstimateBump(p) ==
    /\ PollAt(p, "estimate")
    /\ \E f \in Fees : fee' = [fee EXCEPT ![p] = f]
    /\ PollGoto(p, "sign")
    /\ UNCHANGED <<todo, seen, cur, requestVars, rows, ledgerVars>>

\* Mutation of Replacement: a nonce of its own.
ReplacementFreshNonce(p) ==
    [key |-> cur[p], nonce |-> counter, by |-> SeenRow(p).tx.by,
     bump |-> SeenRow(p).attempts + 1, fee |-> fee[p]]

(* The replacement: same payment, the payload's nonce, the bumped fees.    *)
(* Polls that build one from the same attempts send two transactions when  *)
(* their estimates differ, and one when they do not.                       *)
Replacement(p) ==
    [key |-> cur[p], nonce |-> SeenRow(p).nonce, by |-> SeenRow(p).tx.by,
     bump |-> SeenRow(p).attempts + 1, fee |-> fee[p]]

\* 3. The sidecar signs it, or the call throws.
SignReplacement(p) ==
    /\ PollAt(p, "sign")
    /\ \/ PollGoto(p, "broadcast")
       \/ PollGoto(p, "fail")
    /\ UNCHANGED <<batchVars, requestVars, rows, ledgerVars>>

\* 4. Broadcast, with the same three ends as in the pipeline.
ReplacementAccepted(p) ==
    /\ PollAt(p, "broadcast")
    /\ Acceptable(Replacement(p))
    /\ Accept(Replacement(p))
    /\ PollGoto(p, "record")
    /\ UNCHANGED <<batchVars, requestVars, rows>>

ReplacementFails(p) ==
    /\ PollAt(p, "broadcast")
    /\ PollGoto(p, "fail")
    /\ UNCHANGED <<batchVars, requestVars, rows, ledgerVars>>

ReplacementReplyLost(p) ==
    /\ "lost_reply" \in Faults
    /\ PollAt(p, "broadcast")
    /\ Acceptable(Replacement(p))
    /\ Accept(Replacement(p))
    /\ PollGoto(p, "fail")
    /\ UNCHANGED <<batchVars, requestVars, rows>>

\* Every other failure of a speed-up, and a row without hash or payload.
MarkSpeedUpFailed(p) ==
    /\ PollAt(p, "fail")
    /\ UpdateRow(p, FailedRow(CurrentRow(p)))
    /\ PollGoto(p, "next")
    /\ UNCHANGED <<batchVars, requestVars, ledgerVars>>

\* Mutation of OriginalTx: the hash replaced last.
LastTx(row) == row.tx

\* The hash to keep for the audit trail: the first one.
OriginalTx(row) == IF row.orig = NoTx THEN row.tx ELSE row.orig

\* 5. Record the replacement; the undefined fields stay as they are.
RecordReplacement(p) ==
    /\ PollAt(p, "record")
    /\ UpdateRow(p, [CurrentRow(p) EXCEPT
                       !.status = "broadcasted",
                       !.tx = Replacement(p),
                       !.orig = OriginalTx(SeenRow(p)),
                       !.attempts = SeenRow(p).attempts + 1])
    /\ PollGoto(p, "next")
    /\ UNCHANGED <<batchVars, requestVars, ledgerVars>>

(* The process dies, and its poll with it.  An update that throws instead  *)
(* is caught by the loop, which goes on with the next row.                 *)
PollDies(p) ==
    /\ "crash" \in Faults
    /\ ppc[p] \in PollAwaits
    /\ PollGoto(p, "idle")
    /\ todo' = [todo EXCEPT ![p] = {}]
    /\ seen' = [seen EXCEPT ![p] = [k \in Keys |-> NoRow]]
    /\ cur' = [cur EXCEPT ![p] = NoKey]
    /\ fee' = [fee EXCEPT ![p] = 0]
    /\ UNCHANGED <<requestVars, rows, ledgerVars>>

UpdateThrows(p) ==
    /\ "crash" \in Faults
    /\ ppc[p] \in {"confirm", "reverted", "drop", "give_up", "fail", "record"}
    /\ PollGoto(p, "next")
    /\ UNCHANGED <<batchVars, requestVars, rows, ledgerVars>>

-----------------------------------------------------------------------------
PollStep(p) ==
    \/ NextRow(p) \/ Confirm(p) \/ MarkReverted(p)
    \/ MarkDropped(p) \/ GiveUp(p) \/ SignReplacement(p)
    \/ ReplacementAccepted(p) \/ ReplacementFails(p) \/ ReplacementReplyLost(p)
    \/ MarkSpeedUpFailed(p) \/ RecordReplacement(p)

Poll(p) ==
    \/ StartPoll(p) \/ PollStep(p) \/ FetchReceipt(p) \/ EstimateBump(p)
    \/ LeaveYoung(p) \/ FindStuck(p) \/ LookUp(p) \/ RpcFails(p)
    \/ PollDies(p) \/ UpdateThrows(p)

MonitorNext ==
    \/ Next /\ UNCHANGED monitorVars
    \/ \E p \in Polls : Poll(p)

MonitorSpec == MonitorInit /\ [][MonitorNext]_allVars

(* The interval timer keeps firing, awaits end, time passes (a row does    *)
(* not stay young for ever) and the providers, however often they fail,    *)
(* answer again and again.                                                 *)
FairMonitorSpec ==
    /\ MonitorSpec
    /\ \A r \in Requests : WF_allVars(Step(r) /\ UNCHANGED monitorVars)
    /\ \A p \in Polls :
          /\ WF_allVars(StartPoll(p)) /\ WF_allVars(PollStep(p))
          /\ SF_allVars(FetchReceipt(p)) /\ SF_allVars(FindStuck(p))
          /\ SF_allVars(LookUp(p)) /\ SF_allVars(EstimateBump(p))

-----------------------------------------------------------------------------
(* A row says confirmed only if a transaction that carries its payment is  *)
(* in a block and did not revert, however polls, speed-ups and retries     *)
(* interleave (processRow).                                                *)
ConfirmedIsPaid ==
    \A k \in Keys : rows[k].status = "confirmed" =>
        \E t \in mined \ reverted : t.key = k

(* A payment is in the blocks twice only if its row failed or was dropped  *)
(* in between: replacements alone never pay twice, because they reuse the  *)
(* nonce of what they replace (speedUp).                                   *)
PaidTwiceOnlyAfterFailure ==
    \A t, u \in mined : t.key = u.key /\ t # u => rows[t.key].reason

(* Transactions signed for two requests share a nonce only if the row of   *)
(* one of them failed in between.  It is all that NonceNeverUsedTwice      *)
(* leaves standing beside the monitor: after a failure two requests may    *)
(* work on one row, and a speed-up then sends the payment of one with the  *)
(* nonce of the other (requestSign and speedUp).                           *)
SharedNonceOnlyAfterFailure ==
    \A t, u \in accepted : t.nonce = u.nonce /\ t.by # u.by =>
        rows[t.key].reason \/ rows[u.key].reason

(* A row is given up only after MAX_SPEED_UP_ATTEMPTS replacements of its  *)
(* payment were accepted, one for each attempt: the counter, which polls   *)
(* write back from copies read earlier and retries inherit, never          *)
(* overstates them (speedUp).                                              *)
GiveUpIsEarned ==
    \A p \in Polls : PollAt(p, "give_up") =>
        \A b \in 1..MaxSpeedUps : \E t \in accepted : t.key = cur[p] /\ t.bump = b

\* The transaction that t, if it is a replacement, has replaced at first.
FirstOf(t) ==
    [key |-> t.key, nonce |-> t.nonce, by |-> t.by, bump |-> 0, fee |-> 0]

(* The audit trail of a row that never failed: hash and original hash are  *)
(* transactions a provider accepted, both with the nonce of the payload    *)
(* that the next speed-up will rebuild from, the original being the first. *)
AuditTrailIntact ==
    \A k \in Keys :
        rows[k].status = "broadcasted" /\ ~rows[k].reason =>
            /\ rows[k].tx \in accepted /\ rows[k].tx.nonce = rows[k].nonce
            /\ rows[k].orig # NoTx =>
                  /\ rows[k].orig \in accepted
                  /\ rows[k].orig = FirstOf(rows[k].tx)

\* At most one request ever reserved a nonce for the payment.
SoleSender(k) ==
    \A r, s \in Requests :
        /\ rkey[r] = k /\ rnonce[r] # NoNonce
        /\ rkey[s] = k /\ rnonce[s] # NoNonce
        => r = s

(* A dropped row, reported as found neither on-chain nor in the mempool,   *)
(* has its payment in no block, if one request worked on it and one        *)
(* transaction was ever accepted for it: a transaction mined while the     *)
(* poll looks is not taken for lost (processRow).  After a speed-up or a   *)
(* retry it may be another of its transactions that is mined: only the     *)
(* hash in the row is looked up.                                           *)
DroppedAloneIsUnpaid ==
    \A k \in Keys : rows[k].status = "dropped" /\ SoleSender(k) =>
        \/ ~\E t \in mined : t.key = k
        \/ \E t, u \in accepted : t.key = k /\ u.key = k /\ t # u

(* Once a row that never failed is broadcasted or confirmed, no request    *)
(* writes it any more: identical requests that arrived while it was being  *)
(* created, however late they go on, leave it to the monitor (requestSign, *)
(* step 5).  Overlapping polls may still overwrite a confirmed row.        *)
SettledRowIsLeft ==
    [][\A k \in Keys :
          (\E r \in Requests : Step(r))
          /\ rows[k].status \in {"broadcasted", "confirmed"} /\ ~rows[k].reason
             => rows'[k] = rows[k]]_allVars

(* Every broadcasted row is settled: confirmed, failed or dropped.         *)
BroadcastedIsSettled ==
    \A k \in Keys :
        rows[k].status = "broadcasted" ~> rows[k].status # "broadcasted"
=============================================================================
