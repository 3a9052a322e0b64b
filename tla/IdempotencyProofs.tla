-------------------------- MODULE IdempotencyProofs --------------------------
(***************************************************************************)
(* What the unique index on signing_requests.idempotency_key guarantees    *)
(* for every set of requests and keys: before a row has failed, one        *)
(* request works on it, so the payment is sent once and the row describes  *)
(* what was sent.                                                          *)
(***************************************************************************)
EXTENDS SigningPipelineProofs

-----------------------------------------------------------------------------
(* The invariant.  OneWorkerUntilFailure is not inductive: a request that  *)
(* has left the working awaits still counts, because what it sent stays    *)
(* sent (OneEntered); a request about to take a row over found it failed,  *)
(* and a failure_reason is never cleared (TakeoverAfterFailure).           *)

\* The request won the row: it created it or took it over.
Entered(r) == rnonce[r] # NoNonce \/ pc[r] = "reserve"

OneEntered ==
    \A r, s \in Requests :
        r # s /\ rkey[r] = rkey[s] /\ Entered(r) /\ Entered(s) => RowOf(r).reason

EnteredHasRow == \A r \in Requests : Entered(r) => RowOf(r).status # "none"

FailedHasReason == \A k \in Keys : rows[k].status = "failed" => rows[k].reason

TakeoverAfterFailure ==
    \A r \in Requests :
        /\ pc[r] = "refind" => RowOf(r).status # "none"
        /\ pc[r] = "reset" => RowOf(r).status # "none" /\ RowOf(r).reason

\* These awaits come after a provider said yes.
AcceptedWhenMarked ==
    \A r \in Requests :
        pc[r] \in {"mark", "audit", "ok"} => TxOf(r) \in accepted

RowInv ==
    /\ OneEntered
    /\ EnteredHasRow
    /\ FailedHasReason
    /\ TakeoverAfterFailure
    /\ UnfinishedRowHasWorker
    /\ AcceptedWhenMarked

USE DEF At, Goto, RowOf, SetRow, NoNonce

LEMMA RowInit == Init => RowInv
  BY DEF Init, LedgerInit, RowInv, OneEntered, EnteredHasRow, FailedHasReason,
         TakeoverAfterFailure, UnfinishedRowHasWorker, AcceptedWhenMarked,
         Entered, NoRow

(* The steps of r that leave the rows and what was accepted alone, do not  *)
(* enter the row and do not leave unfinished work behind.                  *)
LEMMA RowStill ==
    ASSUME TypeInv, RowInv, NEW r \in Requests,
           \E a \in Awaiting \cup Outcomes : pc' = [pc EXCEPT ![r] = a],
           rnonce' = rnonce \/ (pc[r] = "reserve" /\ \E n \in Nat : rnonce' = [rnonce EXCEPT ![r] = n]),
           UNCHANGED <<rkey, rows, accepted>>,
           pc[r] \in Working => pc'[r] \in Working \cup {"dead"},
           pc[r] # "dead",
           pc'[r] = "reserve" => pc[r] = "reserve",
           pc'[r] = "refind" => RowOf(r).status # "none",
           pc'[r] = "reset" => RowOf(r).status # "none" /\ RowOf(r).reason,
           pc'[r] \in {"mark", "audit", "ok"} => TxOf(r) \in accepted /\ rnonce' = rnonce
    PROVE  RowInv'
  <1> USE DEF TypeInv, TypeOK
  <1>0. \A q \in Requests : /\ RowOf(q)' = RowOf(q)
                            /\ Entered(q)' => Entered(q)
                            /\ q # r => pc'[q] = pc[q] /\ rnonce'[q] = rnonce[q]
    <2>1. \A q \in Requests : q # r => pc'[q] = pc[q] /\ rnonce'[q] = rnonce[q]
      OBVIOUS
    <2>2. Entered(r)' => Entered(r)
      BY DEF Entered
    <2> QED
      BY <2>1, <2>2 DEF Entered
  <1>1. OneEntered' /\ EnteredHasRow'
    BY <1>0 DEF RowInv, OneEntered, EnteredHasRow
  <1>2. FailedHasReason' /\ TakeoverAfterFailure'
    BY <1>0 DEF RowInv, FailedHasReason, TakeoverAfterFailure
  <1>3. UnfinishedRowHasWorker'
    BY <1>0 DEF RowInv, UnfinishedRowHasWorker
  <1>4. AcceptedWhenMarked'
    BY <1>0 DEF RowInv, AcceptedWhenMarked, TxOf
  <1> QED
    BY <1>1, <1>2, <1>3, <1>4 DEF RowInv

(* The steps of r that write the row it owns, or is about to take over.    *)
LEMMA RowWritten ==
    ASSUME TypeInv, RowInv, NEW r \in Requests,
           pc[r] \in Working \cup {"reset"},
           NEW a \in Working \cup {"release", "audit", "broadcast_failed"},
           pc' = [pc EXCEPT ![r] = a],
           a = "reserve" => pc[r] = "reset",
           a \in {"mark", "audit"} => pc[r] = "mark",
           NEW row, rows' = [rows EXCEPT ![rkey[r]] = row],
           row.status # "none",
           RowOf(r).reason => row.reason,
           row.status = "failed" => row.reason,
           row.status \in {"pending", "signed"} => a \in Working,
           UNCHANGED <<rkey, rnonce, accepted>>
    PROVE  RowInv'
  <1> USE DEF TypeInv, TypeOK
  <1>0. /\ \A q \in Requests : rkey[q] = rkey[r] => RowOf(q)' = row
        /\ \A q \in Requests : rkey[q] # rkey[r] => RowOf(q)' = RowOf(q)
        /\ \A k \in Keys : k # rkey[r] => rows'[k] = rows[k]
        /\ rows'[rkey[r]] = row
        /\ pc'[r] = a
        /\ \A q \in Requests : q # r => pc'[q] = pc[q]
    OBVIOUS
  <1>1. Entered(r) \/ (pc[r] = "reset" /\ RowOf(r).reason)
    BY DEF Entered, NonceWhenReserved, Working, AfterReserve, RowInv,
           TakeoverAfterFailure
  <1>2. \A q \in Requests : q # r => (Entered(q)' <=> Entered(q))
    BY <1>0 DEF Entered
  <1>3. OneEntered'
    <2> SUFFICES ASSUME NEW q \in Requests, NEW s \in Requests, q # s,
                        rkey[q] = rkey[s], Entered(q)', Entered(s)'
                 PROVE  RowOf(q)'.reason
      BY DEF OneEntered
    <2>1. CASE rkey[q] # rkey[r]
      BY <1>0, <1>2, <2>1 DEF RowInv, OneEntered
    <2>2. CASE rkey[q] = rkey[r]
      <3>1. RowOf(r) = RowOf(q) /\ RowOf(q) = RowOf(s) /\ RowOf(q)' = row
        BY <1>0, <2>2
      <3>2. RowOf(r).reason
        BY <1>1, <1>2, <2>2, <3>1 DEF RowInv, OneEntered
      <3> QED
        BY <3>1, <3>2
    <2> QED
      BY <2>1, <2>2
  <1>4. EnteredHasRow' /\ FailedHasReason'
    BY <1>0, <1>2 DEF RowInv, EnteredHasRow, FailedHasReason
  <1>5. TakeoverAfterFailure'
    <2> SUFFICES ASSUME NEW q \in Requests
                 PROVE  /\ pc'[q] = "refind" => RowOf(q)'.status # "none"
                        /\ pc'[q] = "reset" => /\ RowOf(q)'.status # "none"
                                               /\ RowOf(q)'.reason
      BY DEF TakeoverAfterFailure
    <2>1. CASE q = r
      BY <1>0, <2>1 DEF Working
    <2>2. CASE q # r /\ rkey[q] = rkey[r]
      <3>1. RowOf(q) = RowOf(r)
        BY <2>2
      <3> QED
        BY <1>0, <2>2, <3>1 DEF RowInv, TakeoverAfterFailure
    <2>3. CASE q # r /\ rkey[q] # rkey[r]
      BY <1>0, <2>3 DEF RowInv, TakeoverAfterFailure
    <2> QED
      BY <2>1, <2>2, <2>3
  <1>6. UnfinishedRowHasWorker'
    <2> SUFFICES ASSUME NEW k \in Keys, rows'[k].status \in {"pending", "signed"}
                 PROVE  \E q \in Requests :
                           rkey[q] = k /\ pc'[q] \in Working \cup {"dead"}
      BY DEF UnfinishedRowHasWorker
    <2>1. CASE k = rkey[r]
      BY <1>0, <2>1
    <2>2. CASE k # rkey[r]
      <3>1. PICK q \in Requests : rkey[q] = k /\ pc[q] \in Working \cup {"dead"}
        BY <1>0, <2>2 DEF RowInv, UnfinishedRowHasWorker
      <3> QED
        BY <1>0, <2>2, <3>1
    <2> QED
      BY <2>1, <2>2
  <1>7. AcceptedWhenMarked'
    BY <1>0 DEF RowInv, AcceptedWhenMarked, TxOf, Working
  <1> QED
    BY <1>3, <1>4, <1>5, <1>6, <1>7 DEF RowInv

\* The insert: the key has no row yet, so nobody has entered it.
LEMMA CreateStep ==
    ASSUME TypeInv, RowInv, NEW r \in Requests, CreateRow(r)
    PROVE  RowInv'
  <1> USE DEF TypeInv, TypeOK, CreateRow, ledgerVars, syncVars
  <1>1. CASE RowOf(r).status # "none"
    <2>1. pc' = [pc EXCEPT ![r] = "refind"] /\ UNCHANGED <<rkey, rnonce, rows, accepted>>
      BY <1>1
    <2> QED
      BY <1>1, <2>1, RowStill DEF Working, Awaiting, BeforeReserve
  <1>2. CASE RowOf(r).status = "none"
    <2> DEFINE row == [NoRow EXCEPT !.status = "pending"]
    <2>0. /\ pc' = [pc EXCEPT ![r] = "reserve"]
          /\ rows' = [rows EXCEPT ![rkey[r]] = row]
          /\ UNCHANGED <<rkey, rnonce, accepted>>
          /\ row.status = "pending" /\ ~row.reason
      BY <1>2 DEF NoRow
    <2> HIDE DEF row
    <2>1. \A q \in Requests : rkey[q] = rkey[r] =>
             /\ ~Entered(q)
             /\ pc[q] \notin {"refind", "reset"}
      BY <1>2 DEF RowInv, EnteredHasRow, TakeoverAfterFailure
    <2>2. \A q \in Requests : q # r => (Entered(q)' <=> Entered(q)) /\ pc'[q] = pc[q]
      BY <2>0 DEF Entered
    <2>3. /\ \A q \in Requests : rkey[q] # rkey[r] => RowOf(q)' = RowOf(q)
          /\ \A k \in Keys : k # rkey[r] => rows'[k] = rows[k]
          /\ RowOf(r)' = row /\ rows'[rkey[r]] = row /\ pc'[r] = "reserve"
      BY <2>0
    <2>4. OneEntered'
      BY <2>0, <2>1, <2>2, <2>3 DEF RowInv, OneEntered
    <2>5. EnteredHasRow' /\ FailedHasReason'
      BY <2>0, <2>1, <2>2, <2>3 DEF RowInv, EnteredHasRow, FailedHasReason
    <2>6. TakeoverAfterFailure'
      BY <2>0, <2>1, <2>2, <2>3 DEF RowInv, TakeoverAfterFailure
    <2>7. UnfinishedRowHasWorker'
      BY <2>0, <2>2, <2>3 DEF RowInv, UnfinishedRowHasWorker, Working
    <2>8. AcceptedWhenMarked'
      BY <2>0, <2>2, <2>3 DEF RowInv, AcceptedWhenMarked, TxOf
    <2> QED
      BY <2>4, <2>5, <2>6, <2>7, <2>8 DEF RowInv
  <1> QED
    BY <1>1, <1>2

LEMMA AcceptStep ==
    ASSUME TypeInv, RowInv, NEW r \in Requests,
           BroadcastAccepted(r) \/ BroadcastReplyLost(r)
    PROVE  RowInv'
  <1> USE DEF TypeInv, TypeOK, BroadcastAccepted, BroadcastReplyLost, Accept,
              tableVars
  <1>0. /\ pc[r] = "broadcast" /\ pc'[r] \in {"mark", "fail_broadcast"}
        /\ \A q \in Requests : q # r => pc'[q] = pc[q]
        /\ accepted' = accepted \cup {TxOf(r)}
        /\ UNCHANGED <<rkey, rnonce, rows>>
    OBVIOUS
  <1>1. OneEntered' /\ EnteredHasRow' /\ FailedHasReason' /\ TakeoverAfterFailure'
    BY <1>0 DEF RowInv, OneEntered, EnteredHasRow, FailedHasReason,
                TakeoverAfterFailure, Entered
  <1>2. UnfinishedRowHasWorker'
    BY <1>0 DEF RowInv, UnfinishedRowHasWorker, Working
  <1>3. AcceptedWhenMarked'
    BY <1>0 DEF RowInv, AcceptedWhenMarked, TxOf
  <1> QED
    BY <1>1, <1>2, <1>3 DEF RowInv

LEMMA RowStep == TypeInv /\ RowInv /\ [Next]_vars => RowInv'
  <1> SUFFICES ASSUME TypeInv, RowInv, [Next]_vars
               PROVE  RowInv'
    OBVIOUS
  <1> USE DEF Awaiting, BeforeReserve, AfterReserve, Outcomes, Sent, Working,
              ledgerVars, tableVars, syncVars
  <1>t. /\ pc \in [Requests -> {"idle"} \cup Awaiting \cup Outcomes]
        /\ rkey \in [Requests -> Keys]
        /\ rows \in [Keys -> Row]
    BY DEF TypeInv, TypeOK
  <1>1. ASSUME NEW r \in Requests,
               LoadPrerequisites(r) \/ FindByIdempotencyKey(r)
               \/ EvaluatePolicy(r) \/ EstimateFees(r)
        PROVE  RowInv'
    BY <1>1, <1>t, RowStill
       DEF LoadPrerequisites, FindByIdempotencyKey, EvaluatePolicy, EstimateFees
  <1>2. ASSUME NEW r \in Requests, CreateRow(r)
        PROVE  RowInv'
    BY <1>2, CreateStep
  <1>3. ASSUME NEW r \in Requests, FindRaced(r)
        PROVE  RowInv'
    <2>1. /\ RowOf(r).status # "none"
          /\ RowOf(r).status = "failed" => RowOf(r).reason
      BY <1>3, <1>t DEF FindRaced, RowInv, TakeoverAfterFailure, FailedHasReason
    <2> QED
      BY <1>3, <1>t, <2>1, RowStill DEF FindRaced
  <1>4. ASSUME NEW r \in Requests, ResetRow(r)
        PROVE  RowInv'
    <2> DEFINE row == [RowOf(r) EXCEPT !.status = "pending"]
    <2>1. row.status = "pending" /\ row.reason = RowOf(r).reason
      BY <1>t DEF Row
    <2>3. /\ pc' = [pc EXCEPT ![r] = "reserve"]
          /\ rows' = [rows EXCEPT ![rkey[r]] = row]
          /\ UNCHANGED <<rkey, rnonce, accepted>>
      BY <1>4 DEF ResetRow
    <2> HIDE DEF row
    <2> QED
      BY <1>4, <1>t, <2>1, <2>3, RowWritten DEF ResetRow
  <1>5. ASSUME NEW r \in Requests, ReserveNonce(r)
        PROVE  RowInv'
    BY <1>5, <1>t, RowStill DEF ReserveNonce, TypeInv, TypeOK
  <1>6. ASSUME NEW r \in Requests, StorePayload(r)
        PROVE  RowInv'
    <2> DEFINE row == [RowOf(r) EXCEPT !.nonce = rnonce[r]]
    <2>1. row.status = RowOf(r).status /\ row.reason = RowOf(r).reason
      BY <1>t DEF Row
    <2>2. /\ RowOf(r).status # "none"
          /\ RowOf(r).status = "failed" => RowOf(r).reason
      BY <1>6, <1>t DEF StorePayload, RowInv, EnteredHasRow, Entered,
                       FailedHasReason, TypeInv, NonceWhenReserved
    <2>3. /\ pc' = [pc EXCEPT ![r] = "sign"]
          /\ rows' = [rows EXCEPT ![rkey[r]] = row]
          /\ UNCHANGED <<rkey, rnonce, accepted>>
      BY <1>6 DEF StorePayload
    <2> HIDE DEF row
    <2> QED
      <3>1. /\ row.status # "none"
            /\ RowOf(r).reason => row.reason
            /\ row.status = "failed" => row.reason
        BY <2>1, <2>2
      <3>2. pc[r] = "payload"
        BY <1>6 DEF StorePayload
      <3> QED
        BY <1>t, <2>3, <3>1, <3>2, RowWritten
  <1>7. ASSUME NEW r \in Requests, SignTransaction(r) \/ BroadcastFails(r)
                                   \/ MarkBroadcastedThrows(r)
        PROVE  RowInv'
    BY <1>7, <1>t, RowStill DEF SignTransaction, BroadcastFails, MarkBroadcastedThrows
  <1>8. ASSUME NEW r \in Requests, MarkSignFailed(r) \/ MarkBroadcastFailed(r)
        PROVE  RowInv'
    <2> DEFINE row == FailedRow(RowOf(r))
    <2>1. row.status = "failed" /\ row.reason
      BY <1>t DEF Row, FailedRow
    <2> HIDE DEF row
    <2> QED
      BY <1>8, <1>t, <2>1, RowWritten DEF MarkSignFailed, MarkBroadcastFailed, row
  <1>9. ASSUME NEW r \in Requests, ReleaseNonce(r)
        PROVE  RowInv'
    BY <1>9, <1>t, RowStill DEF ReleaseNonce
  <1>10. ASSUME NEW r \in Requests, StoreSigned(r)
         PROVE  RowInv'
    <2> DEFINE row == [RowOf(r) EXCEPT !.status = "signed", !.tx = TxOf(r)]
    <2>1. row.status = "signed" /\ row.reason = RowOf(r).reason
      BY <1>t DEF Row
    <2>3. /\ pc' = [pc EXCEPT ![r] = "broadcast"]
          /\ rows' = [rows EXCEPT ![rkey[r]] = row]
          /\ UNCHANGED <<rkey, rnonce, accepted>>
      BY <1>10 DEF StoreSigned
    <2> HIDE DEF row
    <2> QED
      BY <1>10, <1>t, <2>1, <2>3, RowWritten DEF StoreSigned
  <1>11. ASSUME NEW r \in Requests, BroadcastAccepted(r) \/ BroadcastReplyLost(r)
         PROVE  RowInv'
    BY <1>11, AcceptStep
  <1>12. ASSUME NEW r \in Requests, MarkBroadcasted(r)
         PROVE  RowInv'
    <2> DEFINE row == [RowOf(r) EXCEPT !.status = "broadcasted"]
    <2>1. row.status = "broadcasted" /\ row.reason = RowOf(r).reason
      BY <1>t DEF Row
    <2>3. /\ pc' = [pc EXCEPT ![r] = "audit"]
          /\ rows' = [rows EXCEPT ![rkey[r]] = row]
          /\ UNCHANGED <<rkey, rnonce, accepted>>
      BY <1>12 DEF MarkBroadcasted
    <2> HIDE DEF row
    <2> QED
      BY <1>12, <1>t, <2>1, <2>3, RowWritten DEF MarkBroadcasted
  <1>13. ASSUME NEW r \in Requests, Audit(r) \/ Crash(r)
         PROVE  RowInv'
    BY <1>13, <1>t, RowStill DEF Audit, Crash, RowInv, AcceptedWhenMarked
  <1>14. ASSUME UNCHANGED <<pc, rkey, rnonce, rows, accepted>>
         PROVE  RowInv'
    BY <1>14 DEF RowInv, OneEntered, EnteredHasRow, FailedHasReason,
                 TakeoverAfterFailure, UnfinishedRowHasWorker,
                 AcceptedWhenMarked, Entered, TxOf
  <1>15. ASSUME NEW r \in Requests, Sync(r)
         PROVE  RowInv'
    BY <1>15, <1>14 DEF Sync, SyncRead, SyncWrite, SyncFails
  <1>16. CASE ChainStep
    BY <1>16, <1>14 DEF ChainStep, LedgerNext, Mine, Evict, pipelineVars
  <1>17. CASE UNCHANGED vars
    BY <1>17, <1>14 DEF vars
  <1> QED
    BY <1>1, <1>2, <1>3, <1>4, <1>5, <1>6, <1>7, <1>8, <1>9, <1>10, <1>11,
       <1>12, <1>13, <1>15, <1>16, <1>17 DEF Next, Step

LEMMA RowInvariant == Spec => [](TypeInv /\ RowInv)
  BY TypeInit, TypeStep, RowInit, RowStep, PTL DEF Spec

(* Of the requests for one payment that race, one works on it, until the   *)
(* row fails: the unique index is the arbiter of the first attempt.        *)
THEOREM OneWorkerBeforeFailure == Spec => []OneWorkerUntilFailure
  <1>1. TypeInv /\ RowInv => OneWorkerUntilFailure
    BY DEF TypeInv, NonceWhenReserved, RowInv, OneEntered, Entered,
           OneWorkerUntilFailure, Working, AfterReserve
  <1> QED
    BY <1>1, RowInvariant, PTL

\* What a step does to a request that holds a nonce: it keeps key and nonce,
\* and what it has left behind it does not come back to.
LEMMA NonceHolderStays ==
    ASSUME TypeInv, [Next]_vars, NEW r \in Requests, rnonce[r] # NoNonce
    PROVE  /\ rnonce'[r] = rnonce[r] /\ rkey'[r] = rkey[r]
           /\ pc[r] \in Sent => pc'[r] \in Sent
           /\ pc[r] \notin Working => pc'[r] \notin Working
  <1> USE DEF TypeInv, TypeOK, ledgerVars, tableVars, syncVars
  <1>0. pc[r] \notin {"idle", "reserve"} \cup BeforeReserve
    BY DEF NonceWhenReserved
  <1>1. rkey' = rkey
    BY DEF Next, Step, Sync, LoadPrerequisites, FindByIdempotencyKey,
           EvaluatePolicy, EstimateFees, CreateRow, FindRaced, ResetRow,
           ReserveNonce, StorePayload, SignTransaction, MarkSignFailed,
           ReleaseNonce, StoreSigned, BroadcastAccepted, BroadcastFails,
           BroadcastReplyLost, MarkBroadcasted, MarkBroadcastedThrows,
           MarkBroadcastFailed, Audit, Crash, SyncRead, SyncWrite, SyncFails,
           ChainStep, pipelineVars, vars
  <1>2. ASSUME NEW q \in Requests,
               LoadPrerequisites(q) \/ Step(q) \/ Crash(q)
        PROVE  /\ rnonce'[r] = rnonce[r]
               /\ pc[r] \in Sent => pc'[r] \in Sent
               /\ pc[r] \notin Working => pc'[r] \notin Working
    <2>1. CASE q = r
      BY <1>0, <1>2, <2>1
         DEF Step, LoadPrerequisites, FindByIdempotencyKey,
             EvaluatePolicy, EstimateFees, CreateRow, FindRaced, ResetRow,
             ReserveNonce, StorePayload, SignTransaction, MarkSignFailed,
             ReleaseNonce, StoreSigned, BroadcastAccepted, BroadcastFails,
             BroadcastReplyLost, MarkBroadcasted, MarkBroadcastedThrows,
             MarkBroadcastFailed, Audit, Crash, BeforeReserve, Sent, Working
    <2>2. CASE q # r
      BY <1>2, <2>2
         DEF Step, LoadPrerequisites, FindByIdempotencyKey,
             EvaluatePolicy, EstimateFees, CreateRow, FindRaced, ResetRow,
             ReserveNonce, StorePayload, SignTransaction, MarkSignFailed,
             ReleaseNonce, StoreSigned, BroadcastAccepted, BroadcastFails,
             BroadcastReplyLost, MarkBroadcasted, MarkBroadcastedThrows,
             MarkBroadcastFailed, Audit, Crash
    <2> QED
      BY <2>1, <2>2
  <1>3. ASSUME ChainStep \/ UNCHANGED vars \/ \E q \in Requests : Sync(q)
        PROVE  UNCHANGED <<pc, rnonce>>
    BY <1>3 DEF ChainStep, Sync, SyncRead, SyncWrite, SyncFails, pipelineVars, vars
  <1> QED
    BY <1>1, <1>2, <1>3 DEF Next

\* What a step adds to the accepted transactions.
LEMMA AcceptedGrows ==
    ASSUME TypeInv, [Next]_vars
    PROVE  \/ accepted' = accepted
           \/ \E r \in Requests : /\ BroadcastAccepted(r) \/ BroadcastReplyLost(r)
                                  /\ accepted' = accepted \cup {TxOf(r)}
  BY DEF Next, Step, Sync, LoadPrerequisites, FindByIdempotencyKey,
         EvaluatePolicy, EstimateFees, CreateRow, FindRaced, ResetRow,
         ReserveNonce, StorePayload, SignTransaction, MarkSignFailed,
         ReleaseNonce, StoreSigned, BroadcastAccepted, BroadcastFails,
         BroadcastReplyLost, MarkBroadcasted, MarkBroadcastedThrows,
         MarkBroadcastFailed, Audit, Crash, SyncRead, SyncWrite, SyncFails,
         ChainStep, LedgerNext, Mine, Evict, Accept, ledgerVars, vars

\* Every accepted transaction is the one its request had signed.
AcceptedIsSigned == \A t \in accepted : t = TxOf(t.by) /\ pc[t.by] \in Sent

\* Who has sent keeps key and nonce, and never gets back to an earlier await.
LEMMA SignedStep == TypeInv /\ AcceptedIsSigned /\ [Next]_vars => AcceptedIsSigned'
  <1> SUFFICES ASSUME TypeInv, AcceptedIsSigned, [Next]_vars
               PROVE  AcceptedIsSigned'
    OBVIOUS
  <1>1. ASSUME NEW t \in accepted
        PROVE  t = TxOf(t.by)' /\ pc'[t.by] \in Sent
    <2>1. t \in Tx /\ t.by \in Requests /\ t = TxOf(t.by) /\ pc[t.by] \in Sent
      BY DEF TypeInv, TypeOK, LedgerTypeOK, Tx, AcceptedIsSigned
    <2>2. rnonce[t.by] # NoNonce
      BY <2>1 DEF Tx, TxOf
    <2> QED
      BY <2>1, <2>2, NonceHolderStays DEF TxOf
  <1>2. ASSUME NEW r \in Requests, BroadcastAccepted(r) \/ BroadcastReplyLost(r)
        PROVE  TxOf(r).by = r /\ TxOf(r)' = TxOf(r) /\ pc'[r] \in Sent
    BY <1>2 DEF BroadcastAccepted, BroadcastReplyLost, TxOf, Sent, TypeInv, TypeOK
  <1>3. accepted' = accepted \/ \E r \in Requests :
           /\ BroadcastAccepted(r) \/ BroadcastReplyLost(r)
           /\ accepted' = accepted \cup {TxOf(r)}
    BY AcceptedGrows
  <1>4. ASSUME NEW t \in accepted'
        PROVE  t = TxOf(t.by)' /\ pc'[t.by] \in Sent
    <2>1. CASE t \in accepted
      BY <1>1, <2>1
    <2>2. CASE t \notin accepted
      <3>1. PICK r \in Requests :
               /\ BroadcastAccepted(r) \/ BroadcastReplyLost(r)
               /\ accepted' = accepted \cup {TxOf(r)}
        BY <1>3, <2>2
      <3>2. t = TxOf(r) /\ t.by = r /\ TxOf(r)' = TxOf(r) /\ pc'[r] \in Sent
        BY <1>2, <2>2, <3>1
      <3> QED
        BY <3>2 DEF TxOf
    <2> QED
      BY <2>1, <2>2
  <1> QED
    BY <1>4 DEF AcceptedIsSigned

LEMMA SignedInvariant == Spec => [](TypeInv /\ RowInv /\ AcceptedIsSigned)
  <1>1. Init => AcceptedIsSigned
    BY DEF Init, LedgerInit, AcceptedIsSigned
  <1> QED
    BY <1>1, SignedStep, TypeInit, TypeStep, RowInit, RowStep, PTL DEF Spec

(* A payment is sent a second time only after its row was marked failed.   *)
THEOREM SentOnceBeforeFailure == Spec => []SentTwiceOnlyAfterFailure
  <1>1. TypeInv /\ RowInv /\ AcceptedIsSigned => SentTwiceOnlyAfterFailure
    <2> SUFFICES ASSUME TypeInv, RowInv, AcceptedIsSigned,
                        NEW t \in accepted, NEW u \in accepted,
                        t.key = u.key, t # u
                 PROVE  rows[t.key].reason
      BY DEF SentTwiceOnlyAfterFailure
    <2>1. t \in Tx /\ u \in Tx /\ t.by \in Requests /\ u.by \in Requests
      BY DEF TypeInv, TypeOK, LedgerTypeOK, Tx
    <2>2. t = TxOf(t.by) /\ u = TxOf(u.by)
      BY DEF AcceptedIsSigned
    <2>3. t.by # u.by
      BY <2>2
    <2>4. rkey[t.by] = t.key /\ rkey[u.by] = u.key
      BY <2>2 DEF TxOf
    <2>5. rnonce[t.by] \in Nat /\ rnonce[u.by] \in Nat
      BY <2>1, <2>2 DEF TxOf, Tx
    <2>6. Entered(t.by) /\ Entered(u.by)
      BY <2>5 DEF Entered
    <2> QED
      BY <2>1, <2>3, <2>4, <2>6 DEF RowInv, OneEntered
  <1> QED
    BY <1>1, SignedInvariant, PTL

(* A row is never stranded in pending or signed by an interleaving: there  *)
(* is a request that will still write it, or that died before it could.    *)
THEOREM UnfinishedRowsHaveWorkers == Spec => []UnfinishedRowHasWorker
  <1>1. RowInv => UnfinishedRowHasWorker
    BY DEF RowInv
  <1> QED
    BY <1>1, RowInvariant, PTL

(* Whoever is told "broadcasted" has a transaction a provider accepted.    *)
THEOREM OkIsAccepted == Spec => []OkMeansAccepted
  <1>1. RowInv => OkMeansAccepted
    BY DEF RowInv, AcceptedWhenMarked, OkMeansAccepted
  <1> QED
    BY <1>1, RowInvariant, PTL

-----------------------------------------------------------------------------
(* What the row says.  BroadcastedRowIsOnChain is not inductive: it needs  *)
(* that the payload and the hash written before are the worker's own,      *)
(* which is so until the row fails, as nobody else writes it (OneEntered). *)

\* A row no broadcast was recorded for yet, and no speed-up.
Unsent(row) ==
    row.status \in {"pending", "signed"} /\ row.attempts = 0 /\ row.orig = NoTx

RowIsOwn ==
    \A r \in Requests : ~RowOf(r).reason =>
        /\ pc[r] \in Working => Unsent(RowOf(r))
        /\ pc[r] \in {"sign", "store", "broadcast", "mark"} =>
              RowOf(r).nonce = rnonce[r]
        /\ pc[r] \in {"broadcast", "mark"} => RowOf(r).tx = TxOf(r)

ContentInv == RowIsOwn /\ BroadcastedRowIsOnChain

\* The steps that leave the rows alone and forget nothing accepted.
LEMMA ContentStill ==
    ASSUME TypeInv, ContentInv, NEW r \in Requests,
           NEW a, pc' = [pc EXCEPT ![r] = a],
           a \in Working => pc[r] \in Working,
           a \in {"sign", "store", "broadcast", "mark"} =>
              pc[r] \in {"sign", "store", "broadcast", "mark"} /\ rnonce' = rnonce,
           a \in {"broadcast", "mark"} => pc[r] \in {"broadcast", "mark"},
           \A s \in Requests : s # r => rnonce'[s] = rnonce[s],
           UNCHANGED <<rkey, rows>>, accepted \subseteq accepted'
    PROVE  ContentInv'
  <1>1. /\ pc'[r] = a
        /\ \A s \in Requests : s # r => pc'[s] = pc[s]
    BY DEF TypeInv, TypeOK
  <1>2. RowIsOwn'
    <2> SUFFICES ASSUME NEW s \in Requests, ~RowOf(s).reason
                 PROVE  /\ pc'[s] \in Working => Unsent(RowOf(s))
                        /\ pc'[s] \in {"sign", "store", "broadcast", "mark"} =>
                              RowOf(s).nonce = rnonce'[s]
                        /\ pc'[s] \in {"broadcast", "mark"} => RowOf(s).tx = TxOf(s)'
      BY DEF RowIsOwn, Unsent
    <2>1. /\ pc[s] \in Working => Unsent(RowOf(s))
          /\ pc[s] \in {"sign", "store", "broadcast", "mark"} =>
                RowOf(s).nonce = rnonce[s]
          /\ pc[s] \in {"broadcast", "mark"} => RowOf(s).tx = TxOf(s)
      BY DEF ContentInv, RowIsOwn
    <2>2. CASE s = r
      BY <1>1, <2>1, <2>2 DEF TxOf, Unsent
    <2>3. CASE s # r
      BY <1>1, <2>1, <2>3 DEF TxOf, Unsent
    <2> QED
      BY <2>2, <2>3
  <1>3. BroadcastedRowIsOnChain'
    BY DEF ContentInv, BroadcastedRowIsOnChain
  <1> QED
    BY <1>2, <1>3 DEF ContentInv

(* The steps of r that write its row: until it has failed, no other        *)
(* request stands where the row has to be its own.                         *)
LEMMA ContentWritten ==
    ASSUME TypeInv, RowInv, ContentInv, NEW r \in Requests,
           NEW a, pc' = [pc EXCEPT ![r] = a],
           NEW row, rows' = [rows EXCEPT ![rkey[r]] = row],
           \/ row.reason
           \/ RowOf(r).status = "none"
           \/ Entered(r) /\ ~RowOf(r).reason,
           ~row.reason /\ a \in Working => Unsent(row),
           ~row.reason /\ a \in {"sign", "store", "broadcast", "mark"} =>
              row.nonce = rnonce[r],
           ~row.reason /\ a \in {"broadcast", "mark"} => row.tx = TxOf(r),
           ~row.reason /\ row.status = "broadcasted" =>
              row.tx \in accepted /\ row.nonce = row.tx.nonce,
           UNCHANGED <<rkey, rnonce, accepted>>
    PROVE  ContentInv'
  <1> USE DEF TypeInv, TypeOK
  <1>1. /\ pc'[r] = a
        /\ \A s \in Requests : s # r => pc'[s] = pc[s]
        /\ \A s \in Requests : rkey[s] = rkey[r] => RowOf(s)' = row
        /\ \A s \in Requests : rkey[s] # rkey[r] => RowOf(s)' = RowOf(s)
        /\ rows'[rkey[r]] = row
        /\ \A k \in Keys : k # rkey[r] => rows'[k] = rows[k]
    OBVIOUS
  <1>2. ASSUME NEW s \in Requests, ~RowOf(s)'.reason, pc'[s] \in Working
        PROVE  /\ Unsent(RowOf(s)')
               /\ pc'[s] \in {"sign", "store", "broadcast", "mark"} =>
                     RowOf(s)'.nonce = rnonce[s]
               /\ pc'[s] \in {"broadcast", "mark"} => RowOf(s)'.tx = TxOf(s)
    <2>1. CASE s = r
      BY <1>1, <1>2, <2>1
    <2>2. CASE s # r /\ rkey[s] = rkey[r]
      <3>1. Entered(s) /\ RowOf(s) = RowOf(r) /\ ~row.reason
        BY <1>1, <1>2, <2>2 DEF Entered, NonceWhenReserved, AfterReserve, Working
      <3>2. Entered(r)
        BY <3>1 DEF RowInv, EnteredHasRow
      <3> QED
        BY <2>2, <3>1, <3>2 DEF RowInv, OneEntered, EnteredHasRow
    <2>3. CASE s # r /\ rkey[s] # rkey[r]
      BY <1>1, <1>2, <2>3 DEF ContentInv, RowIsOwn
    <2> QED
      BY <2>1, <2>2, <2>3
  <1>3. RowIsOwn'
    BY <1>2 DEF RowIsOwn, TxOf, Working, Unsent
  <1>4. BroadcastedRowIsOnChain'
    BY <1>1 DEF ContentInv, BroadcastedRowIsOnChain
  <1> QED
    BY <1>3, <1>4 DEF ContentInv

LEMMA ContentInit == Init => ContentInv
  BY DEF Init, ContentInv, RowIsOwn, BroadcastedRowIsOnChain, NoRow,
         Working

LEMMA ContentStep == TypeInv /\ RowInv /\ ContentInv /\ [Next]_vars => ContentInv'
  <1> SUFFICES ASSUME TypeInv, RowInv, ContentInv, [Next]_vars
               PROVE  ContentInv'
    OBVIOUS
  <1> USE DEF ledgerVars, tableVars, syncVars
  <1>t. /\ rkey \in [Requests -> Keys]
        /\ rows \in [Keys -> Row]
        /\ \A r \in Requests : RowOf(r) \in Row
        /\ rnonce \in [Requests -> Nat \cup {NoNonce}]
    BY DEF TypeInv, TypeOK
  <1>e. \A r \in Requests :
           pc[r] \in AfterReserve => Entered(r) /\ rnonce[r] \in Nat
    BY DEF TypeInv, NonceWhenReserved, Entered
  <1>1. ASSUME NEW r \in Requests,
               \/ LoadPrerequisites(r) \/ FindByIdempotencyKey(r)
               \/ EvaluatePolicy(r) \/ EstimateFees(r) \/ FindRaced(r)
               \/ ReserveNonce(r) \/ SignTransaction(r) \/ ReleaseNonce(r)
               \/ BroadcastFails(r) \/ MarkBroadcastedThrows(r)
               \/ Audit(r) \/ Crash(r)
        PROVE  ContentInv'
    <2>1. PICK a : /\ pc' = [pc EXCEPT ![r] = a]
                   /\ a \notin {"broadcast", "mark"}
                   /\ a \in Working => pc[r] \in Working
                   /\ a \in {"sign", "store"} => pc[r] = "sign" /\ rnonce' = rnonce
      BY <1>1 DEF LoadPrerequisites, FindByIdempotencyKey, EvaluatePolicy,
                  EstimateFees, FindRaced, ReserveNonce, SignTransaction,
                  ReleaseNonce, BroadcastFails, MarkBroadcastedThrows, Audit, Crash, Working
    <2>2. /\ UNCHANGED <<rkey, rows, accepted>>
          /\ \A s \in Requests : s # r => rnonce'[s] = rnonce[s]
      BY <1>1, <1>t DEF LoadPrerequisites, FindByIdempotencyKey, EvaluatePolicy,
                  EstimateFees, FindRaced, ReserveNonce, SignTransaction,
                  ReleaseNonce, BroadcastFails, MarkBroadcastedThrows, Audit, Crash
    <2> QED
      BY <2>1, <2>2, ContentStill
  <1>2. ASSUME NEW r \in Requests, CreateRow(r)
        PROVE  ContentInv'
    <2>1. CASE RowOf(r).status # "none"
      <3>1. /\ pc' = [pc EXCEPT ![r] = "refind"]
            /\ UNCHANGED <<rkey, rows, rnonce, accepted>>
        BY <1>2, <2>1 DEF CreateRow
      <3> QED
        BY <3>1, ContentStill DEF Working
    <2>2. CASE RowOf(r).status = "none"
      <3> DEFINE row == [NoRow EXCEPT !.status = "pending"]
      <3>1. /\ pc' = [pc EXCEPT ![r] = "reserve"]
            /\ rows' = [rows EXCEPT ![rkey[r]] = row]
            /\ UNCHANGED <<rkey, rnonce, accepted>>
        BY <1>2, <2>2 DEF CreateRow
      <3>2. Unsent(row)
        BY DEF NoRow, Unsent
      <3> HIDE DEF row
      <3>3. /\ "reserve" \notin {"sign", "store", "broadcast", "mark"}
            /\ "reserve" \notin {"broadcast", "mark"}
            /\ Unsent(row)
        BY <3>2
      <3> QED
        BY <2>2, <3>1, <3>3, ContentWritten, Zenon DEF Unsent
    <2> QED
      BY <2>1, <2>2
  <1>3. ASSUME NEW r \in Requests, ResetRow(r)
        PROVE  ContentInv'
    <2> DEFINE row == [RowOf(r) EXCEPT !.status = "pending"]
    <2>1. /\ pc' = [pc EXCEPT ![r] = "reserve"]
          /\ rows' = [rows EXCEPT ![rkey[r]] = row]
          /\ UNCHANGED <<rkey, rnonce, accepted>>
      BY <1>3 DEF ResetRow
    <2>2. row.reason = RowOf(r).reason /\ RowOf(r).reason
      BY <1>3, <1>t DEF ResetRow, Row, RowInv, TakeoverAfterFailure
    <2> HIDE DEF row
    <2> QED
      BY <2>1, <2>2, ContentWritten
  <1>4. ASSUME NEW r \in Requests, StorePayload(r)
        PROVE  ContentInv'
    <2> DEFINE row == [RowOf(r) EXCEPT !.nonce = rnonce[r]]
    <2>1. /\ pc[r] = "payload"
          /\ pc' = [pc EXCEPT ![r] = "sign"]
          /\ rows' = [rows EXCEPT ![rkey[r]] = row]
          /\ UNCHANGED <<rkey, rnonce, accepted>>
      BY <1>4 DEF StorePayload
    <2>2. /\ row.reason = RowOf(r).reason /\ row.nonce = rnonce[r]
          /\ Unsent(RowOf(r)) => Unsent(row)
      BY <1>t DEF Row, Unsent
    <2>3. Entered(r)
      BY <1>e, <2>1 DEF AfterReserve
    <2>4. row.reason \/ Unsent(row)
      BY <2>1, <2>2 DEF ContentInv, RowIsOwn, Working
    <2> HIDE DEF row
    <2>5. row.reason \/ (Entered(r) /\ ~RowOf(r).reason)
      BY <2>2, <2>3
    <2>6. "sign" \notin {"broadcast", "mark"}
      OBVIOUS
    <2>7. row.nonce = rnonce[r]
      BY <2>2
    <2> QED
      BY <2>1, <2>4, <2>5, <2>6, <2>7, ContentWritten DEF Unsent
  <1>5. ASSUME NEW r \in Requests, MarkSignFailed(r) \/ MarkBroadcastFailed(r)
        PROVE  ContentInv'
    <2> DEFINE row == FailedRow(RowOf(r))
    <2>1. PICK a : /\ pc' = [pc EXCEPT ![r] = a]
                   /\ rows' = [rows EXCEPT ![rkey[r]] = row]
                   /\ UNCHANGED <<rkey, rnonce, accepted>>
      BY <1>5 DEF MarkSignFailed, MarkBroadcastFailed
    <2>2. row.reason
      BY <1>t DEF FailedRow, Row
    <2> HIDE DEF row
    <2> QED
      BY <2>1, <2>2, ContentWritten
  <1>6. ASSUME NEW r \in Requests, StoreSigned(r)
        PROVE  ContentInv'
    <2> DEFINE row == [RowOf(r) EXCEPT !.status = "signed", !.tx = TxOf(r)]
    <2>1. /\ pc[r] = "store"
          /\ pc' = [pc EXCEPT ![r] = "broadcast"]
          /\ rows' = [rows EXCEPT ![rkey[r]] = row]
          /\ UNCHANGED <<rkey, rnonce, accepted>>
      BY <1>6 DEF StoreSigned
    <2>2. /\ row.reason = RowOf(r).reason /\ row.nonce = RowOf(r).nonce
          /\ Unsent(RowOf(r)) => Unsent(row)
          /\ row.status = "signed" /\ row.tx = TxOf(r)
      BY <1>t DEF Row, Unsent
    <2>3. Entered(r)
      BY <1>e, <2>1 DEF AfterReserve
    <2>4. ~row.reason => row.nonce = rnonce[r] /\ Unsent(row)
      BY <2>1, <2>2 DEF ContentInv, RowIsOwn, Working
    <2> HIDE DEF row
    <2> QED
      BY <2>1, <2>2, <2>3, <2>4, ContentWritten
  <1>7. ASSUME NEW r \in Requests, BroadcastAccepted(r) \/ BroadcastReplyLost(r)
        PROVE  ContentInv'
    <2>1. PICK a \in {"mark", "fail_broadcast"} : pc' = [pc EXCEPT ![r] = a]
      BY <1>7 DEF BroadcastAccepted, BroadcastReplyLost
    <2>2. /\ pc[r] = "broadcast" /\ UNCHANGED <<rkey, rnonce, rows>>
          /\ accepted \subseteq accepted'
      BY <1>7 DEF BroadcastAccepted, BroadcastReplyLost, Accept
    <2> QED
      BY <2>1, <2>2, ContentStill DEF Working
  <1>8. ASSUME NEW r \in Requests, MarkBroadcasted(r)
        PROVE  ContentInv'
    <2> DEFINE row == [RowOf(r) EXCEPT !.status = "broadcasted"]
    <2>1. /\ pc[r] = "mark"
          /\ pc' = [pc EXCEPT ![r] = "audit"]
          /\ rows' = [rows EXCEPT ![rkey[r]] = row]
          /\ UNCHANGED <<rkey, rnonce, accepted>>
      BY <1>8 DEF MarkBroadcasted
    <2>2. /\ row.reason = RowOf(r).reason /\ row.nonce = RowOf(r).nonce
          /\ row.tx = RowOf(r).tx
      BY <1>t DEF Row
    <2>3. Entered(r)
      BY <1>e, <2>1 DEF AfterReserve
    <2>4. ~row.reason => row.tx = TxOf(r) /\ row.nonce = rnonce[r]
      BY <2>1, <2>2 DEF ContentInv, RowIsOwn
    <2>5. TxOf(r) \in accepted /\ TxOf(r).nonce = rnonce[r]
      BY <2>1 DEF RowInv, AcceptedWhenMarked, TxOf
    <2> HIDE DEF row
    <2>6. row.reason \/ (Entered(r) /\ ~RowOf(r).reason)
      BY <2>2, <2>3
    <2>7. ~row.reason => row.tx \in accepted /\ row.nonce = row.tx.nonce
      BY <2>4, <2>5
    <2>8. /\ "audit" \notin Working
          /\ "audit" \notin {"sign", "store", "broadcast", "mark"}
          /\ "audit" \notin {"broadcast", "mark"}
      BY DEF Working
    <2> QED
      BY <2>1, <2>6, <2>7, <2>8, ContentWritten
  <1>9. ASSUME UNCHANGED <<pc, rkey, rnonce, rows, accepted>>
        PROVE  ContentInv'
    BY <1>9 DEF ContentInv, RowIsOwn, BroadcastedRowIsOnChain, TxOf, Unsent
  <1>10. ASSUME NEW r \in Requests, Sync(r)
         PROVE  ContentInv'
    BY <1>10, <1>9 DEF Sync, SyncRead, SyncWrite, SyncFails
  <1>11. CASE ChainStep
    BY <1>11, <1>9 DEF ChainStep, LedgerNext, Mine, Evict, pipelineVars
  <1>12. CASE UNCHANGED vars
    BY <1>12, <1>9 DEF vars
  <1> QED
    BY <1>1, <1>2, <1>3, <1>4, <1>5, <1>6, <1>7, <1>8, <1>10, <1>11, <1>12
       DEF Next, Step

(* The hash and the payload of a broadcasted row that never failed are     *)
(* those of a transaction the providers accepted: the monitor looks for    *)
(* the right hash and rebuilds with the right nonce (requestSign, 6-9).    *)
THEOREM BroadcastedRowsAreOnChain == Spec => []BroadcastedRowIsOnChain
  <1>1. Spec => [](TypeInv /\ RowInv /\ ContentInv)
    BY TypeInit, TypeStep, RowInit, RowStep, ContentInit, ContentStep, PTL DEF Spec
  <1>2. ContentInv => BroadcastedRowIsOnChain
    BY DEF ContentInv
  <1> QED
    BY <1>1, <1>2, PTL

=============================================================================
