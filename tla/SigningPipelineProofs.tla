------------------------ MODULE SigningPipelineProofs ------------------------
(***************************************************************************)
(* What SigningPipeline guarantees for every set of requests and keys and  *)
(* every choice of faults.                                                 *)
(***************************************************************************)
EXTENDS SigningPipeline, TLAPS

-----------------------------------------------------------------------------
(* Type correctness *)

\* The signed transaction is one of Tx once a nonce is reserved.
LEMMA TxOfType ==
    ASSUME TypeOK, NEW r \in Requests, rnonce[r] \in Nat
    PROVE  TxOf(r) \in Tx
  BY DEF TypeOK, TxOf, Tx

(* The requests that stand after the reservation, or ended after it, have  *)
(* a nonce, and those before it have none.                                 *)
NonceWhenReserved ==
    \A r \in Requests :
        /\ pc[r] \in AfterReserve \cup {"ok", "broadcast_failed", "sign_failed"}
              => rnonce[r] \in Nat
        /\ pc[r] \in {"idle", "reserve"} \cup BeforeReserve
              => rnonce[r] = NoNonce

TypeInv == TypeOK /\ NonceWhenReserved

LEMMA TypeInit == Init => TypeInv
  BY DEF Init, TypeInv, TypeOK, NonceWhenReserved, LedgerInit, LedgerTypeOK,
         NoRow, Row, NoNonce, Statuses, AfterReserve, BeforeReserve, Awaiting,
         Outcomes

USE DEF At, Goto, RowOf, SetRow, NoNonce

LEMMA TypeStep == TypeInv /\ [Next]_vars => TypeInv'
  <1> SUFFICES ASSUME TypeInv, [Next]_vars
               PROVE  TypeInv'
    OBVIOUS
  <1> USE DEF TypeInv, TypeOK, NonceWhenReserved, AfterReserve, BeforeReserve,
              Awaiting, Outcomes, ledgerVars, tableVars, syncVars
  <1>1. ASSUME NEW r \in Requests, LoadPrerequisites(r)
        PROVE  TypeInv'
    BY <1>1 DEF LoadPrerequisites, LedgerTypeOK
  <1>2. ASSUME NEW r \in Requests, FindByIdempotencyKey(r)
        PROVE  TypeInv'
    BY <1>2 DEF FindByIdempotencyKey, LedgerTypeOK
  <1>3. ASSUME NEW r \in Requests, EvaluatePolicy(r) \/ EstimateFees(r)
        PROVE  TypeInv'
    BY <1>3 DEF EvaluatePolicy, EstimateFees, LedgerTypeOK
  <1>4. ASSUME NEW r \in Requests, CreateRow(r)
        PROVE  TypeInv'
    <2>1. [NoRow EXCEPT !.status = "pending"] \in Row
      BY DEF NoRow, Row, Statuses
    <2>2. rows' \in [Keys -> Row]
      BY <1>4, <2>1 DEF CreateRow
    <2>3. /\ pc' \in [Requests -> {"idle"} \cup Awaiting \cup Outcomes]
          /\ pc' = [pc EXCEPT ![r] = "reserve"] \/ pc' = [pc EXCEPT ![r] = "refind"]
      BY <1>4 DEF CreateRow
    <2> QED
      BY <1>4, <2>2, <2>3 DEF CreateRow, LedgerTypeOK
  <1>5. ASSUME NEW r \in Requests, FindRaced(r)
        PROVE  TypeInv'
    BY <1>5 DEF FindRaced, LedgerTypeOK
  <1>6. ASSUME NEW r \in Requests, ResetRow(r)
        PROVE  TypeInv'
    BY <1>6 DEF ResetRow, LedgerTypeOK, Row, Statuses
  <1>7. ASSUME NEW r \in Requests, ReserveNonce(r)
        PROVE  TypeInv'
    BY <1>7 DEF ReserveNonce, LedgerTypeOK
  <1>8. ASSUME NEW r \in Requests, StorePayload(r)
        PROVE  TypeInv'
    BY <1>8 DEF StorePayload, LedgerTypeOK, Row, Statuses
  <1>9. ASSUME NEW r \in Requests, SignTransaction(r)
        PROVE  TypeInv'
    BY <1>9 DEF SignTransaction, LedgerTypeOK
  <1>10. ASSUME NEW r \in Requests, MarkSignFailed(r)
         PROVE  TypeInv'
    BY <1>10 DEF MarkSignFailed, FailedRow, LedgerTypeOK, Row, Statuses
  <1>11. ASSUME NEW r \in Requests, ReleaseNonce(r)
         PROVE  TypeInv'
    BY <1>11 DEF ReleaseNonce, Released, LedgerTypeOK
  <1>12. ASSUME NEW r \in Requests, StoreSigned(r)
         PROVE  TypeInv'
    <2>1. TxOf(r) \in Tx
      BY <1>12, TxOfType DEF StoreSigned
    <2> QED
      BY <1>12, <2>1 DEF StoreSigned, LedgerTypeOK, Row, Statuses
  <1>13. ASSUME NEW r \in Requests, BroadcastAccepted(r) \/ BroadcastReplyLost(r)
         PROVE  TypeInv'
    <2>1. TxOf(r) \in Tx
      BY <1>13, TxOfType DEF BroadcastAccepted, BroadcastReplyLost
    <2> QED
      BY <1>13, <2>1 DEF BroadcastAccepted, BroadcastReplyLost, Accept, LedgerTypeOK
  <1>14. ASSUME NEW r \in Requests, BroadcastFails(r)
         PROVE  TypeInv'
    BY <1>14 DEF BroadcastFails, LedgerTypeOK
  <1>15. ASSUME NEW r \in Requests, MarkBroadcasted(r)
         PROVE  TypeInv'
    BY <1>15 DEF MarkBroadcasted, LedgerTypeOK, Row, Statuses
  <1>16. ASSUME NEW r \in Requests, MarkBroadcastedThrows(r) \/ Audit(r) \/ Crash(r)
         PROVE  TypeInv'
    BY <1>16 DEF MarkBroadcastedThrows, Audit, Crash, LedgerTypeOK
  <1>17. ASSUME NEW r \in Requests, MarkBroadcastFailed(r)
         PROVE  TypeInv'
    BY <1>17 DEF MarkBroadcastFailed, FailedRow, LedgerTypeOK, Row, Statuses
  <1>18. ASSUME NEW r \in Requests, SyncRead(r)
         PROVE  TypeInv'
    <2>1. PendingCounts \subseteq Nat
      BY DEF PendingCounts, LedgerTypeOK, Tx
    <2> QED
      BY <1>18, <2>1 DEF SyncRead, LedgerTypeOK
  <1>19. ASSUME NEW r \in Requests, SyncWrite(r)
         PROVE  TypeInv'
    BY <1>19 DEF SyncWrite, Synced, LedgerTypeOK
  <1>20. ASSUME NEW r \in Requests, SyncFails(r)
         PROVE  TypeInv'
    BY <1>20 DEF SyncFails, LedgerTypeOK
  <1>21. ASSUME ChainStep
         PROVE  TypeInv'
    BY <1>21 DEF ChainStep, LedgerNext, Mine, Evict, LedgerTypeOK, pipelineVars
  <1>22. ASSUME UNCHANGED vars
         PROVE  TypeInv'
    BY <1>22 DEF vars, LedgerTypeOK
  <1> QED
    BY <1>1, <1>2, <1>3, <1>4, <1>5, <1>6, <1>7, <1>8, <1>9, <1>10, <1>11,
       <1>12, <1>13, <1>14, <1>15, <1>16, <1>17, <1>18, <1>19, <1>20, <1>21,
       <1>22 DEF Next, Step, Sync

(* The tables, the handlers and the chain keep their types: in particular  *)
(* the nonce counter never becomes negative through a release, and a       *)
(* handler past the reservation always has a nonce to sign with.           *)
THEOREM TypeCorrect == Spec => []TypeOK
  <1>1. Spec => []TypeInv
    BY TypeInit, TypeStep, PTL DEF Spec
  <1>2. TypeInv => TypeOK
    BY DEF TypeInv
  <1> QED
    BY <1>1, <1>2, PTL

-----------------------------------------------------------------------------
(* Nonce safety.  HeldNoncesDistinct is not inductive: a release sets the  *)
(* counter to the released nonce, so the nonces of the others must be      *)
(* below it (HeldBelowCounter), and syncNonce writes a number it read      *)
(* earlier, so that number must be at or below the counter; it is because  *)
(* it counts accepted transactions (SyncCountsAccepted), whose senders     *)
(* hold their nonces for ever (AcceptedBySender).                          *)

\* The awaits and ends at which the request's transaction may be accepted.
Sent == {"mark", "fail_broadcast", "audit", "ok", "broadcast_failed", "dead"}

HeldBelowCounter == \A r \in Requests : Holds(r) => rnonce[r] < counter

AcceptedBySender ==
    \A t \in accepted : rnonce[t.by] = t.nonce /\ pc[t.by] \in Sent

CountsAccepted(n) == n = 0 \/ \E t \in accepted : t.nonce = n - 1

ChainFromAccepted ==
    pool \subseteq accepted /\ mined \subseteq accepted /\ CountsAccepted(chainNonce)

SyncCountsAccepted ==
    \A r \in Requests : spc[r] = "write" => CountsAccepted(sval[r])

NonceInv ==
    /\ HeldBelowCounter
    /\ HeldNoncesDistinct
    /\ AcceptedBySender
    /\ ChainFromAccepted
    /\ SyncCountsAccepted
    /\ NoNonceSkipped

LEMMA NonceInit == Init => NonceInv
  BY DEF Init, LedgerInit, NonceInv, HeldBelowCounter, HeldNoncesDistinct,
         AcceptedBySender, ChainFromAccepted, CountsAccepted,
         SyncCountsAccepted, NoNonceSkipped, Holds

\* The counter is past every nonce that reached a provider.
LEMMA AcceptedBelowCounter ==
    ASSUME TypeInv, NonceInv
    PROVE  /\ \A t \in accepted : Holds(t.by) /\ t.nonce < counter
           /\ \A n \in Nat : CountsAccepted(n) => n <= counter
  <1>1. ASSUME NEW t \in accepted
        PROVE  Holds(t.by) /\ t.nonce < counter
    <2>1. t.by \in Requests /\ t.nonce \in Nat
      BY DEF TypeInv, TypeOK, LedgerTypeOK, Tx
    <2>2. Holds(t.by)
      BY <2>1 DEF NonceInv, AcceptedBySender, Holds, Sent
    <2> QED
      BY <2>1, <2>2 DEF NonceInv, AcceptedBySender, HeldBelowCounter
  <1>2. ASSUME NEW n \in Nat, CountsAccepted(n)
        PROVE  n <= counter
    <2>1. CASE n = 0
      BY <2>1 DEF TypeInv, TypeOK
    <2>2. CASE \E t \in accepted : t.nonce = n - 1
      <3>1. PICK t \in accepted : t.nonce = n - 1
        BY <2>2
      <3>2. t.nonce < counter
        BY <1>1
      <3> QED
        BY <3>1, <3>2 DEF TypeInv, TypeOK
    <2> QED
      BY <1>2, <2>1, <2>2 DEF CountsAccepted
  <1> QED
    BY <1>1, <1>2

(* The steps that move one request on and leave nonces, the counter and    *)
(* the chain alone.                                                        *)
LEMMA QuietStep ==
    ASSUME TypeInv, NonceInv, NEW r \in Requests,
           \E a \in Awaiting \cup Outcomes : pc' = [pc EXCEPT ![r] = a],
           pc[r] # "sign_failed",
           pc[r] \in Sent => pc'[r] \in Sent,
           UNCHANGED <<rnonce, counter, ledgerVars>>,
           \A q \in Requests : spc'[q] = "write"
                                  => spc[q] = "write" /\ sval'[q] = sval[q]
    PROVE  NonceInv'
  <1> USE DEF TypeInv, TypeOK, ledgerVars
  <1>1. HeldBelowCounter'
    BY DEF NonceInv, HeldBelowCounter, Holds
  <1>2. HeldNoncesDistinct'
    BY DEF NonceInv, HeldNoncesDistinct, Holds
  <1>3. AcceptedBySender'
    BY DEF NonceInv, AcceptedBySender, LedgerTypeOK, Tx
  <1>4. ChainFromAccepted'
    BY DEF NonceInv, ChainFromAccepted, CountsAccepted
  <1>5. SyncCountsAccepted'
    BY DEF NonceInv, SyncCountsAccepted, CountsAccepted
  <1>6. NoNonceSkipped'
    BY DEF NonceInv, NoNonceSkipped
  <1> QED
    BY <1>1, <1>2, <1>3, <1>4, <1>5, <1>6 DEF NonceInv

\* The steps that touch neither requests nor nonces nor what was accepted.
LEMMA StillRequests ==
    ASSUME TypeInv, NonceInv,
           UNCHANGED <<pc, rnonce, counter, accepted>>,
           ChainFromAccepted', SyncCountsAccepted'
    PROVE  NonceInv'
  BY DEF NonceInv, HeldBelowCounter, HeldNoncesDistinct, AcceptedBySender,
         NoNonceSkipped, Holds

LEMMA ReserveStep ==
    ASSUME TypeInv, NonceInv, NEW r \in Requests, ReserveNonce(r)
    PROVE  NonceInv'
  <1> USE DEF TypeInv, TypeOK, ReserveNonce, ledgerVars, syncVars
  <1>1. HeldBelowCounter'
    BY DEF NonceInv, HeldBelowCounter, Holds
  <1>2. HeldNoncesDistinct'
    BY DEF NonceInv, HeldBelowCounter, HeldNoncesDistinct, Holds
  <1>3. AcceptedBySender'
    BY DEF NonceInv, AcceptedBySender, Sent, LedgerTypeOK, Tx
  <1>4. ChainFromAccepted' /\ SyncCountsAccepted'
    BY DEF NonceInv, ChainFromAccepted, SyncCountsAccepted, CountsAccepted
  <1>5. NoNonceSkipped'
    <2>1. rnonce[r] = NoNonce
      BY DEF NonceWhenReserved
    <2>2. ASSUME NEW n \in 0..(counter' - 1)
          PROVE  \E q \in Requests : rnonce'[q] = n
      <3>1. CASE n = counter
        BY <3>1
      <3>2. CASE n < counter
        <4>1. PICK q \in Requests : rnonce[q] = n
          BY <2>2, <3>2 DEF NonceInv, NoNonceSkipped
        <4> QED
          BY <2>1, <4>1
      <3> QED
        BY <2>2, <3>1, <3>2
    <2> QED
      BY <2>2 DEF NoNonceSkipped
  <1> QED
    BY <1>1, <1>2, <1>3, <1>4, <1>5 DEF NonceInv

LEMMA ReleaseStep ==
    ASSUME TypeInv, NonceInv, NEW r \in Requests, ReleaseNonce(r)
    PROVE  /\ NonceInv'
           /\ counter' < counter => counter' = counter - 1
           /\ \A t \in accepted : t.nonce < counter'
  <1> USE DEF TypeInv, TypeOK, ReleaseNonce, ledgerVars, syncVars
  <1>1. /\ rnonce[r] \in Nat /\ Holds(r) /\ rnonce[r] < counter
        /\ counter' \in {counter, rnonce[r]}
        /\ counter' # counter => counter = rnonce[r] + 1
    BY DEF NonceWhenReserved, AfterReserve, Holds, Released, NonceInv,
           HeldBelowCounter
  <1>2. ASSUME NEW s \in Requests, s # r, Holds(s)
        PROVE  rnonce[s] < counter'
    BY <1>1, <1>2 DEF NonceInv, HeldBelowCounter, HeldNoncesDistinct, Holds
  <1>3. HeldBelowCounter'
    <2>1. ASSUME NEW s \in Requests, Holds(s)'
          PROVE  s # r /\ Holds(s) /\ rnonce'[s] = rnonce[s]
      BY <2>1 DEF Holds
    <2> QED
      BY <2>1, <1>2 DEF HeldBelowCounter
  <1>4. HeldNoncesDistinct'
    BY DEF NonceInv, HeldNoncesDistinct, Holds
  <1>5. ASSUME NEW t \in accepted
        PROVE  t.by \in Requests /\ t.by # r /\ t.nonce < counter'
    <2>1. t.by \in Requests /\ t.by # r
      BY DEF NonceInv, AcceptedBySender, Sent, LedgerTypeOK, Tx
    <2>2. Holds(t.by) /\ rnonce[t.by] = t.nonce
      BY AcceptedBelowCounter DEF NonceInv, AcceptedBySender
    <2> QED
      BY <2>1, <2>2, <1>2
  <1>6. AcceptedBySender'
    BY <1>5 DEF NonceInv, AcceptedBySender
  <1>7. ChainFromAccepted' /\ SyncCountsAccepted'
    BY DEF NonceInv, ChainFromAccepted, SyncCountsAccepted, CountsAccepted
  <1>8. NoNonceSkipped'
    BY <1>1 DEF NonceInv, NoNonceSkipped
  <1> QED
    BY <1>1, <1>3, <1>4, <1>5, <1>6, <1>7, <1>8 DEF NonceInv

LEMMA BroadcastStep ==
    ASSUME TypeInv, NonceInv, NEW r \in Requests,
           BroadcastAccepted(r) \/ BroadcastReplyLost(r)
    PROVE  NonceInv'
  <1> USE DEF TypeInv, TypeOK, BroadcastAccepted, BroadcastReplyLost, Accept,
              tableVars, syncVars
  <1>1. HeldBelowCounter'
    BY DEF NonceInv, HeldBelowCounter, Holds
  <1>2. HeldNoncesDistinct'
    BY DEF NonceInv, HeldNoncesDistinct, Holds
  <1>3. AcceptedBySender'
    BY DEF NonceInv, AcceptedBySender, Sent, TxOf, LedgerTypeOK, Tx
  <1>4. ChainFromAccepted'
    BY DEF NonceInv, ChainFromAccepted, CountsAccepted
  <1>5. SyncCountsAccepted'
    BY DEF NonceInv, SyncCountsAccepted, CountsAccepted
  <1>6. NoNonceSkipped'
    BY DEF NonceInv, NoNonceSkipped
  <1> QED
    BY <1>1, <1>2, <1>3, <1>4, <1>5, <1>6 DEF NonceInv

LEMMA SyncStep ==
    ASSUME TypeInv, NonceInv, NEW r \in Requests, Sync(r)
    PROVE  NonceInv' /\ counter' = counter
  <1> USE DEF TypeInv, TypeOK, ledgerVars, tableVars
  <1>1. CASE SyncRead(r)
    <2>1. PICK n \in PendingCounts : sval' = [sval EXCEPT ![r] = n]
      BY <1>1 DEF SyncRead
    <2>2. CountsAccepted(n)
      BY DEF PendingCounts, NonceInv, ChainFromAccepted, CountsAccepted,
             LedgerTypeOK, Tx
    <2>3. SyncCountsAccepted'
      BY <1>1, <2>1, <2>2 DEF SyncRead, NonceInv, SyncCountsAccepted, CountsAccepted
    <2>4. ChainFromAccepted'
      BY <1>1 DEF SyncRead, NonceInv, ChainFromAccepted, CountsAccepted
    <2> QED
      BY <1>1, <2>3, <2>4, StillRequests DEF SyncRead
  <1>2. CASE SyncWrite(r)
    <2>1. counter' = counter
      BY <1>2, AcceptedBelowCounter
         DEF SyncWrite, Synced, NonceInv, SyncCountsAccepted
    <2>2. ChainFromAccepted' /\ SyncCountsAccepted'
      BY <1>2 DEF SyncWrite, NonceInv, ChainFromAccepted, SyncCountsAccepted,
                  CountsAccepted
    <2> QED
      BY <1>2, <2>1, <2>2, StillRequests DEF SyncWrite
  <1>3. CASE SyncFails(r)
    <2>1. ChainFromAccepted' /\ SyncCountsAccepted'
      BY <1>3 DEF SyncFails, NonceInv, ChainFromAccepted, SyncCountsAccepted,
                  CountsAccepted
    <2> QED
      BY <1>3, <2>1, StillRequests DEF SyncFails
  <1> QED
    BY <1>1, <1>2, <1>3 DEF Sync

LEMMA ChainStepKeepsNonces ==
    ASSUME TypeInv, NonceInv, ChainStep
    PROVE  NonceInv'
  <1> USE DEF ChainStep, LedgerNext, pipelineVars, tableVars, syncVars
  <1>1. UNCHANGED accepted
    BY DEF Mine, Evict
  <1>2. ChainFromAccepted'
    BY DEF Mine, Evict, NonceInv, ChainFromAccepted, CountsAccepted,
           TypeInv, TypeOK, LedgerTypeOK, Tx
  <1>3. SyncCountsAccepted'
    BY <1>1 DEF NonceInv, SyncCountsAccepted, CountsAccepted
  <1> QED
    BY <1>1, <1>2, <1>3, StillRequests

LEMMA NonceStep == TypeInv /\ NonceInv /\ [Next]_vars => NonceInv'
  <1> SUFFICES ASSUME TypeInv, NonceInv, [Next]_vars
               PROVE  NonceInv'
    OBVIOUS
  <1> USE DEF Awaiting, BeforeReserve, AfterReserve, Outcomes, Sent,
              ledgerVars, tableVars, syncVars
  <1>pc. pc \in [Requests -> {"idle"} \cup Awaiting \cup Outcomes]
    BY DEF TypeInv, TypeOK
  <1>1. ASSUME NEW r \in Requests,
               \/ LoadPrerequisites(r) \/ FindByIdempotencyKey(r)
               \/ EvaluatePolicy(r) \/ EstimateFees(r) \/ FindRaced(r)
        PROVE  NonceInv'
    BY <1>1, <1>pc, QuietStep
       DEF LoadPrerequisites, FindByIdempotencyKey, EvaluatePolicy,
           EstimateFees, FindRaced
  <1>2. ASSUME NEW r \in Requests, CreateRow(r) \/ ResetRow(r) \/ StorePayload(r)
        PROVE  NonceInv'
    BY <1>2, <1>pc, QuietStep DEF CreateRow, ResetRow, StorePayload
  <1>3. ASSUME NEW r \in Requests, ReserveNonce(r)
        PROVE  NonceInv'
    BY <1>3, ReserveStep
  <1>4. ASSUME NEW r \in Requests, SignTransaction(r) \/ MarkSignFailed(r)
        PROVE  NonceInv'
    BY <1>4, <1>pc, QuietStep DEF SignTransaction, MarkSignFailed
  <1>5. ASSUME NEW r \in Requests, ReleaseNonce(r)
        PROVE  NonceInv'
    BY <1>5, ReleaseStep
  <1>6. ASSUME NEW r \in Requests, StoreSigned(r) \/ BroadcastFails(r)
        PROVE  NonceInv'
    BY <1>6, <1>pc, QuietStep DEF StoreSigned, BroadcastFails
  <1>7. ASSUME NEW r \in Requests, BroadcastAccepted(r) \/ BroadcastReplyLost(r)
        PROVE  NonceInv'
    BY <1>7, BroadcastStep
  <1>8. ASSUME NEW r \in Requests,
               MarkBroadcasted(r) \/ MarkBroadcastedThrows(r) \/ Audit(r)
        PROVE  NonceInv'
    BY <1>8, <1>pc, QuietStep DEF MarkBroadcasted, MarkBroadcastedThrows, Audit
  <1>9. ASSUME NEW r \in Requests, MarkBroadcastFailed(r)
        PROVE  NonceInv'
    <2>1. \A q \in Requests : spc'[q] = "write"
                                 => spc[q] = "write" /\ sval'[q] = sval[q]
      BY <1>9 DEF MarkBroadcastFailed, TypeInv, TypeOK
    <2> QED
      BY <1>9, <1>pc, <2>1, QuietStep DEF MarkBroadcastFailed
  <1>10. ASSUME NEW r \in Requests, Sync(r)
         PROVE  NonceInv'
    BY <1>10, SyncStep
  <1>11. ASSUME NEW r \in Requests, Crash(r)
         PROVE  NonceInv'
    BY <1>11, <1>pc, QuietStep DEF Crash
  <1>12. CASE ChainStep
    BY <1>12, ChainStepKeepsNonces
  <1>13. CASE UNCHANGED vars
    BY <1>13, StillRequests
       DEF vars, NonceInv, ChainFromAccepted, SyncCountsAccepted, CountsAccepted
  <1> QED
    BY <1>1, <1>2, <1>3, <1>4, <1>5, <1>6, <1>7, <1>8, <1>9, <1>10, <1>11,
       <1>12, <1>13 DEF Next, Step

LEMMA NonceInvariant == Spec => [](TypeInv /\ NonceInv)
  BY TypeInit, TypeStep, NonceInit, NonceStep, PTL DEF Spec

(* Concurrent requests never hold the same nonce, whatever is released,    *)
(* synced, retried or lost (WalletNonceRepository).                        *)
THEOREM HeldNoncesAreDistinct == Spec => []HeldNoncesDistinct
  <1>1. NonceInv => HeldNoncesDistinct
    BY DEF NonceInv
  <1> QED
    BY <1>1, NonceInvariant, PTL

(* Two requests never get transactions accepted with the same nonce, even  *)
(* when providers accept what they report as failed, as long as requests   *)
(* alone send (Spec has no monitor).                                       *)
THEOREM NonceIsNeverUsedTwice == Spec => []NonceNeverUsedTwice
  <1>1. TypeInv /\ NonceInv => NonceNeverUsedTwice
    <2> SUFFICES ASSUME TypeInv, NonceInv, NEW t \in accepted, NEW u \in accepted,
                        t.nonce = u.nonce
                 PROVE  t.by = u.by
      BY DEF NonceNeverUsedTwice
    <2>1. t.by \in Requests /\ u.by \in Requests /\ Holds(t.by) /\ Holds(u.by)
      BY AcceptedBelowCounter DEF TypeInv, TypeOK, LedgerTypeOK, Tx
    <2>2. rnonce[t.by] = rnonce[u.by]
      BY DEF NonceInv, AcceptedBySender
    <2> QED
      BY <2>1, <2>2 DEF NonceInv, HeldNoncesDistinct
  <1> QED
    BY <1>1, NonceInvariant, PTL

(* The counter has no holes: every nonce below it was reserved by some     *)
(* request, so release and syncNonce never skip one.                       *)
THEOREM NoNonceIsSkipped == Spec => []NoNonceSkipped
  <1>1. NonceInv => NoNonceSkipped
    BY DEF NonceInv
  <1> QED
    BY <1>1, NonceInvariant, PTL

\* What a step does to the counter, from the invariant.
LEMMA CounterStep ==
    ASSUME TypeInv, NonceInv, [Next]_vars, counter' < counter
    PROVE  /\ counter' = counter - 1
           /\ \A t \in accepted : t.nonce < counter'
  <1>1. \/ UNCHANGED counter
        \/ \E r \in Requests : ReserveNonce(r)
        \/ \E r \in Requests : ReleaseNonce(r)
        \/ \E r \in Requests : Sync(r)
    BY DEF Next, Step, LoadPrerequisites, FindByIdempotencyKey, EvaluatePolicy,
           EstimateFees, CreateRow, FindRaced, ResetRow, StorePayload,
           SignTransaction, MarkSignFailed, StoreSigned, BroadcastAccepted,
           BroadcastFails, BroadcastReplyLost, MarkBroadcasted,
           MarkBroadcastedThrows, MarkBroadcastFailed, Audit, Crash, ChainStep,
           pipelineVars, tableVars, vars
  <1>2. counter \in Nat
    BY DEF TypeInv, TypeOK
  <1>3. \A r \in Requests : ~ReserveNonce(r)
    BY <1>2 DEF ReserveNonce
  <1>4. \A r \in Requests : ~Sync(r)
    BY <1>2, SyncStep
  <1> QED
    BY <1>1, <1>2, <1>3, <1>4, ReleaseStep

(* The only step back of the counter is the release of an unsent tail      *)
(* nonce, as long as requests alone send (Spec has no monitor).            *)
THEOREM CounterGoesBackOnlyOverUnsent == Spec => CounterMovesBackOnlyOverUnsent
  <1>1. TypeInv /\ NonceInv /\ [Next]_vars =>
           [counter' < counter =>
              /\ counter' = counter - 1
              /\ \A t \in accepted : t.nonce < counter']_vars
    BY CounterStep
  <1> QED
    BY <1>1, NonceInvariant, PTL DEF Spec, CounterMovesBackOnlyOverUnsent

(* syncNonce never changes the counter: after a failed broadcast there is  *)
(* nothing it can repair, and nothing a stale read of it can break, as     *)
(* long as requests alone send (Spec has no monitor).                      *)
THEOREM SyncIsIdle == Spec => SyncNeverMovesCounter
  <1>1. TypeInv /\ NonceInv /\ [Next]_vars =>
           [(\E r \in Requests : SyncWrite(r)) => counter' = counter]_vars
    BY SyncStep DEF Sync
  <1> QED
    BY <1>1, NonceInvariant, PTL DEF Spec, SyncNeverMovesCounter

-----------------------------------------------------------------------------
(* The refinement.  A reservation takes, an accepted broadcast uses, a     *)
(* release gives back, and every other step leaves the mapped variables    *)
(* alone.  Take needs that the counter is above every held nonce and so    *)
(* above every used one, GiveBack that the sender of a transaction never   *)
(* gets to the release.                                                    *)

Held == [r \in Requests |-> IF Holds(r) THEN rnonce[r] ELSE NoNonce]
Used == {t.nonce : t \in accepted}

\* The dispenser's step in terms of the two mapped variables.
LEMMA DispenserStepForm ==
    ASSUME \/ UNCHANGED <<Held, Used>>
           \/ \E r \in Requests :
                 /\ Held[r] = NoNonce
                 /\ Held'[r] \in Nat \ Used
                 /\ \A s \in Requests : Held[s] # Held'[r]
                 /\ Held' = [Held EXCEPT ![r] = Held'[r]]
                 /\ UNCHANGED Used
           \/ \E r \in Requests :
                 /\ Held[r] # NoNonce
                 /\ Used' = Used \cup {Held[r]}
                 /\ UNCHANGED Held
           \/ \E r \in Requests :
                 /\ Held[r] \notin Used
                 /\ Held' = [Held EXCEPT ![r] = NoNonce]
                 /\ UNCHANGED Used
    PROVE  [Dispenser!Next]_(Dispenser!dispenserVars)
  BY DEF Held, Used, Dispenser!Next, Dispenser!Take, Dispenser!Use,
         Dispenser!GiveBack, Dispenser!dispenserVars, Dispenser!Nothing

LEMMA TakeStep ==
    ASSUME TypeInv, NonceInv, NEW r \in Requests, ReserveNonce(r)
    PROVE  /\ Held[r] = NoNonce
           /\ Held'[r] \in Nat \ Used
           /\ \A s \in Requests : Held[s] # Held'[r]
           /\ Held' = [Held EXCEPT ![r] = Held'[r]]
           /\ UNCHANGED Used
  <1> USE DEF TypeInv, TypeOK, ReserveNonce, ledgerVars
  <1>1. rnonce[r] = NoNonce /\ ~Holds(r) /\ Held[r] = NoNonce
    BY DEF NonceWhenReserved, Holds, Held
  <1>2. Held'[r] = counter /\ UNCHANGED Used
    BY DEF Holds, Held, Used
  <1>3. counter \in Nat \ Used
    BY AcceptedBelowCounter DEF Used
  <1>4. \A s \in Requests : Held[s] # counter
    BY DEF NonceInv, HeldBelowCounter, Held
  <1>5. \A s \in Requests : s # r => Held'[s] = Held[s]
    BY DEF Held, Holds
  <1>6. Held' = [Held EXCEPT ![r] = Held'[r]]
    BY <1>5 DEF Held
  <1> QED
    BY <1>1, <1>2, <1>3, <1>4, <1>6

LEMMA GiveBackStep ==
    ASSUME TypeInv, NonceInv, NEW r \in Requests, ReleaseNonce(r)
    PROVE  /\ Held[r] \notin Used
           /\ Held' = [Held EXCEPT ![r] = NoNonce]
           /\ UNCHANGED Used
  <1> USE DEF TypeInv, TypeOK, ReleaseNonce, ledgerVars
  <1>1. Holds(r) /\ Held[r] = rnonce[r]
    BY DEF NonceWhenReserved, AfterReserve, Holds, Held
  <1>2. ASSUME NEW t \in accepted
        PROVE  t.nonce # rnonce[r]
    <2>1. t.by \in Requests /\ t.by # r
      BY DEF NonceInv, AcceptedBySender, Sent, LedgerTypeOK, Tx
    <2>2. Holds(t.by) /\ rnonce[t.by] = t.nonce
      BY AcceptedBelowCounter DEF NonceInv, AcceptedBySender
    <2> QED
      BY <1>1, <2>1, <2>2 DEF NonceInv, HeldNoncesDistinct
  <1>3. Held'[r] = NoNonce /\ \A s \in Requests : s # r => Held'[s] = Held[s]
    BY DEF Held, Holds
  <1>4. Held' = [Held EXCEPT ![r] = NoNonce]
    BY <1>3 DEF Held
  <1> QED
    BY <1>1, <1>2, <1>4 DEF Used

LEMMA UseStep ==
    ASSUME TypeInv, NonceInv, NEW r \in Requests,
           BroadcastAccepted(r) \/ BroadcastReplyLost(r)
    PROVE  /\ Held[r] # NoNonce
           /\ Used' = Used \cup {Held[r]}
           /\ UNCHANGED Held
  <1> USE DEF TypeInv, TypeOK, BroadcastAccepted, BroadcastReplyLost, Accept
  <1>1. Holds(r) /\ Held[r] = rnonce[r] /\ rnonce[r] \in Nat
    BY DEF NonceWhenReserved, AfterReserve, Holds, Held
  <1>2. TxOf(r).nonce = Held[r] /\ accepted' = accepted \cup {TxOf(r)}
    BY <1>1 DEF TxOf
  <1>3. Used' = Used \cup {Held[r]}
    BY <1>2 DEF Used
  <1>4. UNCHANGED Held
    BY DEF Held, Holds
  <1> QED
    BY <1>1, <1>3, <1>4

LEMMA OtherStep ==
    ASSUME TypeInv, [Next]_vars,
           \A r \in Requests : ~ReserveNonce(r) /\ ~ReleaseNonce(r)
                                  /\ ~BroadcastAccepted(r) /\ ~BroadcastReplyLost(r)
    PROVE  UNCHANGED <<Held, Used>>
  <1> USE DEF TypeInv, TypeOK
  <1>1. UNCHANGED <<rnonce, accepted>>
    BY DEF Next, Step, LoadPrerequisites, FindByIdempotencyKey, EvaluatePolicy,
           EstimateFees, CreateRow, FindRaced, ResetRow, StorePayload,
           SignTransaction, MarkSignFailed, StoreSigned,
           BroadcastFails, MarkBroadcasted,
           MarkBroadcastedThrows, MarkBroadcastFailed, Audit, Crash, ChainStep,
           LedgerNext, Mine, Evict, Sync, SyncRead, SyncWrite, SyncFails,
           pipelineVars, ledgerVars, vars
  <1>2. ASSUME NEW r \in Requests,
               LoadPrerequisites(r) \/ Step(r) \/ Crash(r)
        PROVE  /\ pc[r] # "sign_failed" /\ pc'[r] # "sign_failed"
               /\ \A s \in Requests : s # r => pc'[s] = pc[s]
    BY <1>2 DEF Step, LoadPrerequisites, FindByIdempotencyKey, EvaluatePolicy,
           EstimateFees, CreateRow, FindRaced, ResetRow, StorePayload,
           SignTransaction, MarkSignFailed, StoreSigned,
           BroadcastFails, MarkBroadcasted,
           MarkBroadcastedThrows, MarkBroadcastFailed, Audit, Crash,
           Awaiting, BeforeReserve, AfterReserve
  <1>3. ASSUME ChainStep \/ UNCHANGED vars \/ \E r \in Requests : Sync(r)
        PROVE  UNCHANGED pc
    BY <1>3 DEF ChainStep, Sync, SyncRead, SyncWrite, SyncFails, pipelineVars, vars
  <1>4. \A r \in Requests : (pc[r] = "sign_failed") <=> (pc'[r] = "sign_failed")
    BY <1>2, <1>3 DEF Next
  <1> QED
    BY <1>1, <1>4 DEF Held, Used, Holds

(* Every behaviour of the pipeline is one of the abstract dispenser: what  *)
(* the requests see of the nonces is exactly exclusive, use-once numbers,  *)
(* as long as they alone send (Spec has no monitor).                       *)
THEOREM PipelineImplementsDispenser == Spec => ImplementsDispenser
  <1>1. Init => Dispenser!Init
    BY DEF Init, LedgerInit, Holds, Dispenser!Init, Dispenser!Nothing
  <1>2. TypeInv /\ NonceInv /\ [Next]_vars
           => [Dispenser!Next]_(Dispenser!dispenserVars)
    BY TakeStep, GiveBackStep, UseStep, OtherStep, DispenserStepForm
  <1> QED
    BY <1>1, <1>2, NonceInvariant, PTL
       DEF Spec, ImplementsDispenser, Dispenser!Spec

=============================================================================
