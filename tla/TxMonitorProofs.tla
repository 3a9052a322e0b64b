--------------------------- MODULE TxMonitorProofs ---------------------------
(***************************************************************************)
(* What the pipeline and the monitor guarantee together, for every set of  *)
(* requests, payments and overlapping polls and every budget of speed-ups. *)
(***************************************************************************)
EXTENDS TxMonitor, IdempotencyProofs

-----------------------------------------------------------------------------
(* The invariant.  None of the monitor's properties is inductive.  A poll  *)
(* acts on a copy of a row it read earlier, and writes without looking     *)
(* again, so each needs to know how copy and row relate.  They do as long  *)
(* as one request alone ever reserved a nonce for the payment (SoleSender, *)
(* which a row that never failed implies, by OneEntered): then nobody but  *)
(* polls writes the row any more, all its transactions share one nonce,    *)
(* and copy and row differ only in what speed-ups write.                   *)

\* t carries payment k and was signed for a request that has a nonce for k.
SentFor(t, k) ==
    t.key = k /\ rkey[t.by] = k /\ rnonce[t.by] # NoNonce

(* Hash, payload, attempts and original hash of a row fit together: the    *)
(* hash is that of an accepted transaction, made from the payload by as    *)
(* many bumps as the row counts, and the original hash is that of bump 0,  *)
(* the first one, with the fee of its own estimate.                        *)
Sound(row, txs) ==
    /\ row.tx \in txs
    /\ row.tx.nonce = row.nonce
    /\ row.tx.bump = row.attempts
    /\ row.orig = NoTx => row.attempts = 0 /\ row.tx.fee = 0
    /\ row.orig # NoTx => row.orig = FirstOf(row.tx)

\* Every request that has a nonce for k has written its row for the last time.
Settled(k) ==
    \A r \in Requests :
        rkey[r] = k /\ rnonce[r] # NoNonce => pc[r] \notin Working

\* The chain only knows what providers accepted, and takes a nonce once.
ChainInv ==
    /\ pool \subseteq accepted /\ mined \subseteq accepted
    /\ \A t \in mined : t.nonce < chainNonce
    /\ \A t, u \in mined : t.nonce = u.nonce => t = u

\* Whatever hash is stored, read or accepted belongs to the payment it is for.
OwnTx ==
    /\ \A t \in accepted : SentFor(t, t.key)
    /\ \A k \in Keys : rows[k].tx # NoTx => SentFor(rows[k].tx, k)
    /\ \A p \in Polls, k \in Keys :
          seen[p][k].tx # NoTx => SentFor(seen[p][k].tx, k)

\* A row has failed only after some request was done with it.
FailureAfterWork ==
    \A k \in Keys : rows[k].reason =>
        \E r \in Requests :
            rkey[r] = k /\ rnonce[r] # NoNonce /\ pc[r] \notin Working

\* A sole sender's transactions are its first one and bumps of it.
OneNonce ==
    \A t \in accepted : SoleSender(t.key) =>
        /\ t.nonce = rnonce[t.by]
        /\ TxOf(t.by) \in accepted
        /\ pc[t.by] \in Sent

BroadcastedIsSound ==
    \A k \in Keys :
        SoleSender(k) /\ rows[k].status = "broadcasted" => Sound(rows[k], accepted)

\* The copy a poll holds, against the row as it is now.
CopyIsSound ==
    \A p \in Polls, k \in Keys :
        SoleSender(k) /\ seen[p][k].status = "broadcasted" =>
            /\ Sound(seen[p][k], accepted) /\ Sound(rows[k], accepted)
            /\ rows[k].nonce = seen[p][k].nonce
            /\ Settled(k)

\* Where a poll stands, and what it has found out about the row it holds.
Processing == PollAwaits \ {"next"}
SpeedingUp == {"estimate", "sign", "broadcast", "record"}

HasRow(p) ==
    /\ \A k \in todo[p] : seen[p][k].status = "broadcasted"
    /\ ppc[p] \in Processing =>
          cur[p] \in Keys /\ SeenRow(p).status = "broadcasted"
    /\ ppc[p] \in Processing \ {"fail"} => SeenRow(p).tx # NoTx

\* A sole sender's payment is out of the chain's reach, or was sent twice.
Lost(k) ==
    SoleSender(k) =>
        \/ \E t, u \in accepted : t.key = k /\ u.key = k /\ t # u
        \/ /\ \E t \in accepted : t.key = k
           /\ \A t \in pool \cup mined : t.key # k

Knows(p) ==
    /\ ppc[p] = "confirm" => SeenRow(p).tx \in mined \ reverted
    /\ ppc[p] \in SpeedingUp =>
          SeenRow(p).nonce \in Nat /\ SeenRow(p).attempts < MaxSpeedUps
    /\ ppc[p] = "record" => Replacement(p) \in accepted
    /\ ppc[p] = "drop" => Lost(cur[p])
    /\ ppc[p] = "give_up" => SeenRow(p).attempts >= MaxSpeedUps

PollsInv == \A p \in Polls : HasRow(p) /\ Knows(p)

DroppedIsLost == \A k \in Keys : rows[k].status = "dropped" => Lost(k)

\* Each of the first n replacements of payment k was accepted, once or more.
Earned(k, n) ==
    \A b \in 1..n : \E t \in accepted : t.key = k /\ t.bump = b

\* Rows and copies count no attempt that was not made.
AttemptsEarned ==
    /\ \A k \in Keys : Earned(k, rows[k].attempts)
    /\ \A p \in Polls, k \in Keys : Earned(k, seen[p][k].attempts)

MonitorInv ==
    /\ ChainInv
    /\ OwnTx
    /\ FailureAfterWork
    /\ OneNonce
    /\ BroadcastedIsSound
    /\ CopyIsSound
    /\ PollsInv
    /\ DroppedIsLost
    /\ ConfirmedIsPaid
    /\ AttemptsEarned

MonitorTypes ==
    /\ ppc \in [Polls -> {"idle"} \cup PollAwaits]
    /\ todo \in [Polls -> SUBSET Keys]
    /\ seen \in [Polls -> [Keys -> Row]]
    /\ cur \in [Polls -> Keys \cup {NoKey}]
    /\ fee \in [Polls -> Nat]

\* The pipeline's invariants, which polls keep, and the monitor's own.
Inv == TypeInv /\ MonitorTypes /\ RowInv /\ ContentInv /\ MonitorInv

USE DEF At, Goto, RowOf, SetRow, NoNonce, PollAt, PollGoto, SeenRow, UpdateRow,
        CurrentRow

-----------------------------------------------------------------------------
(* Consequences of the invariant *)

\* A row that never failed has one sender.
LEMMA UnfailedHasSoleSender ==
    ASSUME TypeInv, RowInv, NEW k \in Keys, ~rows[k].reason
    PROVE  SoleSender(k)
  BY DEF TypeInv, TypeOK, RowInv, OneEntered, Entered, SoleSender

\* The sole sender of a row that says broadcasted has left it.
LEMMA SenderHasLeft ==
    ASSUME TypeInv, ContentInv, FailureAfterWork, NEW k \in Keys,
           SoleSender(k), rows[k].status = "broadcasted"
    PROVE  Settled(k)
  <1> SUFFICES ASSUME NEW r \in Requests, rkey[r] = k, rnonce[r] # NoNonce,
                      pc[r] \in Working
               PROVE  FALSE
    BY DEF Settled
  <1>1. CASE rows[k].reason
    BY <1>1 DEF FailureAfterWork, SoleSender
  <1>2. CASE ~rows[k].reason
    BY <1>2 DEF ContentInv, RowIsOwn, Unsent
  <1> QED
    BY <1>1, <1>2

LEMMA SoundStays ==
    ASSUME NEW row, NEW A, NEW B, A \subseteq B, Sound(row, A)
    PROVE  Sound(row, B)
  BY DEF Sound

\* What every step of pipeline and monitor keeps.
Grows ==
    /\ rkey' = rkey
    /\ \A r \in Requests : rnonce[r] # NoNonce =>
          /\ rnonce'[r] = rnonce[r]
          /\ pc[r] \in Sent => pc'[r] \in Sent
          /\ pc[r] \notin Working => pc'[r] \notin Working
    /\ accepted \subseteq accepted'
    /\ mined \ reverted \subseteq mined' \ reverted'

LEMMA SoleSenderBefore ==
    ASSUME TypeInv, Grows, NEW k \in Keys, SoleSender(k)'
    PROVE  SoleSender(k)
  BY DEF TypeInv, TypeOK, Grows, SoleSender

\* The steps of the pipeline in which the chain takes part.
LEMMA LedgerCases ==
    ASSUME [Next]_vars
    PROVE  \/ UNCHANGED ledgerVars
           \/ \E r \in Requests : BroadcastAccepted(r) \/ BroadcastReplyLost(r)
           \/ \E t \in pool : Mine(t) \/ Evict(t)
  <1>1. ASSUME NEW r \in Requests,
               LoadPrerequisites(r) \/ Step(r) \/ Sync(r) \/ Crash(r)
        PROVE  \/ UNCHANGED ledgerVars
               \/ BroadcastAccepted(r) \/ BroadcastReplyLost(r)
    BY <1>1
       DEF Step, Sync, LoadPrerequisites, FindByIdempotencyKey,
           EvaluatePolicy, EstimateFees, CreateRow, FindRaced, ResetRow,
           ReserveNonce, StorePayload, SignTransaction, MarkSignFailed,
           ReleaseNonce, StoreSigned, BroadcastFails, MarkBroadcasted,
           MarkBroadcastedThrows, MarkBroadcastFailed, Audit, Crash,
           SyncRead, SyncWrite, SyncFails
  <1>2. CASE ChainStep
    BY <1>2 DEF ChainStep, LedgerNext
  <1>3. CASE UNCHANGED vars
    BY <1>3 DEF vars
  <1> QED
    BY <1>1, <1>2, <1>3 DEF Next

\* The chain extends; it takes nothing back.
LEMMA ChainKeeps ==
    ASSUME TypeInv, ChainInv, [Next]_vars
    PROVE  ChainInv' /\ mined \ reverted \subseteq mined' \ reverted'
  <1> USE DEF TypeInv, TypeOK, LedgerTypeOK
  <1>1. CASE UNCHANGED <<chainNonce, pool, mined, reverted, accepted>>
    BY <1>1 DEF ChainInv
  <1>2. ASSUME NEW r \in Requests, BroadcastAccepted(r) \/ BroadcastReplyLost(r)
        PROVE  ChainInv' /\ mined \ reverted \subseteq mined' \ reverted'
    BY <1>2 DEF BroadcastAccepted, BroadcastReplyLost, Accept, ChainInv
  <1>3. ASSUME NEW t \in pool, Mine(t)
        PROVE  ChainInv' /\ mined \ reverted \subseteq mined' \ reverted'
    <2>1. t \notin mined /\ t.nonce \in Nat
      BY <1>3 DEF Mine, ChainInv, Tx
    <2>2. \A u \in mined : u.nonce \in Nat
      BY DEF Tx
    <2>3. ChainInv'
      BY <1>3, <2>1, <2>2 DEF Mine, ChainInv
    <2>4. mined \ reverted \subseteq mined' \ reverted'
      BY <1>3, <2>1 DEF Mine
    <2> QED
      BY <2>3, <2>4
  <1>4. ASSUME NEW t \in pool, Evict(t)
        PROVE  ChainInv' /\ mined \ reverted \subseteq mined' \ reverted'
    BY <1>4 DEF Evict, ChainInv
  <1> QED
    BY <1>1, <1>2, <1>3, <1>4, LedgerCases DEF ledgerVars

LEMMA PipelineGrows ==
    ASSUME TypeInv, ChainInv, [Next]_vars
    PROVE  Grows
  <1>1. rkey' = rkey
    BY DEF Next, Step, Sync, LoadPrerequisites, FindByIdempotencyKey,
           EvaluatePolicy, EstimateFees, CreateRow, FindRaced, ResetRow,
           ReserveNonce, StorePayload, SignTransaction, MarkSignFailed,
           ReleaseNonce, StoreSigned, BroadcastAccepted, BroadcastFails,
           BroadcastReplyLost, MarkBroadcasted, MarkBroadcastedThrows,
           MarkBroadcastFailed, Audit, Crash, SyncRead, SyncWrite, SyncFails,
           ChainStep, pipelineVars, vars
  <1>2. accepted \subseteq accepted'
    BY AcceptedGrows
  <1>3. mined \ reverted \subseteq mined' \ reverted'
    BY ChainKeeps
  <1> QED
    BY <1>1, <1>2, <1>3, NonceHolderStays DEF Grows

-----------------------------------------------------------------------------
(* The steps of the pipeline *)

\* Nothing but the status of row k changes.
StatusOnly(k) ==
    /\ rows'[k].nonce = rows[k].nonce /\ rows'[k].tx = rows[k].tx
    /\ rows'[k].attempts = rows[k].attempts /\ rows'[k].orig = rows[k].orig

\* The four ways in which request r writes the row of its key.
Creates(r) ==
    /\ RowOf(r).status = "none"
    /\ rows'[rkey[r]] = [NoRow EXCEPT !.status = "pending"]
    /\ UNCHANGED rnonce

TakesOver(r) ==
    /\ pc[r] = "reset"
    /\ rows'[rkey[r]].status = "pending" /\ StatusOnly(rkey[r])
    /\ rows'[rkey[r]].reason = RowOf(r).reason
    /\ UNCHANGED rnonce

WorksOn(r) ==
    /\ pc[r] \in Working /\ rnonce[r] # NoNonce /\ UNCHANGED rnonce
    /\ rows'[rkey[r]].reason => RowOf(r).reason \/ pc'[r] \notin Working
    /\ RowOf(r).reason => rows'[rkey[r]].reason
    /\ rows'[rkey[r]].tx \in {RowOf(r).tx, TxOf(r)}
    /\ rows'[rkey[r]].nonce \in {RowOf(r).nonce, rnonce[r]}
    /\ rows'[rkey[r]].attempts = RowOf(r).attempts
    /\ rows'[rkey[r]].status \in {RowOf(r).status, "failed", "signed"}

Finishes(r) ==
    /\ pc[r] = "mark" /\ rnonce[r] # NoNonce /\ UNCHANGED rnonce
    /\ rows'[rkey[r]].status = "broadcasted" /\ StatusOnly(rkey[r])
    /\ rows'[rkey[r]].reason = RowOf(r).reason

LEMMA PipelineWrites ==
    ASSUME TypeInv, [Next]_vars, NEW k \in Keys
    PROVE  \/ rows'[k] = rows[k]
           \/ /\ UNCHANGED <<accepted, pool, mined, reverted>>
              /\ \E r \in Requests :
                    /\ rkey[r] = k
                    /\ Creates(r) \/ TakesOver(r) \/ WorksOn(r) \/ Finishes(r)
  <1> DEFINE Goal == \/ rows'[k] = rows[k]
                     \/ /\ UNCHANGED <<accepted, pool, mined, reverted>>
                        /\ \E r \in Requests :
                              /\ rkey[r] = k
                              /\ \/ Creates(r) \/ TakesOver(r)
                                 \/ WorksOn(r) \/ Finishes(r)
  <1> USE DEF TypeInv, TypeOK, ledgerVars
  <1>n. \A r \in Requests : pc[r] \in AfterReserve => rnonce[r] # NoNonce
    BY DEF NonceWhenReserved
  <1>1. ASSUME NEW r \in Requests, CreateRow(r)
        PROVE  Goal
    BY <1>1 DEF CreateRow, Creates
  <1>2. ASSUME NEW r \in Requests, ResetRow(r)
        PROVE  Goal
    BY <1>2 DEF ResetRow, TakesOver, StatusOnly, Row
  <1>3. ASSUME NEW r \in Requests, StorePayload(r)
        PROVE  Goal
    BY <1>3, <1>n DEF StorePayload, WorksOn, Row, AfterReserve, Working
  <1>4. ASSUME NEW r \in Requests, MarkSignFailed(r) \/ MarkBroadcastFailed(r)
        PROVE  Goal
    <2>1. /\ pc[r] \in Working /\ rnonce[r] # NoNonce /\ UNCHANGED rnonce
          /\ pc'[r] \notin Working
          /\ rows' = [rows EXCEPT ![rkey[r]] = FailedRow(RowOf(r))]
          /\ UNCHANGED <<accepted, pool, mined, reverted>>
      BY <1>4, <1>n DEF MarkSignFailed, MarkBroadcastFailed, Working, AfterReserve
    <2>2. /\ FailedRow(RowOf(r)).tx = RowOf(r).tx /\ FailedRow(RowOf(r)).reason
          /\ FailedRow(RowOf(r)).status = "failed"
          /\ FailedRow(RowOf(r)).nonce = RowOf(r).nonce
          /\ FailedRow(RowOf(r)).attempts = RowOf(r).attempts
      BY DEF FailedRow, Row
    <2>3. CASE rkey[r] = k
      <3>1. rows'[k] = FailedRow(RowOf(r))
        BY <2>1, <2>3
      <3> QED
        BY <2>1, <2>2, <2>3, <3>1 DEF WorksOn
    <2>4. CASE rkey[r] # k
      BY <2>1, <2>4
    <2> QED
      BY <2>3, <2>4
  <1>5. ASSUME NEW r \in Requests, StoreSigned(r)
        PROVE  Goal
    BY <1>5, <1>n DEF StoreSigned, WorksOn, Row, AfterReserve, Working
  <1>6. ASSUME NEW r \in Requests, MarkBroadcasted(r)
        PROVE  Goal
    BY <1>6, <1>n DEF MarkBroadcasted, Finishes, StatusOnly, Row, AfterReserve
  <1>7. ASSUME NEW r \in Requests,
               \/ LoadPrerequisites(r) \/ FindByIdempotencyKey(r)
               \/ EvaluatePolicy(r) \/ EstimateFees(r) \/ FindRaced(r)
               \/ ReserveNonce(r) \/ SignTransaction(r) \/ ReleaseNonce(r)
               \/ BroadcastAccepted(r) \/ BroadcastFails(r) \/ BroadcastReplyLost(r)
               \/ MarkBroadcastedThrows(r) \/ Audit(r) \/ Sync(r) \/ Crash(r)
        PROVE  Goal
    <2>1. UNCHANGED rows
      BY <1>7 DEF LoadPrerequisites, FindByIdempotencyKey, EvaluatePolicy,
                  EstimateFees, FindRaced, ReserveNonce, SignTransaction,
                  ReleaseNonce, BroadcastAccepted, BroadcastFails,
                  BroadcastReplyLost, MarkBroadcastedThrows, Audit, Crash, Sync,
                  SyncRead, SyncWrite, SyncFails, tableVars
    <2> QED
      BY <2>1
  <1>8. CASE ChainStep \/ UNCHANGED vars
    <2>1. UNCHANGED rows
      BY <1>8 DEF ChainStep, pipelineVars, tableVars, vars
    <2> QED
      BY <2>1
  <1> QED
    BY <1>1, <1>2, <1>3, <1>4, <1>5, <1>6, <1>7, <1>8 DEF Next, Step

LEMMA LostStays ==
    ASSUME TypeInv, Grows, NEW k \in Keys, Lost(k),
           \A t \in (pool' \cup mined') \ (pool \cup mined) :
              t.key = k /\ SoleSender(k) =>
                 \/ ~\E u \in accepted : u.key = k
                 \/ \E u, v \in accepted' : u.key = k /\ v.key = k /\ u # v
    PROVE  Lost(k)'
  <1> SUFFICES ASSUME SoleSender(k)'
               PROVE  \/ \E t, u \in accepted' : t.key = k /\ u.key = k /\ t # u
                      \/ /\ \E t \in accepted' : t.key = k
                         /\ \A t \in pool' \cup mined' : t.key # k
    BY DEF Lost
  <1>1. SoleSender(k) /\ accepted \subseteq accepted'
    BY SoleSenderBefore DEF Grows
  <1> QED
    BY <1>1 DEF Lost

\* What enters the chain's reach is what a request at its broadcast had signed.
LEMMA PipelineSends ==
    ASSUME TypeInv, [Next]_vars
    PROVE  \/ accepted' = accepted /\ pool' \cup mined' \subseteq pool \cup mined
           \/ \E r \in Requests :
                 /\ pc[r] = "broadcast" /\ pc'[r] \in Sent /\ rnonce[r] \in Nat
                 /\ UNCHANGED <<rkey, rnonce>>
                 /\ accepted' = accepted \cup {TxOf(r)}
                 /\ pool' \cup mined' \subseteq pool \cup mined \cup {TxOf(r)}
  <1>1. ASSUME NEW r \in Requests, BroadcastAccepted(r) \/ BroadcastReplyLost(r)
        PROVE  /\ pc[r] = "broadcast" /\ pc'[r] \in Sent /\ rnonce[r] \in Nat
               /\ UNCHANGED <<rkey, rnonce>>
               /\ accepted' = accepted \cup {TxOf(r)}
               /\ pool' \cup mined' \subseteq pool \cup mined \cup {TxOf(r)}
    BY <1>1 DEF BroadcastAccepted, BroadcastReplyLost, Accept, TypeInv, TypeOK,
                NonceWhenReserved, AfterReserve, Sent
  <1>2. ASSUME NEW t \in pool, Mine(t) \/ Evict(t)
        PROVE  accepted' = accepted /\ pool' \cup mined' \subseteq pool \cup mined
    BY <1>2 DEF Mine, Evict
  <1>3. CASE UNCHANGED ledgerVars
    BY <1>3 DEF ledgerVars
  <1> QED
    BY <1>1, <1>2, <1>3, LedgerCases

\* For each part of the invariant, what the pipeline's steps do to it.
LEMMA PipelineOwnTx ==
    ASSUME Inv, [Next]_vars, UNCHANGED monitorVars, Grows
    PROVE  OwnTx'
  <1> USE DEF Inv, MonitorInv, OwnTx, SentFor, monitorVars
  <1>t. /\ accepted \subseteq Tx
        /\ \A t \in Tx : t.key \in Keys /\ t.by \in Requests
        /\ rows \in [Keys -> Row] /\ seen \in [Polls -> [Keys -> Row]]
        /\ \A row \in Row : row.tx # NoTx => row.tx \in Tx
        /\ rkey \in [Requests -> Keys]
    BY DEF TypeInv, TypeOK, LedgerTypeOK, Tx, Row, MonitorTypes
  <1>g. \A r \in Requests : /\ rkey'[r] = rkey[r]
                            /\ rnonce[r] # NoNonce => rnonce'[r] # NoNonce
    BY DEF Grows
  <1>1. ASSUME NEW t \in accepted'
        PROVE  SentFor(t, t.key)'
    <2>1. CASE t \in accepted
      BY <1>t, <1>g, <2>1
    <2>2. CASE t \notin accepted
      <3>1. PICK r \in Requests : /\ rnonce[r] \in Nat /\ UNCHANGED <<rkey, rnonce>>
                                  /\ accepted' = accepted \cup {TxOf(r)}
        BY <2>2, PipelineSends
      <3> QED
        BY <2>2, <3>1 DEF TxOf
    <2> QED
      BY <2>1, <2>2
  <1>2. ASSUME NEW k \in Keys, rows'[k].tx # NoTx
        PROVE  rows'[k].tx.key = k /\ rkey'[rows'[k].tx.by] = k
               /\ rnonce'[rows'[k].tx.by] # NoNonce
    <2>1. CASE rows'[k].tx = rows[k].tx
      BY <1>t, <1>g, <1>2, <2>1
    <2>2. CASE rows'[k].tx # rows[k].tx
      <3>1. PICK r \in Requests : /\ rkey[r] = k
                                  /\ Creates(r) \/ WorksOn(r)
        BY <2>2, PipelineWrites DEF TakesOver, Finishes, StatusOnly
      <3>2. ~Creates(r)
        BY <1>2, <3>1 DEF Creates, NoRow
      <3>3. rows'[k].tx = TxOf(r) /\ rnonce[r] # NoNonce
        BY <2>2, <3>1, <3>2 DEF WorksOn
      <3> QED
        BY <1>g, <3>1, <3>3 DEF TxOf
    <2> QED
      BY <2>1, <2>2
  <1>3. ASSUME NEW p \in Polls, NEW k \in Keys, seen'[p][k].tx # NoTx
        PROVE  seen'[p][k].tx.key = k /\ rkey'[seen'[p][k].tx.by] = k
               /\ rnonce'[seen'[p][k].tx.by] # NoNonce
    BY <1>t, <1>g, <1>3
  <1> QED
    BY <1>1, <1>2, <1>3

LEMMA PipelineFailure ==
    ASSUME Inv, [Next]_vars, Grows
    PROVE  FailureAfterWork'
  <1> SUFFICES ASSUME NEW k \in Keys, rows'[k].reason
               PROVE  \E r \in Requests : /\ rkey'[r] = k /\ rnonce'[r] # NoNonce
                                          /\ pc'[r] \notin Working
    BY DEF FailureAfterWork
  <1>1. CASE rows[k].reason
    BY <1>1 DEF Inv, MonitorInv, FailureAfterWork, Grows
  <1>2. CASE ~rows[k].reason
    <2>1. PICK r \in Requests : rkey[r] = k /\ (Creates(r) \/ WorksOn(r))
      BY <1>2, PipelineWrites DEF Inv, TakesOver, Finishes
    <2>2. ~Creates(r)
      BY <2>1 DEF Creates, NoRow
    <2> QED
      BY <1>2, <2>1, <2>2 DEF WorksOn, Grows
  <1> QED
    BY <1>1, <1>2

LEMMA PipelineOneNonce ==
    ASSUME Inv, [Next]_vars, Grows
    PROVE  OneNonce'
  <1> USE DEF Inv, MonitorInv
  <1>t. \A t \in accepted : /\ t.key \in Keys /\ t.by \in Requests
                            /\ rkey[t.by] = t.key /\ rnonce[t.by] # NoNonce
    BY DEF TypeInv, TypeOK, LedgerTypeOK, Tx, OwnTx, SentFor
  <1> SUFFICES ASSUME NEW t \in accepted', SoleSender(t.key)'
               PROVE  t.nonce = rnonce'[t.by] /\ TxOf(t.by)' \in accepted'
                      /\ pc'[t.by] \in Sent
    BY DEF OneNonce
  <1>1. CASE t \in accepted
    <2>1. SoleSender(t.key)
      BY <1>1, <1>t, SoleSenderBefore
    <2>2. /\ t.nonce = rnonce[t.by] /\ TxOf(t.by) \in accepted
          /\ pc[t.by] \in Sent
      BY <1>1, <2>1 DEF OneNonce
    <2>3. rnonce'[t.by] = rnonce[t.by] /\ rkey'[t.by] = rkey[t.by]
          /\ pc'[t.by] \in Sent /\ accepted \subseteq accepted'
      BY <1>1, <1>t, <2>2 DEF Grows
    <2> QED
      BY <2>2, <2>3 DEF TxOf
  <1>2. CASE t \notin accepted
    <2>1. PICK r \in Requests : /\ pc'[r] \in Sent /\ UNCHANGED <<rkey, rnonce>>
                                /\ accepted' = accepted \cup {TxOf(r)}
      BY <1>2, PipelineSends
    <2>2. t = TxOf(r) /\ t.by = r /\ t.nonce = rnonce[r]
      BY <1>2, <2>1 DEF TxOf
    <2> QED
      BY <2>1, <2>2 DEF TxOf
  <1> QED
    BY <1>1, <1>2

\* A sole sender that works on the row finds it as it left it.
LEMMA WorkerAlone ==
    ASSUME Inv, NEW r \in Requests, pc[r] \in Working, rnonce[r] # NoNonce,
           SoleSender(rkey[r])
    PROVE  /\ ~RowOf(r).reason
           /\ Unsent(RowOf(r))
           /\ pc[r] = "mark" => RowOf(r).tx = TxOf(r) /\ RowOf(r).nonce = rnonce[r]
           /\ \A p \in Polls : seen[p][rkey[r]].status # "broadcasted"
  <1>0. rkey[r] \in Keys
    BY DEF Inv, TypeInv, TypeOK
  <1>1. ~RowOf(r).reason
    BY <1>0 DEF Inv, MonitorInv, FailureAfterWork, SoleSender
  <1>2. /\ Unsent(RowOf(r))
        /\ pc[r] = "mark" => RowOf(r).tx = TxOf(r) /\ RowOf(r).nonce = rnonce[r]
    BY <1>1 DEF Inv, ContentInv, RowIsOwn
  <1>3. ASSUME NEW p \in Polls, seen[p][rkey[r]].status = "broadcasted"
        PROVE  FALSE
    BY <1>0, <1>3 DEF Inv, MonitorInv, CopyIsSound, Settled
  <1> QED
    BY <1>1, <1>2, <1>3

LEMMA PipelineSound ==
    ASSUME Inv, [Next]_vars, Grows
    PROVE  BroadcastedIsSound'
  <1> SUFFICES ASSUME NEW k \in Keys, SoleSender(k)',
                      rows'[k].status = "broadcasted"
               PROVE  Sound(rows'[k], accepted')
    BY DEF BroadcastedIsSound
  <1>1. SoleSender(k)
    BY SoleSenderBefore DEF Inv
  <1>2. CASE rows'[k] = rows[k]
    <2>1. Sound(rows[k], accepted)
      BY <1>1, <1>2 DEF Inv, MonitorInv, BroadcastedIsSound
    <2> QED
      BY <1>2, <2>1, SoundStays DEF Grows
  <1>3. CASE rows'[k] # rows[k]
    <2>1. PICK r \in Requests :
             /\ rkey[r] = k
             /\ Creates(r) \/ TakesOver(r) \/ WorksOn(r) \/ Finishes(r)
      BY <1>3, PipelineWrites DEF Inv
    <2>2. ~Creates(r) /\ ~TakesOver(r)
      BY <2>1 DEF Creates, TakesOver, NoRow
    <2>3. ~WorksOn(r)
      BY <1>1, <2>1, WorkerAlone DEF WorksOn, Unsent
    <2>4. Finishes(r)
      BY <2>1, <2>2, <2>3
    <2>5. /\ Unsent(rows[k]) /\ rows[k].tx = TxOf(r) /\ rows[k].nonce = rnonce[r]
      BY <1>1, <2>1, <2>4, WorkerAlone DEF Finishes, Working
    <2>6. TxOf(r) \in accepted
      BY <2>4 DEF Finishes, Inv, RowInv, AcceptedWhenMarked
    <2>7. accepted \subseteq accepted'
      BY DEF Grows
    <2> QED
      BY <2>1, <2>4, <2>5, <2>6, <2>7 DEF Finishes, StatusOnly, Sound, Unsent, TxOf
  <1> QED
    BY <1>2, <1>3

LEMMA PipelineCopy ==
    ASSUME Inv, [Next]_vars, UNCHANGED monitorVars, Grows
    PROVE  CopyIsSound'
  <1> SUFFICES ASSUME NEW p \in Polls, NEW k \in Keys, SoleSender(k)',
                      seen[p][k].status = "broadcasted"
               PROVE  /\ Sound(seen[p][k], accepted') /\ Sound(rows'[k], accepted')
                      /\ rows'[k].nonce = seen[p][k].nonce
                      /\ Settled(k)'
    BY DEF CopyIsSound, monitorVars
  <1>1. SoleSender(k)
    BY SoleSenderBefore DEF Inv
  <1>2. /\ Sound(seen[p][k], accepted) /\ Sound(rows[k], accepted)
        /\ rows[k].nonce = seen[p][k].nonce
        /\ Settled(k)
    BY <1>1 DEF Inv, MonitorInv, CopyIsSound
  <1>3. /\ seen[p][k].tx \in accepted /\ seen[p][k].tx \in Tx
        /\ seen[p][k].tx.by \in Requests
    BY <1>2 DEF Sound, Inv, TypeInv, TypeOK, LedgerTypeOK, Tx
  <1>4. rkey[seen[p][k].tx.by] = k /\ rnonce[seen[p][k].tx.by] # NoNonce
    BY <1>3, NoTxAssumption DEF Inv, MonitorInv, OwnTx, SentFor
  <1>5. Settled(k)'
    BY <1>2, <1>3, <1>4 DEF Settled, SoleSender, Grows
  <1>6. Sound(rows'[k], accepted) /\ rows'[k].nonce = rows[k].nonce
    <2>1. CASE rows'[k] = rows[k]
      BY <1>2, <2>1
    <2>2. CASE rows'[k] # rows[k]
      <3>1. PICK r \in Requests :
               /\ rkey[r] = k
               /\ Creates(r) \/ TakesOver(r) \/ WorksOn(r) \/ Finishes(r)
        BY <2>2, PipelineWrites DEF Inv
      <3>2. ~Creates(r)
        BY <1>3, <1>4, <3>1 DEF Creates, Inv, RowInv, EnteredHasRow, Entered
      <3>3. ~WorksOn(r) /\ ~Finishes(r)
        BY <1>2, <3>1 DEF WorksOn, Finishes, Settled, Working
      <3> QED
        BY <1>2, <3>1, <3>2, <3>3 DEF TakesOver, StatusOnly, Sound
    <2> QED
      BY <2>1, <2>2
  <1> QED
    BY <1>2, <1>5, <1>6, SoundStays DEF Grows

LEMMA PipelineLost ==
    ASSUME Inv, [Next]_vars, Grows, NEW k \in Keys, Lost(k)
    PROVE  Lost(k)'
  <1> USE DEF Inv, MonitorInv
  <1>1. ASSUME NEW t \in (pool' \cup mined') \ (pool \cup mined), t.key = k,
               SoleSender(k), NEW u \in accepted, u.key = k
        PROVE  FALSE
    <2>1. PICK r \in Requests :
             pc[r] = "broadcast" /\ rnonce[r] \in Nat /\ t = TxOf(r)
      BY <1>1, PipelineSends
    <2>2. rkey[r] = k
      BY <1>1, <2>1 DEF TxOf
    <2>3. u.by \in Requests /\ rkey[u.by] = k /\ rnonce[u.by] # NoNonce
      BY <1>1 DEF TypeInv, TypeOK, LedgerTypeOK, Tx, OwnTx, SentFor
    <2>4. u.by = r
      BY <1>1, <2>1, <2>2, <2>3 DEF SoleSender
    <2>5. pc[u.by] \in Sent
      BY <1>1 DEF OneNonce
    <2> QED
      BY <2>1, <2>4, <2>5 DEF Sent
  <1> QED
    BY <1>1, LostStays

\* A poll that does not move keeps what it knows while the chain extends.
LEMMA KnowsStays ==
    ASSUME NEW p \in Polls, Grows, HasRow(p), Knows(p),
           UNCHANGED <<ppc[p], todo[p], seen[p], cur[p], fee[p]>>,
           \A k \in Keys : Lost(k) => Lost(k)'
    PROVE  HasRow(p)' /\ Knows(p)'
  <1>1. HasRow(p)'
    BY DEF HasRow
  <1>2. ASSUME ppc[p] = "drop"
        PROVE  Lost(cur[p])'
    <2>1. cur[p] \in Keys /\ Lost(cur[p])
      BY <1>2 DEF HasRow, Knows, Processing, PollAwaits
    <2>2. PICK k \in Keys : k = cur[p] /\ cur'[p] = k
      BY <2>1
    <2>3. Lost(k)'
      BY <2>1, <2>2 DEF Lost, SoleSender
    <2> QED
      BY <2>2, <2>3 DEF Lost, SoleSender
  <1>3. Knows(p)'
    BY <1>2 DEF Knows, Grows, Replacement
  <1> QED
    BY <1>1, <1>3

LEMMA PipelinePolls ==
    ASSUME Inv, [Next]_vars, UNCHANGED monitorVars, Grows
    PROVE  PollsInv'
  <1>1. \A k \in Keys : Lost(k) => Lost(k)'
    BY PipelineLost
  <1> QED
    BY <1>1, KnowsStays DEF Inv, MonitorInv, PollsInv, monitorVars

LEMMA PipelineStatus ==
    ASSUME Inv, [Next]_vars, Grows
    PROVE  DroppedIsLost' /\ ConfirmedIsPaid'
  <1> USE DEF Inv, MonitorInv
  <1>1. ASSUME NEW k \in Keys, NEW st \in {"dropped", "confirmed"},
               rows'[k].status = st
        PROVE  rows[k].status = st
    <2>1. CASE rows'[k] = rows[k]
      BY <1>1, <2>1
    <2>2. CASE rows'[k] # rows[k]
      BY <1>1, <2>2, PipelineWrites
         DEF Creates, TakesOver, WorksOn, Finishes, NoRow
    <2> QED
      BY <2>1, <2>2
  <1>2. DroppedIsLost'
    BY <1>1, PipelineLost DEF DroppedIsLost
  <1>3. ConfirmedIsPaid'
    BY <1>1 DEF ConfirmedIsPaid, Grows
  <1> QED
    BY <1>2, <1>3

LEMMA EarnedStays ==
    ASSUME accepted \subseteq accepted', NEW k, NEW n, Earned(k, n)
    PROVE  \A b \in 1..n : \E t \in accepted' : t.key = k /\ t.bump = b
  BY DEF Earned

\* No request touches speed_up_attempts: who takes a row over inherits them.
LEMMA PipelineEarned ==
    ASSUME Inv, [Next]_vars, UNCHANGED monitorVars, Grows
    PROVE  AttemptsEarned'
  <1> USE DEF Inv, MonitorInv
  <1>a. accepted \subseteq accepted'
    BY DEF Grows
  <1>1. ASSUME NEW k \in Keys
        PROVE  \A b \in 1..rows'[k].attempts :
                  \E t \in accepted' : t.key = k /\ t.bump = b
    <2>1. CASE rows'[k].attempts = rows[k].attempts
      BY <1>a, <2>1, EarnedStays DEF AttemptsEarned
    <2>2. CASE rows'[k].attempts # rows[k].attempts
      <3>1. \E r \in Requests : rkey[r] = k /\ Creates(r)
        BY <2>2, PipelineWrites DEF TakesOver, WorksOn, Finishes, StatusOnly
      <3>2. rows'[k].attempts = 0
        BY <3>1 DEF Creates, NoRow
      <3> QED
        BY <3>2
    <2> QED
      BY <2>1, <2>2
  <1>2. ASSUME NEW p \in Polls, NEW k \in Keys
        PROVE  \A b \in 1..seen'[p][k].attempts :
                  \E t \in accepted' : t.key = k /\ t.bump = b
    <2>1. seen'[p][k].attempts = seen[p][k].attempts
      BY DEF monitorVars
    <2> QED
      BY <1>a, <2>1, EarnedStays DEF AttemptsEarned
  <1> QED
    BY <1>1, <1>2 DEF AttemptsEarned, Earned

LEMMA PipelineKeeps ==
    ASSUME Inv, [Next]_vars, UNCHANGED monitorVars
    PROVE  Inv'
  <1>1. Grows
    BY PipelineGrows DEF Inv, MonitorInv
  <1>2. TypeInv' /\ RowInv' /\ ContentInv'
    BY TypeStep, RowStep, ContentStep DEF Inv
  <1>3. MonitorTypes'
    BY DEF Inv, MonitorTypes, monitorVars
  <1>4. MonitorInv'
    BY <1>1, ChainKeeps, PipelineOwnTx, PipelineFailure, PipelineOneNonce,
       PipelineSound, PipelineCopy, PipelinePolls, PipelineStatus, PipelineEarned
       DEF Inv, MonitorInv
  <1> QED
    BY <1>2, <1>3, <1>4 DEF Inv

-----------------------------------------------------------------------------
(* The steps of a poll: those that only look, those that write the row,    *)
(* and those that send a replacement.                                      *)
Looks(p) ==
    \/ StartPoll(p) \/ NextRow(p) \/ FetchReceipt(p) \/ LeaveYoung(p)
    \/ FindStuck(p) \/ LookUp(p) \/ RpcFails(p) \/ EstimateBump(p)
    \/ SignReplacement(p) \/ ReplacementFails(p) \/ PollDies(p) \/ UpdateThrows(p)

Writes(p) ==
    \/ Confirm(p) \/ MarkReverted(p) \/ MarkDropped(p) \/ GiveUp(p)
    \/ MarkSpeedUpFailed(p) \/ RecordReplacement(p)

Sends(p) == ReplacementAccepted(p) \/ ReplacementReplyLost(p)

LEMMA PollCases ==
    ASSUME NEW p \in Polls, Poll(p)
    PROVE  Looks(p) \/ Writes(p) \/ Sends(p)
  BY DEF Poll, PollStep, Looks, Writes, Sends

\* Who looks leaves everything but the monitor's own state alone.
LEMMA LooksFrame ==
    ASSUME NEW p \in Polls, Looks(p)
    PROVE  UNCHANGED vars
  BY DEF Looks, StartPoll, NextRow, FetchReceipt, LeaveYoung, FindStuck, LookUp,
         RpcFails, EstimateBump, SignReplacement, ReplacementFails, PollDies,
         UpdateThrows, requestVars, vars, syncVars

LEMMA LooksTypes ==
    ASSUME TypeInv, MonitorTypes, NEW p \in Polls, Looks(p)
    PROVE  MonitorTypes'
  <1> USE DEF MonitorTypes, PollAwaits, batchVars
  <1>r. /\ rows \in [Keys -> Row] /\ NoRow \in Row
    BY DEF TypeInv, TypeOK, NoRow, Row, Statuses
  <1>1. CASE StartPoll(p)
    BY <1>1, <1>r DEF StartPoll, Broadcasted
  <1>2. CASE NextRow(p)
    <2>0. fee' \in [Polls -> Nat]
      BY <1>2 DEF NextRow
    <2>1. ASSUME NEW k \in todo[p],
                 cur' = [cur EXCEPT ![p] = k],
                 todo' = [todo EXCEPT ![p] = @ \ {k}],
                 seen' = [seen EXCEPT ![p] = [j \in Keys |->
                            IF j \in todo[p] THEN @[j] ELSE NoRow]],
                 PollGoto(p, IF seen[p][k].tx = NoTx THEN "fail" ELSE "receipt")
          PROVE  MonitorTypes'
      <3>1. [j \in Keys |-> IF j \in todo[p] THEN seen[p][j] ELSE NoRow]
               \in [Keys -> Row]
        BY <1>r
      <3>2. seen' \in [Polls -> [Keys -> Row]]
        BY <2>1, <3>1
      <3>3. k \in Keys /\ todo[p] \ {k} \subseteq Keys
        OBVIOUS
      <3>4. todo' \in [Polls -> SUBSET Keys] /\ cur' \in [Polls -> Keys \cup {NoKey}]
        BY <2>1, <3>3
      <3>5. ppc' \in [Polls -> {"idle"} \cup PollAwaits]
        BY <2>1
      <3> QED
        BY <2>0, <3>2, <3>4, <3>5
    <2>2. ASSUME cur' = [cur EXCEPT ![p] = NoKey],
                 seen' = [seen EXCEPT ![p] = [k \in Keys |-> NoRow]],
                 PollGoto(p, "idle"), UNCHANGED todo
          PROVE  MonitorTypes'
      BY <1>r, <2>0, <2>2
    <2> QED
      BY <1>2, <2>1, <2>2 DEF NextRow
  <1>3. CASE FetchReceipt(p) \/ LeaveYoung(p) \/ FindStuck(p) \/ LookUp(p)
    BY <1>3 DEF FetchReceipt, LeaveYoung, FindStuck, LookUp
  <1>4. CASE \/ RpcFails(p) \/ SignReplacement(p) \/ ReplacementFails(p)
             \/ UpdateThrows(p)
    BY <1>4 DEF RpcFails, SignReplacement, ReplacementFails, UpdateThrows
  <1>6. CASE EstimateBump(p)
    BY <1>6, MonitorAssumption DEF EstimateBump
  <1>5. CASE PollDies(p)
    BY <1>5, <1>r DEF PollDies
  <1> QED
    BY <1>1, <1>2, <1>3, <1>4, <1>5, <1>6 DEF Looks

\* A copy is the row as it is now, or was a copy before, or is dropped.
LEMMA LooksCopies ==
    ASSUME TypeInv, MonitorTypes, NEW p \in Polls, Looks(p),
           NEW q \in Polls, NEW k \in Keys
    PROVE  \/ seen'[q][k] = seen[q][k]
           \/ seen'[q][k] = NoRow
           \/ seen'[q][k] = rows[k] /\ rows[k].status = "broadcasted"
  <1> USE DEF MonitorTypes, batchVars
  <1>1. CASE StartPoll(p)
    BY <1>1 DEF StartPoll, Broadcasted
  <1>2. CASE NextRow(p)
    BY <1>2 DEF NextRow
  <1>3. CASE PollDies(p)
    BY <1>3 DEF PollDies
  <1>4. CASE ~StartPoll(p) /\ ~NextRow(p) /\ ~PollDies(p)
    <2>1. UNCHANGED seen
      BY <1>4 DEF Looks, FetchReceipt, LeaveYoung, FindStuck, LookUp, RpcFails,
                  EstimateBump, SignReplacement, ReplacementFails, UpdateThrows
    <2> QED
      BY <2>1
  <1> QED
    BY <1>1, <1>2, <1>3, <1>4

\* What a poll that only looks comes to know of its row.
LEMMA LooksKnows ==
    ASSUME Inv, NEW p \in Polls, Looks(p)
    PROVE  PollsInv'
  <1> USE DEF Inv, MonitorInv, MonitorTypes
  <1>u. UNCHANGED vars
    BY LooksFrame
  <1>v. UNCHANGED <<pc, rows, mined, reverted, accepted, pool, rkey, rnonce>>
    BY <1>u DEF vars, ledgerVars
  <1>g. Grows /\ \A k \in Keys : Lost(k) => Lost(k)'
    BY <1>v DEF Grows, Lost, SoleSender
  <1>q. ASSUME NEW q \in Polls, q # p
        PROVE  UNCHANGED <<ppc[q], todo[q], seen[q], cur[q], fee[q]>>
    BY <1>q DEF Looks, StartPoll, NextRow, FetchReceipt, LeaveYoung, FindStuck,
                LookUp, RpcFails, EstimateBump, SignReplacement,
                ReplacementFails, PollDies, UpdateThrows, batchVars
  <1>o. ASSUME NEW q \in Polls, q # p
        PROVE  HasRow(q)' /\ Knows(q)'
    BY <1>g, <1>o, <1>q, KnowsStays DEF PollsInv
  <1>h. HasRow(p) /\ Knows(p)
    BY DEF PollsInv
  <1> SUFFICES HasRow(p)' /\ Knows(p)'
    BY <1>o DEF PollsInv
  <1> USE DEF HasRow, Knows, Processing, PollAwaits, SpeedingUp
  <1>1. CASE StartPoll(p)
    BY <1>1 DEF StartPoll, Broadcasted
  <1>2. CASE NextRow(p)
    <2>1. CASE todo[p] = {} /\ ppc'[p] = "idle" /\ todo' = todo
      BY <2>1
    <2>2. ASSUME NEW k \in todo[p],
                 cur' = [cur EXCEPT ![p] = k],
                 todo' = [todo EXCEPT ![p] = @ \ {k}],
                 seen' = [seen EXCEPT ![p] = [j \in Keys |->
                            IF j \in todo[p] THEN @[j] ELSE NoRow]],
                 PollGoto(p, IF seen[p][k].tx = NoTx THEN "fail" ELSE "receipt")
          PROVE  HasRow(p)' /\ Knows(p)'
      <3>1. /\ cur'[p] = k /\ k \in Keys /\ todo'[p] \subseteq todo[p]
            /\ \A j \in todo[p] : seen'[p][j] = seen[p][j]
            /\ ppc'[p] = IF seen[p][k].tx = NoTx THEN "fail" ELSE "receipt"
        BY <2>2
      <3> QED
        BY <1>h, <3>1
    <2> QED
      BY <1>2, <2>1, <2>2 DEF NextRow
  <1>3. CASE FetchReceipt(p)
    BY <1>3, <1>h, <1>v DEF FetchReceipt, batchVars, HasReceipt
  <1>4. CASE LeaveYoung(p) \/ FindStuck(p) \/ RpcFails(p) \/ UpdateThrows(p)
    BY <1>4, <1>h DEF LeaveYoung, FindStuck, RpcFails, UpdateThrows, batchVars
  <1>5. CASE LookUp(p)
    <2>1. /\ UNCHANGED <<todo, seen, cur>> /\ ppc[p] = "lookup"
          /\ cur[p] \in Keys /\ SeenRow(p).status = "broadcasted"
          /\ SeenRow(p).tx # NoTx /\ SeenRow(p) \in Row
      BY <1>5, <1>h DEF LookUp, batchVars
    <2>2. CASE ~KnownToNode(SeenRow(p).tx)
      <3>1. ppc'[p] = "drop"
        BY <1>5, <2>2 DEF LookUp
      <3>2. ASSUME SoleSender(cur[p])
            PROVE  \/ \E t, u \in accepted : t.key = cur[p] /\ u.key = cur[p] /\ t # u
                   \/ /\ \E t \in accepted : t.key = cur[p]
                      /\ \A t \in pool \cup mined : t.key # cur[p]
        <4>1. SeenRow(p).tx \in accepted
          BY <2>1, <3>2 DEF CopyIsSound, Sound
        <4>2. SeenRow(p).tx.key = cur[p]
          BY <2>1 DEF OwnTx, SentFor
        <4>3. pool \cup mined \subseteq accepted
          BY DEF ChainInv
        <4> QED
          BY <2>2, <4>1, <4>2, <4>3 DEF KnownToNode
      <3>3. Lost(cur[p])
        BY <3>2 DEF Lost
      <3>4. Lost(cur[p])'
        BY <1>v, <2>1, <3>3 DEF Lost, SoleSender
      <3> QED
        BY <1>h, <2>1, <3>1, <3>4
    <2>3. CASE KnownToNode(SeenRow(p).tx)
      <3>1. /\ ppc'[p] \in {"give_up", "fail", "estimate"}
            /\ ppc'[p] = "estimate" => /\ SeenRow(p).nonce # NoNonce
                                       /\ ~(SeenRow(p).attempts >= MaxSpeedUps)
            /\ ppc'[p] = "give_up" => SeenRow(p).attempts >= MaxSpeedUps
        BY <1>5, <2>3 DEF LookUp
      <3>2. ppc'[p] = "estimate" =>
               SeenRow(p).nonce \in Nat /\ SeenRow(p).attempts < MaxSpeedUps
        BY <2>1, <3>1, MonitorAssumption DEF Row
      <3> QED
        BY <1>h, <2>1, <3>1, <3>2
    <2> QED
      BY <2>2, <2>3
  <1>6. CASE EstimateBump(p) \/ SignReplacement(p) \/ ReplacementFails(p)
    <2>1. /\ UNCHANGED <<todo, seen, cur>>
          /\ ppc[p] \in {"estimate", "sign", "broadcast"}
          /\ ppc'[p] \in {"sign", "broadcast", "fail"}
      BY <1>6 DEF EstimateBump, SignReplacement, ReplacementFails, batchVars
    <2> QED
      BY <1>h, <2>1
  <1>7. CASE PollDies(p)
    BY <1>7 DEF PollDies
  <1> QED
    BY <1>1, <1>2, <1>3, <1>4, <1>5, <1>6, <1>7 DEF Looks

LEMMA LooksKeeps ==
    ASSUME Inv, NEW p \in Polls, Looks(p)
    PROVE  Inv'
  <1> USE DEF Inv, MonitorInv
  <1>u. UNCHANGED vars
    BY LooksFrame
  <1>v. UNCHANGED <<pc, rows, mined, reverted, accepted, pool, chainNonce, rkey, rnonce>>
    BY <1>u DEF vars, ledgerVars
  <1>1. TypeInv' /\ RowInv' /\ ContentInv'
    BY <1>u, TypeStep, RowStep, ContentStep
  <1>2. MonitorTypes' /\ PollsInv'
    BY LooksTypes, LooksKnows
  <1>3. /\ ChainInv' /\ FailureAfterWork' /\ OneNonce' /\ BroadcastedIsSound'
        /\ DroppedIsLost' /\ ConfirmedIsPaid'
    <2>1. ChainInv' /\ FailureAfterWork' /\ ConfirmedIsPaid'
      BY <1>v DEF ChainInv, FailureAfterWork, ConfirmedIsPaid
    <2>2. OneNonce' /\ BroadcastedIsSound'
      BY <1>v DEF OneNonce, BroadcastedIsSound, SoleSender, TxOf
    <2>3. DroppedIsLost'
      BY <1>v DEF DroppedIsLost, Lost, SoleSender
    <2> QED
      BY <2>1, <2>2, <2>3
  <1>4. OwnTx'
    <2>1. ASSUME NEW q \in Polls, NEW k \in Keys, seen'[q][k].tx # NoTx
          PROVE  SentFor(seen'[q][k].tx, k)
      <3>1. CASE seen'[q][k] = seen[q][k]
        BY <2>1, <3>1 DEF OwnTx
      <3>2. CASE seen'[q][k] = rows[k]
        BY <2>1, <3>2 DEF OwnTx
      <3> QED
        BY <2>1, <3>1, <3>2, LooksCopies DEF NoRow
    <2> QED
      BY <1>v, <2>1 DEF OwnTx, SentFor
  <1>5. CopyIsSound'
    <2> SUFFICES ASSUME NEW q \in Polls, NEW k \in Keys, SoleSender(k),
                        seen'[q][k].status = "broadcasted"
                 PROVE  /\ Sound(seen'[q][k], accepted) /\ Sound(rows[k], accepted)
                        /\ rows[k].nonce = seen'[q][k].nonce
                        /\ Settled(k)
      BY <1>v DEF CopyIsSound, SoleSender, Settled
    <2>1. CASE seen'[q][k] = seen[q][k]
      BY <2>1 DEF CopyIsSound
    <2>2. CASE seen'[q][k] = rows[k] /\ rows[k].status = "broadcasted"
      BY <2>2, SenderHasLeft DEF BroadcastedIsSound
    <2> QED
      BY <2>1, <2>2, LooksCopies DEF NoRow
  <1>6. AttemptsEarned'
    <2>1. ASSUME NEW q \in Polls, NEW k \in Keys
          PROVE  Earned(k, seen'[q][k].attempts)
      <3>1. CASE seen'[q][k] = NoRow
        BY <3>1 DEF Earned, NoRow
      <3>2. CASE seen'[q][k] \in {seen[q][k], rows[k]}
        BY <3>2 DEF AttemptsEarned
      <3> QED
        BY <3>1, <3>2, LooksCopies
    <2> QED
      BY <1>v, <2>1 DEF AttemptsEarned, Earned
  <1> QED
    BY <1>1, <1>2, <1>3, <1>4, <1>5, <1>6


(* A poll that sends a replacement: one more transaction of its payment,   *)
(* on the same nonce while there is one sender.                            *)
LEMMA SendsWhat ==
    ASSUME Inv, NEW p \in Polls, Sends(p)
    PROVE  \E u \in Tx, k \in Keys, by \in Requests :
              /\ cur[p] = k /\ u = Replacement(p)
              /\ u.key = k /\ u.by = by /\ u.bump > 0
              /\ rkey[by] = k /\ rnonce[by] # NoNonce
              /\ SoleSender(k) => /\ u.nonce = rnonce[by] /\ pc[by] \in Sent
                                  /\ TxOf(by) \in accepted
              /\ pool' = pool \cup {u} /\ accepted' = accepted \cup {u}
              /\ UNCHANGED <<chainNonce, mined, reverted, rows, requestVars>>
              /\ UNCHANGED <<todo, seen, cur, fee>>
              /\ ppc' \in {[ppc EXCEPT ![p] = "record"], [ppc EXCEPT ![p] = "fail"]}
  <1> USE DEF Inv, MonitorInv
  <1>1. /\ ppc[p] = "broadcast" /\ UNCHANGED <<todo, seen, cur, fee>>
        /\ ppc' \in {[ppc EXCEPT ![p] = "record"], [ppc EXCEPT ![p] = "fail"]}
        /\ UNCHANGED <<rows, requestVars>>
        /\ Accept(Replacement(p))
    BY DEF Sends, ReplacementAccepted, ReplacementReplyLost, batchVars
  <1>2. /\ cur[p] \in Keys /\ SeenRow(p).status = "broadcasted"
        /\ SeenRow(p).tx # NoTx
        /\ SeenRow(p).nonce \in Nat /\ SeenRow(p).attempts < MaxSpeedUps
    BY <1>1 DEF PollsInv, HasRow, Knows, Processing, PollAwaits, SpeedingUp
  <1>3. /\ SeenRow(p).tx \in Tx /\ SeenRow(p).attempts \in Nat
        /\ SeenRow(p).tx.by \in Requests /\ fee[p] \in Nat
    BY <1>2 DEF MonitorTypes, Row, Tx
  <1>4. /\ rkey[SeenRow(p).tx.by] = cur[p] /\ rnonce[SeenRow(p).tx.by] # NoNonce
        /\ SeenRow(p).tx.key = cur[p]
    BY <1>2 DEF OwnTx, SentFor
  <1>5. /\ Replacement(p) \in Tx
        /\ Replacement(p).key = cur[p] /\ Replacement(p).by = SeenRow(p).tx.by
        /\ Replacement(p).nonce = SeenRow(p).nonce
        /\ Replacement(p).bump > 0
    BY <1>2, <1>3, MonitorAssumption DEF Replacement, Tx
  <1>6. ASSUME SoleSender(cur[p])
        PROVE  /\ SeenRow(p).nonce = rnonce[SeenRow(p).tx.by]
               /\ pc[SeenRow(p).tx.by] \in Sent /\ TxOf(SeenRow(p).tx.by) \in accepted
    <2>1. SeenRow(p).tx \in accepted /\ SeenRow(p).tx.nonce = SeenRow(p).nonce
      BY <1>2, <1>6 DEF CopyIsSound, Sound
    <2> QED
      BY <1>4, <1>6, <2>1 DEF OneNonce
  <1> QED
    BY <1>1, <1>2, <1>3, <1>4, <1>5, <1>6 DEF Accept

LEMMA SendsKeeps ==
    ASSUME Inv, NEW p \in Polls, Sends(p)
    PROVE  Inv'
  <1> USE DEF Inv, MonitorInv
  <1>1. PICK u \in Tx, k \in Keys, by \in Requests :
              /\ cur[p] = k /\ u = Replacement(p)
              /\ u.key = k /\ u.by = by /\ u.bump > 0
              /\ rkey[by] = k /\ rnonce[by] # NoNonce
              /\ SoleSender(k) => /\ u.nonce = rnonce[by] /\ pc[by] \in Sent
                                  /\ TxOf(by) \in accepted
              /\ pool' = pool \cup {u} /\ accepted' = accepted \cup {u}
              /\ UNCHANGED <<chainNonce, mined, reverted, rows, requestVars>>
              /\ UNCHANGED <<todo, seen, cur, fee>>
              /\ ppc' \in {[ppc EXCEPT ![p] = "record"], [ppc EXCEPT ![p] = "fail"]}
    BY SendsWhat
  <1>v. UNCHANGED <<pc, rkey, rnonce, counter, rows, spc, sval, chainNonce, mined, reverted>>
    BY <1>1 DEF requestVars, syncVars
  <1>g. Grows
    BY <1>1, <1>v DEF Grows
  <1>2. TypeInv' /\ MonitorTypes'
    BY <1>1, <1>v DEF TypeInv, TypeOK, LedgerTypeOK, NonceWhenReserved,
                      MonitorTypes, PollAwaits
  <1>3. RowInv'
    BY <1>1, <1>v DEF RowInv, OneEntered, Entered, EnteredHasRow, FailedHasReason,
                TakeoverAfterFailure, UnfinishedRowHasWorker, AcceptedWhenMarked, TxOf
  <1>4. ContentInv'
    BY <1>1, <1>v DEF ContentInv, RowIsOwn, BroadcastedRowIsOnChain, TxOf, Unsent
  <1>5. ChainInv' /\ FailureAfterWork' /\ ConfirmedIsPaid'
    BY <1>1, <1>v DEF ChainInv, FailureAfterWork, ConfirmedIsPaid
  <1>e. AttemptsEarned'
    <2>1. /\ accepted \subseteq accepted' /\ UNCHANGED <<rows, seen>>
      BY <1>1
    <2> QED
      BY <2>1 DEF AttemptsEarned, Earned
  <1>6. OwnTx'
    BY <1>1, <1>v DEF OwnTx, SentFor
  <1>7. OneNonce'
    <2> SUFFICES ASSUME NEW t \in accepted', SoleSender(t.key)
                 PROVE  /\ t.nonce = rnonce[t.by] /\ TxOf(t.by) \in accepted'
                        /\ pc[t.by] \in Sent
      BY <1>v DEF OneNonce, SoleSender, TxOf
    <2>1. CASE t \in accepted
      BY <1>1, <2>1 DEF OneNonce
    <2>2. CASE t = u
      BY <1>1, <2>2
    <2> QED
      BY <1>1, <2>1, <2>2
  <1>8. BroadcastedIsSound' /\ CopyIsSound'
    <2>1. BroadcastedIsSound'
      BY <1>g, <1>v, SoundStays DEF BroadcastedIsSound, SoleSender, Grows
    <2>2. CopyIsSound'
      BY <1>1, <1>g, <1>v, SoundStays DEF CopyIsSound, SoleSender, Settled, Grows
    <2> QED
      BY <2>1, <2>2
  <1>9. ASSUME NEW j \in Keys, Lost(j)
        PROVE  Lost(j)'
    <2>1. ASSUME NEW t \in (pool' \cup mined') \ (pool \cup mined), t.key = j,
                 SoleSender(j)
          PROVE  \E x, y \in accepted' : x.key = j /\ y.key = j /\ x # y
      <3>1. t = u /\ j = k
        BY <1>1, <2>1
      <3>2. TxOf(by) \in accepted' /\ TxOf(by).key = k /\ TxOf(by).bump = 0
        BY <1>1, <2>1, <3>1 DEF TxOf
      <3> QED
        BY <1>1, <3>1, <3>2
    <2> QED
      BY <1>9, <1>g, <2>1, LostStays
  <1>10. DroppedIsLost'
    BY <1>9, <1>v DEF DroppedIsLost
  <1>11. PollsInv'
    <2>1. ASSUME NEW q \in Polls, q # p
          PROVE  HasRow(q)' /\ Knows(q)'
      <3>1. UNCHANGED <<ppc[q], todo[q], seen[q], cur[q], fee[q]>>
        BY <1>1, <2>1 DEF MonitorTypes
      <3> QED
        BY <1>9, <1>g, <3>1, KnowsStays DEF PollsInv
    <2>2. /\ ppc'[p] \in {"record", "fail"} /\ ppc[p] = "broadcast"
          /\ Replacement(p)' = u
      BY <1>1 DEF Sends, ReplacementAccepted, ReplacementReplyLost, MonitorTypes,
                  Replacement
    <2>3. HasRow(p)'
      BY <1>1, <2>2 DEF PollsInv, HasRow, Processing, PollAwaits
    <2>4. Knows(p)'
      BY <1>1, <2>2 DEF PollsInv, Knows, SpeedingUp
    <2> QED
      BY <2>1, <2>3, <2>4 DEF PollsInv
  <1> QED
    BY <1>2, <1>3, <1>4, <1>5, <1>6, <1>7, <1>8, <1>10, <1>11, <1>e


-----------------------------------------------------------------------------
(* A poll that writes the row it has read earlier *)

\* The three kinds of update, of the row of k by a poll that holds copy.
Confirms(row, k, copy) ==
    /\ row = [rows[k] EXCEPT !.status = "confirmed"]
    /\ copy.tx # NoTx /\ copy.tx \in mined \ reverted

GivesUp(row, k) ==
    /\ row.status \in {"failed", "dropped"} /\ row.reason
    /\ row.status = "dropped" => Lost(k)
    /\ row.nonce = rows[k].nonce /\ row.tx = rows[k].tx
    /\ row.attempts = rows[k].attempts /\ row.orig = rows[k].orig

Records(row, k, copy, f) ==
    /\ copy.tx # NoTx /\ copy.nonce \in Nat
    /\ row.status = "broadcasted" /\ row.reason = rows[k].reason
    /\ row.nonce = rows[k].nonce
    /\ row.tx = [key |-> k, nonce |-> copy.nonce, by |-> copy.tx.by,
                 bump |-> copy.attempts + 1, fee |-> f]
    /\ row.tx \in accepted
    /\ row.orig = OriginalTx(copy)
    /\ row.attempts = copy.attempts + 1

LEMMA WritesWhat ==
    ASSUME Inv, NEW p \in Polls, Writes(p)
    PROVE  \E k \in Keys, row \in Row :
              /\ cur[p] = k /\ seen[p][k].status = "broadcasted"
              /\ rows' = [rows EXCEPT ![k] = row]
              /\ ppc' = [ppc EXCEPT ![p] = "next"]
              /\ UNCHANGED <<requestVars, ledgerVars, todo, seen, cur, fee>>
              /\ \/ Confirms(row, k, seen[p][k])
                 \/ GivesUp(row, k)
                 \/ Records(row, k, seen[p][k], fee[p])
  <1> USE DEF Inv, MonitorInv, Writes
  <1>1. /\ ppc[p] \in {"confirm", "reverted", "drop", "give_up", "fail", "record"}
        /\ ppc' = [ppc EXCEPT ![p] = "next"]
        /\ UNCHANGED <<requestVars, ledgerVars, todo, seen, cur, fee>>
    BY DEF Confirm, MarkReverted, MarkDropped, GiveUp, MarkSpeedUpFailed,
           RecordReplacement, batchVars
  <1>2. PICK k \in Keys : cur[p] = k /\ seen[p][k].status = "broadcasted"
    BY <1>1 DEF PollsInv, HasRow, Processing, PollAwaits
  <1>3. /\ rows[k] \in Row /\ seen[p][k] \in Row /\ rows \in [Keys -> Row]
    BY DEF TypeInv, TypeOK, MonitorTypes
  <1>k. ppc[p] # "fail" => seen[p][k].tx # NoTx
    BY <1>1, <1>2 DEF PollsInv, HasRow, Processing, PollAwaits
  <1>4. CASE Confirm(p)
    <2>1. [rows[k] EXCEPT !.status = "confirmed"] \in Row
      BY <1>3 DEF Row, Statuses
    <2>2. seen[p][k].tx \in mined \ reverted /\ seen[p][k].tx # NoTx
      BY <1>2, <1>4, <1>k DEF Confirm, PollsInv, Knows
    <2>3. rows' = [rows EXCEPT ![k] = [rows[k] EXCEPT !.status = "confirmed"]]
      BY <1>2, <1>4 DEF Confirm
    <2> QED
      BY <1>1, <1>2, <2>1, <2>2, <2>3 DEF Confirms
  <1>5. CASE MarkReverted(p) \/ GiveUp(p) \/ MarkSpeedUpFailed(p) \/ MarkDropped(p)
    <2>1. PICK row \in {FailedRow(rows[k]),
                        [rows[k] EXCEPT !.status = "dropped", !.reason = TRUE]} :
             /\ rows' = [rows EXCEPT ![k] = row]
             /\ row.status = "dropped" => ppc[p] = "drop"
      <3>1. FailedRow(rows[k]).status = "failed"
        BY <1>3 DEF FailedRow, Row
      <3>2. CASE MarkDropped(p)
        BY <1>2, <3>2 DEF MarkDropped
      <3>3. CASE MarkReverted(p) \/ GiveUp(p) \/ MarkSpeedUpFailed(p)
        BY <1>2, <3>1, <3>3 DEF MarkReverted, GiveUp, MarkSpeedUpFailed
      <3> QED
        BY <1>5, <3>2, <3>3
    <2>2. row \in Row
      BY <1>3 DEF FailedRow, Row, Statuses
    <2>3. ppc[p] = "drop" => Lost(k)
      BY <1>2 DEF PollsInv, Knows
    <2>4. /\ row.status \in {"failed", "dropped"} /\ row.reason
          /\ row.nonce = rows[k].nonce /\ row.tx = rows[k].tx
          /\ row.attempts = rows[k].attempts /\ row.orig = rows[k].orig
      BY <1>3 DEF FailedRow, Row
    <2>5. GivesUp(row, k)
      BY <2>1, <2>3, <2>4 DEF GivesUp
    <2> QED
      BY <1>1, <1>2, <2>1, <2>2, <2>5
  <1>6. CASE RecordReplacement(p)
    <2> DEFINE copy == seen[p][k]
               row == [rows[k] EXCEPT
                         !.status = "broadcasted",
                         !.tx = Replacement(p),
                         !.orig = OriginalTx(copy),
                         !.attempts = copy.attempts + 1]
    <2>1. /\ copy.tx # NoTx /\ copy.nonce \in Nat /\ Replacement(p) \in accepted
      BY <1>2, <1>6, <1>k DEF RecordReplacement, PollsInv, Knows, SpeedingUp
    <2>2. /\ Replacement(p) \in Tx /\ OriginalTx(copy) \in Tx \cup {NoTx}
          /\ copy.attempts + 1 \in Nat
      BY <1>3, <2>1 DEF OriginalTx, Row, TypeInv, TypeOK, LedgerTypeOK
    <2>3. row \in Row
      BY <1>3, <2>2 DEF Row, Statuses
    <2>4. rows' = [rows EXCEPT ![k] = row]
      BY <1>2, <1>6 DEF RecordReplacement
    <2>5. Replacement(p) = [key |-> k, nonce |-> copy.nonce, by |-> copy.tx.by,
                            bump |-> copy.attempts + 1, fee |-> fee[p]]
      BY <1>2 DEF Replacement
    <2>6. /\ row.status = "broadcasted" /\ row.reason = rows[k].reason
          /\ row.nonce = rows[k].nonce /\ row.tx = Replacement(p)
          /\ row.orig = OriginalTx(copy) /\ row.attempts = copy.attempts + 1
      BY <1>3 DEF Row
    <2>7. Records(row, k, copy, fee[p])
      BY <2>1, <2>5, <2>6 DEF Records
    <2> QED
      BY <1>1, <1>2, <2>3, <2>4, <2>7
  <1> QED
    BY <1>4, <1>5, <1>6


\* What the copy tells of the row while the payment has one sender.
LEMMA CopyOfSoleSender ==
    ASSUME Inv, NEW p \in Polls, NEW k \in Keys, SoleSender(k),
           seen[p][k].status = "broadcasted"
    PROVE  /\ Sound(seen[p][k], accepted) /\ Sound(rows[k], accepted)
           /\ rows[k].nonce = seen[p][k].nonce
           /\ \E r \in Requests :
                 rkey[r] = k /\ rnonce[r] # NoNonce /\ pc[r] \notin Working
           /\ ~rows[k].reason =>
                 \A r \in Requests : rkey[r] = k => pc[r] \notin Working
  <1> USE DEF Inv, MonitorInv
  <1>1. /\ Sound(seen[p][k], accepted) /\ Sound(rows[k], accepted)
        /\ rows[k].nonce = seen[p][k].nonce /\ Settled(k)
    BY DEF CopyIsSound
  <1>2. seen[p][k].tx # NoTx /\ seen[p][k].tx.by \in Requests
    BY <1>1, NoTxAssumption DEF Sound, TypeInv, TypeOK, LedgerTypeOK, Tx
  <1>3. PICK by \in Requests : rkey[by] = k /\ rnonce[by] # NoNonce
    BY <1>2 DEF OwnTx, SentFor
  <1>4. pc[by] \notin Working
    BY <1>1, <1>3 DEF Settled
  <1>5. ASSUME NEW r \in Requests, rkey[r] = k, pc[r] \in Working, ~rows[k].reason
        PROVE  FALSE
    <2>1. Entered(r) /\ Entered(by)
      BY <1>3, <1>5 DEF Entered, TypeInv, NonceWhenReserved, Working, AfterReserve
    <2>2. r # by
      BY <1>4, <1>5
    <2> QED
      BY <1>3, <1>5, <2>1, <2>2 DEF RowInv, OneEntered
  <1> QED
    BY <1>1, <1>3, <1>4, <1>5

\* A recorded replacement leaves hash, payload and original hash in agreement.
LEMMA RecordsSound ==
    ASSUME Inv, NEW p \in Polls, NEW k \in Keys, SoleSender(k),
           seen[p][k].status = "broadcasted",
           NEW row, Records(row, k, seen[p][k], fee[p])
    PROVE  Sound(row, accepted)
  <1> DEFINE copy == seen[p][k]
  <1>1. Sound(copy, accepted) /\ rows[k].nonce = copy.nonce
    BY CopyOfSoleSender
  <1>2. copy.tx \in Tx /\ copy.tx.key = k
    BY DEF Inv, MonitorInv, Records, MonitorTypes, Row, OwnTx, SentFor
  <1> DEFINE first == [key |-> k, nonce |-> copy.nonce, by |-> copy.tx.by,
                       bump |-> 0, fee |-> 0]
  <1>3. copy.tx = [key |-> k, nonce |-> copy.nonce, by |-> copy.tx.by,
                   bump |-> copy.attempts, fee |-> copy.tx.fee]
    BY <1>1, <1>2 DEF Sound, Tx
  <1>4. FirstOf(row.tx) = first
    BY DEF Records, FirstOf
  <1>5. FirstOf(copy.tx) = first
    BY <1>1, <1>2 DEF Sound, FirstOf
  <1>6. row.orig = FirstOf(row.tx) /\ row.orig # NoTx
    <2>1. CASE copy.orig = NoTx
      BY <1>1, <1>3, <1>4, <2>1 DEF Records, OriginalTx, Sound
    <2>2. CASE copy.orig # NoTx
      BY <1>1, <1>4, <1>5, <2>2 DEF Records, OriginalTx, Sound
    <2> QED
      BY <2>1, <2>2
  <1>7. row.tx.nonce = row.nonce /\ row.tx.bump = row.attempts /\ row.tx \in accepted
    BY <1>1 DEF Records
  <1> QED
    BY <1>6, <1>7 DEF Sound

LEMMA WritesKeeps ==
    ASSUME Inv, NEW p \in Polls, Writes(p)
    PROVE  Inv'
  <1> USE DEF Inv, MonitorInv
  <1>1. PICK k \in Keys, row \in Row :
              /\ cur[p] = k /\ seen[p][k].status = "broadcasted"
              /\ rows' = [rows EXCEPT ![k] = row]
              /\ ppc' = [ppc EXCEPT ![p] = "next"]
              /\ UNCHANGED <<requestVars, ledgerVars, todo, seen, cur, fee>>
              /\ \/ Confirms(row, k, seen[p][k])
                 \/ GivesUp(row, k)
                 \/ Records(row, k, seen[p][k], fee[p])
    BY WritesWhat
  <1>v. UNCHANGED <<pc, rkey, rnonce, counter, spc, sval, chainNonce, pool, mined,
                    reverted, accepted>>
    BY <1>1 DEF requestVars, syncVars, ledgerVars
  <1>r. /\ rows'[k] = row /\ \A j \in Keys : j # k => rows'[j] = rows[j]
        /\ rows[k] \in Row
    BY <1>1 DEF TypeInv, TypeOK
  <1>s. /\ row.status \in {"confirmed", "failed", "dropped", "broadcasted"}
        /\ row.nonce = rows[k].nonce
        /\ row.status \in {"failed", "dropped"} => row.reason
        /\ row.status \notin {"failed", "dropped"} => row.reason = rows[k].reason
        /\ rows[k].reason => row.reason
    BY <1>1, <1>r DEF Confirms, GivesUp, Records, Row
  <1>g. Grows
    BY <1>v DEF Grows
  <1>2. TypeInv' /\ MonitorTypes'
    BY <1>1, <1>v DEF TypeInv, TypeOK, LedgerTypeOK, NonceWhenReserved,
                      MonitorTypes, PollAwaits
  <1>3. RowInv'
    <2>1. OneEntered' /\ EnteredHasRow'
      BY <1>r, <1>s, <1>v
         DEF RowInv, OneEntered, Entered, EnteredHasRow, TypeInv, TypeOK
    <2>2. FailedHasReason' /\ TakeoverAfterFailure'
      BY <1>r, <1>s, <1>v
         DEF RowInv, FailedHasReason, TakeoverAfterFailure, TypeInv, TypeOK
    <2>3. UnfinishedRowHasWorker' /\ AcceptedWhenMarked'
      BY <1>r, <1>s, <1>v DEF RowInv, UnfinishedRowHasWorker, AcceptedWhenMarked, TxOf
    <2> QED
      BY <2>1, <2>2, <2>3 DEF RowInv
  <1>4. ContentInv'
    <2>1. ASSUME ~row.reason
          PROVE  /\ SoleSender(k) /\ rows[k].nonce = seen[p][k].nonce
                 /\ \A r \in Requests : rkey[r] = k => pc[r] \notin Working
      BY <1>1, <1>s, <2>1, UnfailedHasSoleSender, CopyOfSoleSender
    <2>2. RowIsOwn'
      <3> SUFFICES ASSUME NEW r \in Requests, ~rows'[rkey[r]].reason
                   PROVE  /\ pc[r] \in Working => Unsent(rows'[rkey[r]])
                          /\ pc[r] \in {"sign", "store", "broadcast", "mark"} =>
                                rows'[rkey[r]].nonce = rnonce[r]
                          /\ pc[r] \in {"broadcast", "mark"} =>
                                rows'[rkey[r]].tx = TxOf(r)
        BY <1>v DEF RowIsOwn, Unsent, TxOf
      <3>1. CASE rkey[r] = k
        BY <1>r, <2>1, <3>1 DEF Working
      <3>2. CASE rkey[r] # k
        BY <1>r, <3>2 DEF ContentInv, RowIsOwn, TypeInv, TypeOK
      <3> QED
        BY <3>1, <3>2
    <2>3. BroadcastedRowIsOnChain'
      <3>1. ASSUME row.status = "broadcasted", ~row.reason
            PROVE  row.tx \in accepted /\ row.nonce = row.tx.nonce
        BY <1>1, <1>r, <2>1, <3>1 DEF Confirms, GivesUp, Records, Row
      <3> QED
        BY <1>r, <1>v, <3>1 DEF ContentInv, BroadcastedRowIsOnChain
    <2> QED
      BY <2>2, <2>3 DEF ContentInv
  <1>5. ChainInv'
    BY <1>v DEF ChainInv
  <1>e. AttemptsEarned'
    <2>1. Earned(k, row.attempts)
      <3>1. CASE Records(row, k, seen[p][k], fee[p])
        <4>1. /\ row.attempts = seen[p][k].attempts + 1
              /\ seen[p][k].attempts \in Nat
              /\ row.tx \in accepted /\ row.tx.key = k
              /\ row.tx.bump = row.attempts
          BY <3>1 DEF Records, MonitorTypes, Row
        <4>2. \A b \in 1..row.attempts :
                 b = row.attempts \/ b \in 1..seen[p][k].attempts
          BY <4>1
        <4> QED
          BY <4>1, <4>2 DEF AttemptsEarned, Earned
      <3>2. CASE row.attempts = rows[k].attempts
        BY <3>2 DEF AttemptsEarned
      <3> QED
        BY <1>1, <1>r, <3>1, <3>2 DEF Confirms, GivesUp, Row
    <2> QED
      BY <1>1, <1>r, <1>v, <2>1 DEF AttemptsEarned, Earned
  <1>6. FailureAfterWork'
    <2> SUFFICES ASSUME NEW j \in Keys, rows'[j].reason
                 PROVE  \E r \in Requests :
                           rkey[r] = j /\ rnonce[r] # NoNonce /\ pc[r] \notin Working
      BY <1>v DEF FailureAfterWork
    <2>1. CASE rows[j].reason
      BY <2>1 DEF FailureAfterWork
    <2>2. CASE ~rows[j].reason
      BY <1>1, <1>r, <2>2, UnfailedHasSoleSender, CopyOfSoleSender
    <2> QED
      BY <2>1, <2>2
  <1>7. OwnTx'
    <2>1. ASSUME row.tx # NoTx
          PROVE  SentFor(row.tx, k)
      <3>1. CASE row.tx = rows[k].tx
        BY <2>1, <3>1 DEF OwnTx
      <3>2. CASE Records(row, k, seen[p][k], fee[p])
        BY <1>1, <3>2 DEF Records, OwnTx, SentFor
      <3> QED
        BY <1>1, <1>r, <3>1, <3>2 DEF Confirms, GivesUp, Row
    <2> QED
      BY <1>1, <1>r, <1>v, <2>1 DEF OwnTx, SentFor
  <1>8. OneNonce'
    BY <1>v DEF OneNonce, SoleSender, TxOf
  <1>9. ASSUME SoleSender(k)
        PROVE  Sound(row, accepted)
    <2>1. CASE Records(row, k, seen[p][k], fee[p])
      BY <1>1, <1>9, <2>1, RecordsSound
    <2>2. CASE ~Records(row, k, seen[p][k], fee[p])
      <3>1. Sound(rows[k], accepted)
        BY <1>1, <1>9, CopyOfSoleSender
      <3> QED
        BY <1>1, <1>r, <2>2, <3>1 DEF Confirms, GivesUp, Row, Sound
    <2> QED
      BY <2>1, <2>2
  <1>10. BroadcastedIsSound'
    BY <1>r, <1>v, <1>9 DEF BroadcastedIsSound, SoleSender
  <1>11. CopyIsSound'
    BY <1>1, <1>r, <1>s, <1>v, <1>9 DEF CopyIsSound, SoleSender, Settled
  <1>12. \A j \in Keys : Lost(j) => Lost(j)'
    BY <1>v DEF Lost, SoleSender
  <1>13. DroppedIsLost'
    <2>1. row.status = "dropped" => Lost(k)
      BY <1>1, <1>r DEF Confirms, GivesUp, Records, Row
    <2> QED
      BY <1>12, <1>r, <2>1 DEF DroppedIsLost
  <1>14. ConfirmedIsPaid'
    <2>1. ASSUME row.status = "confirmed"
          PROVE  \E t \in mined \ reverted : t.key = k
      <3>1. Confirms(row, k, seen[p][k])
        BY <1>1, <2>1 DEF GivesUp, Records
      <3> QED
        BY <3>1 DEF Confirms, OwnTx, SentFor
    <2> QED
      BY <1>r, <1>v, <2>1 DEF ConfirmedIsPaid
  <1>15. PollsInv'
    <2>1. ASSUME NEW q \in Polls, q # p
          PROVE  HasRow(q)' /\ Knows(q)'
      <3>1. UNCHANGED <<ppc[q], todo[q], seen[q], cur[q], fee[q]>>
        BY <1>1, <2>1 DEF MonitorTypes
      <3> QED
        BY <1>12, <1>g, <3>1, KnowsStays DEF PollsInv
    <2>2. ppc'[p] = "next" /\ UNCHANGED <<todo, seen, cur, fee>>
      BY <1>1 DEF MonitorTypes
    <2>3. HasRow(p)' /\ Knows(p)'
      BY <2>2 DEF PollsInv, HasRow, Knows, Processing, PollAwaits, SpeedingUp
    <2> QED
      BY <2>1, <2>3 DEF PollsInv
  <1> QED
    BY <1>2, <1>3, <1>4, <1>5, <1>6, <1>7, <1>8, <1>10, <1>11, <1>13, <1>14, <1>15,
       <1>e


-----------------------------------------------------------------------------
(* The theorems *)

LEMMA InvInit == MonitorInit => Inv
  <1> SUFFICES ASSUME MonitorInit
               PROVE  Inv
    OBVIOUS
  <1>1. TypeInv /\ RowInv /\ ContentInv
    BY TypeInit, RowInit, ContentInit DEF MonitorInit
  <1>2. MonitorTypes
    BY DEF MonitorInit, MonitorTypes, NoRow, Row, Statuses
  <1>3. /\ \A k \in Keys : rows[k].status = "none" /\ ~rows[k].reason
                           /\ rows[k].tx = NoTx /\ rows[k].attempts = 0
        /\ accepted = {} /\ pool = {} /\ mined = {}
        /\ \A p \in Polls : ppc[p] = "idle" /\ todo[p] = {}
        /\ \A p \in Polls, k \in Keys : /\ seen[p][k].status = "none"
                                         /\ seen[p][k].tx = NoTx /\ seen[p][k].attempts = 0
    BY DEF MonitorInit, Init, LedgerInit, NoRow
  <1>4. ChainInv /\ OwnTx /\ FailureAfterWork /\ OneNonce
    BY <1>3 DEF ChainInv, OwnTx, FailureAfterWork, OneNonce
  <1>5. BroadcastedIsSound /\ CopyIsSound /\ DroppedIsLost
    BY <1>3 DEF BroadcastedIsSound, CopyIsSound, DroppedIsLost
  <1>6. ConfirmedIsPaid /\ AttemptsEarned
    BY <1>3 DEF ConfirmedIsPaid, AttemptsEarned, Earned
  <1>7. PollsInv
    BY <1>3 DEF PollsInv, HasRow, Knows, Processing, PollAwaits, SpeedingUp
  <1> QED
    BY <1>1, <1>2, <1>4, <1>5, <1>6, <1>7 DEF Inv, MonitorInv

LEMMA InvStep == Inv /\ [MonitorNext]_allVars => Inv'
  <1> SUFFICES ASSUME Inv, [MonitorNext]_allVars
               PROVE  Inv'
    OBVIOUS
  <1>1. CASE Next /\ UNCHANGED monitorVars
    BY <1>1, PipelineKeeps
  <1>2. ASSUME NEW p \in Polls, Poll(p)
        PROVE  Inv'
    BY <1>2, PollCases, LooksKeeps, WritesKeeps, SendsKeeps
  <1>3. CASE UNCHANGED allVars
    BY <1>3, PipelineKeeps DEF allVars
  <1> QED
    BY <1>1, <1>2, <1>3 DEF MonitorNext

LEMMA MonitorInvariant == MonitorSpec => []Inv
  BY InvInit, InvStep, PTL DEF MonitorSpec

(* Rows, requests, polls and chain keep their types: a poll only ever      *)
(* holds rows as the table can have them (PendingMonitor, SpeedUpService). *)
THEOREM MonitorTypeCorrect == MonitorSpec => []MonitorTypeOK
  <1>1. Inv => MonitorTypeOK
    BY DEF Inv, TypeInv, MonitorTypes, MonitorTypeOK
  <1> QED
    BY <1>1, MonitorInvariant, PTL

(* A row says confirmed only if its payment is in a block, unreverted,     *)
(* however many polls, speed-ups and retries overlap (processRow).         *)
THEOREM ConfirmedRowsArePaid == MonitorSpec => []ConfirmedIsPaid
  <1>1. Inv => ConfirmedIsPaid
    BY DEF Inv, MonitorInv
  <1> QED
    BY <1>1, MonitorInvariant, PTL

(* No payment is mined twice unless its row failed or was dropped: all     *)
(* that a sole sender and the speed-ups of its row send has one nonce, and *)
(* the chain takes a nonce once (speedUp).                                 *)
THEOREM PaidOnceBeforeFailure == MonitorSpec => []PaidTwiceOnlyAfterFailure
  <1>1. Inv => PaidTwiceOnlyAfterFailure
    <2> SUFFICES ASSUME Inv, NEW t \in mined, NEW u \in mined, t.key = u.key,
                        ~rows[t.key].reason
                 PROVE  t = u
      BY DEF PaidTwiceOnlyAfterFailure
    <2> USE DEF Inv, MonitorInv
    <2>1. /\ t \in accepted /\ u \in accepted
          /\ t.key \in Keys /\ t.by \in Requests /\ u.by \in Requests
      BY DEF ChainInv, TypeInv, TypeOK, LedgerTypeOK, Tx
    <2>2. SoleSender(t.key)
      BY <2>1, UnfailedHasSoleSender
    <2>3. t.by = u.by
      BY <2>1, <2>2 DEF OwnTx, SentFor, SoleSender
    <2>4. t.nonce = u.nonce
      BY <2>1, <2>2, <2>3 DEF OneNonce
    <2> QED
      BY <2>4 DEF ChainInv
  <1> QED
    BY <1>1, MonitorInvariant, PTL

(* Nothing is given up before MAX_SPEED_UP_ATTEMPTS replacements were      *)
(* accepted, one for each attempt, although polls write the counter back   *)
(* from copies and a retry inherits it (speedUp).                          *)
THEOREM GivenUpOnlyWhenEarned == MonitorSpec => []GiveUpIsEarned
  <1>1. Inv => GiveUpIsEarned
    <2> SUFFICES ASSUME Inv, NEW p \in Polls, ppc[p] = "give_up",
                        NEW b \in 1..MaxSpeedUps
                 PROVE  \E t \in accepted : t.key = cur[p] /\ t.bump = b
      BY DEF GiveUpIsEarned
    <2>1. cur[p] \in Keys /\ SeenRow(p).attempts >= MaxSpeedUps
      BY DEF Inv, MonitorInv, PollsInv, HasRow, Knows, Processing, PollAwaits
    <2>2. SeenRow(p).attempts \in Nat
      BY <2>1 DEF Inv, MonitorTypes, Row
    <2>3. b \in 1..SeenRow(p).attempts
      BY <2>1, <2>2, MonitorAssumption
    <2> QED
      BY <2>1, <2>3 DEF Inv, MonitorInv, AttemptsEarned, Earned
  <1> QED
    BY <1>1, MonitorInvariant, PTL

(* Hash, payload nonce and original hash of a broadcasted row that never   *)
(* failed belong to one chain of replacements, all of them accepted, even  *)
(* when overlapping speed-ups overwrite each other's record (speedUp, 5).  *)
THEOREM AuditTrailStaysIntact == MonitorSpec => []AuditTrailIntact
  <1>1. Inv => AuditTrailIntact
    <2> SUFFICES ASSUME Inv, NEW k \in Keys, rows[k].status = "broadcasted",
                        ~rows[k].reason
                 PROVE  /\ rows[k].tx \in accepted /\ rows[k].tx.nonce = rows[k].nonce
                        /\ rows[k].orig # NoTx =>
                              /\ rows[k].orig \in accepted
                              /\ rows[k].orig = FirstOf(rows[k].tx)
      BY DEF AuditTrailIntact
    <2> USE DEF Inv, MonitorInv
    <2>1. SoleSender(k)
      BY UnfailedHasSoleSender
    <2>2. Sound(rows[k], accepted)
      BY <2>1 DEF BroadcastedIsSound
    <2>3. PICK t \in accepted : t = rows[k].tx
      BY <2>2 DEF Sound
    <2>4. t \in Tx /\ t.by \in Requests /\ t # NoTx
      BY NoTxAssumption DEF TypeInv, TypeOK, LedgerTypeOK, Tx
    <2>5. t.key = k /\ rkey[t.by] = k
      BY <2>3, <2>4 DEF OwnTx, SentFor
    <2>6. t.nonce = rnonce[t.by] /\ TxOf(t.by) \in accepted
      BY <2>1, <2>5 DEF OneNonce
    <2>7. FirstOf(t) = TxOf(t.by)
      BY <2>5, <2>6 DEF TxOf, FirstOf
    <2> QED
      BY <2>2, <2>3, <2>6, <2>7 DEF Sound
  <1> QED
    BY <1>1, MonitorInvariant, PTL

(* A payment of one request, sent once and reported dropped, is in no      *)
(* block: looking up receipt and hash at different times does not lose a   *)
(* transaction that is mined in between (processRow, 1-4).                 *)
THEOREM DroppedAloneStaysUnpaid == MonitorSpec => []DroppedAloneIsUnpaid
  <1>1. Inv => DroppedAloneIsUnpaid
    BY DEF Inv, MonitorInv, DroppedIsLost, Lost, DroppedAloneIsUnpaid
  <1> QED
    BY <1>1, MonitorInvariant, PTL


-----------------------------------------------------------------------------
(* What the pipeline promises on its own still holds beside the monitor,   *)
(* which writes the same rows and sends transactions of its own.           *)

(* While polls rewrite rows, the requests of a key that never failed still *)
(* have one worker among them, no row is stranded in pending or signed,    *)
(* and whoever was told "broadcasted" has an accepted transaction          *)
(* (requestSign beside processRow and speedUp).                            *)
THEOREM PipelineSafeBesideMonitor ==
    MonitorSpec => [](/\ OneWorkerUntilFailure
                      /\ UnfinishedRowHasWorker
                      /\ OkMeansAccepted
                      /\ BroadcastedRowIsOnChain)
  <1>1. Inv => OneWorkerUntilFailure
    <2> SUFFICES ASSUME Inv, NEW r \in Requests, NEW s \in Requests, r # s,
                        rkey[r] = rkey[s], pc[r] \in Working, pc[s] \in Working
                 PROVE  RowOf(r).reason
      BY DEF OneWorkerUntilFailure
    <2>1. Entered(r) /\ Entered(s)
      BY DEF Inv, TypeInv, NonceWhenReserved, Working, AfterReserve, Entered
    <2> QED
      BY <2>1 DEF Inv, RowInv, OneEntered
  <1>2. Inv => UnfinishedRowHasWorker /\ OkMeansAccepted /\ BroadcastedRowIsOnChain
    BY DEF Inv, RowInv, AcceptedWhenMarked, OkMeansAccepted, ContentInv
  <1> QED
    BY <1>1, <1>2, MonitorInvariant, PTL

\* Reservation, release and syncNonce, whatever pending count it writes.
LEMMA HeldStep ==
    ASSUME TypeInv, HeldBelowCounter, HeldNoncesDistinct, [Next]_vars
    PROVE  HeldBelowCounter' /\ HeldNoncesDistinct'
  <1> USE DEF TypeInv, TypeOK, HeldBelowCounter, HeldNoncesDistinct, Holds
  <1>1. ASSUME NEW r \in Requests, ReserveNonce(r)
        PROVE  HeldBelowCounter' /\ HeldNoncesDistinct'
    <2>1. /\ rnonce' = [rnonce EXCEPT ![r] = counter] /\ counter' = counter + 1
          /\ pc' = [pc EXCEPT ![r] = "payload"]
      BY <1>1 DEF ReserveNonce
    <2>2. \A s \in Requests : s # r => rnonce'[s] = rnonce[s] /\ pc'[s] = pc[s]
      BY <2>1
    <2>3. rnonce'[r] = counter
      BY <2>1
    <2> QED
      BY <2>1, <2>2, <2>3
  <1>2. ASSUME NEW r \in Requests, ReleaseNonce(r)
        PROVE  HeldBelowCounter' /\ HeldNoncesDistinct'
    <2>1. /\ Holds(r) /\ pc' = [pc EXCEPT ![r] = "sign_failed"] /\ rnonce' = rnonce
          /\ \/ counter' = counter
             \/ counter = rnonce[r] + 1 /\ counter' = rnonce[r]
      BY <1>2 DEF ReleaseNonce, Released, NonceWhenReserved, AfterReserve
    <2>2. \A s \in Requests : Holds(s)' => s # r /\ Holds(s)
      BY <2>1
    <2>3. HeldNoncesDistinct'
      BY <2>1, <2>2
    <2>4. ASSUME NEW s \in Requests, Holds(s)'
          PROVE  rnonce'[s] < counter'
      BY <2>1, <2>2, <2>4
    <2> QED
      BY <2>3, <2>4
  <1>3. ASSUME NEW r \in Requests, Sync(r)
        PROVE  HeldBelowCounter' /\ HeldNoncesDistinct'
    <2>1. /\ UNCHANGED <<pc, rnonce>> /\ counter' >= counter /\ counter' \in Nat
      BY <1>3 DEF Sync, SyncRead, SyncWrite, SyncFails, Synced, tableVars
    <2> QED
      BY <2>1
  <1>4. ASSUME NEW r \in Requests,
               \/ LoadPrerequisites(r) \/ FindByIdempotencyKey(r)
               \/ EvaluatePolicy(r) \/ EstimateFees(r) \/ CreateRow(r)
               \/ FindRaced(r) \/ ResetRow(r) \/ StorePayload(r)
               \/ SignTransaction(r) \/ MarkSignFailed(r) \/ StoreSigned(r)
               \/ BroadcastAccepted(r) \/ BroadcastFails(r) \/ BroadcastReplyLost(r)
               \/ MarkBroadcasted(r) \/ MarkBroadcastedThrows(r)
               \/ MarkBroadcastFailed(r) \/ Audit(r) \/ Crash(r)
        PROVE  HeldBelowCounter' /\ HeldNoncesDistinct'
    <2>1. UNCHANGED <<rnonce, counter>>
      BY <1>4
         DEF LoadPrerequisites, FindByIdempotencyKey, EvaluatePolicy,
             EstimateFees, CreateRow, FindRaced, ResetRow, StorePayload,
             SignTransaction, MarkSignFailed, StoreSigned, BroadcastAccepted,
             BroadcastFails, BroadcastReplyLost, MarkBroadcasted,
             MarkBroadcastedThrows, MarkBroadcastFailed, Audit, Crash, tableVars
    <2>2. pc[r] # "sign_failed" /\ \A s \in Requests : s # r => pc'[s] = pc[s]
      BY <1>4
         DEF LoadPrerequisites, FindByIdempotencyKey, EvaluatePolicy,
             EstimateFees, CreateRow, FindRaced, ResetRow, StorePayload,
             SignTransaction, MarkSignFailed, StoreSigned, BroadcastAccepted,
             BroadcastFails, BroadcastReplyLost, MarkBroadcasted,
             MarkBroadcastedThrows, MarkBroadcastFailed, Audit, Crash,
             Awaiting, BeforeReserve, AfterReserve
    <2> QED
      BY <2>1, <2>2
  <1>5. CASE ChainStep \/ UNCHANGED vars
    BY <1>5 DEF ChainStep, pipelineVars, tableVars, vars
  <1> QED
    BY <1>1, <1>2, <1>3, <1>4, <1>5 DEF Next, Step

(* No two requests hold the same nonce, although speed-ups reuse nonces    *)
(* and may give the chain transactions on nonces the counter took back     *)
(* (WalletNonceRepository beside speedUp).                                 *)
THEOREM HeldNoncesDistinctBesideMonitor == MonitorSpec => []HeldNoncesDistinct
  <1> DEFINE HeldInv == HeldBelowCounter /\ HeldNoncesDistinct
  <1>1. MonitorInit => HeldInv
    BY DEF MonitorInit, Init, HeldBelowCounter, HeldNoncesDistinct, Holds
  <1>2. Inv /\ HeldInv /\ [MonitorNext]_allVars => HeldInv'
    <2> SUFFICES ASSUME Inv, HeldInv, [MonitorNext]_allVars
                 PROVE  HeldInv'
      OBVIOUS
    <2>1. CASE [Next]_vars
      BY <2>1, HeldStep DEF Inv
    <2>2. ASSUME NEW p \in Polls, Poll(p)
          PROVE  HeldInv'
      <3>1. UNCHANGED <<pc, rnonce, counter>>
        <4>1. CASE Looks(p)
          BY <4>1, LooksFrame DEF vars
        <4>2. CASE Writes(p)
          BY <4>2, WritesWhat DEF requestVars
        <4>3. CASE Sends(p)
          BY <4>3, SendsWhat DEF requestVars
        <4> QED
          BY <2>2, <4>1, <4>2, <4>3, PollCases
      <3> QED
        BY <3>1 DEF HeldBelowCounter, HeldNoncesDistinct, Holds
    <2> QED
      BY <2>1, <2>2 DEF MonitorNext, allVars
  <1>3. MonitorSpec => []HeldInv
    BY <1>1, <1>2, MonitorInvariant, PTL DEF MonitorSpec
  <1> QED
    BY <1>3, PTL


-----------------------------------------------------------------------------
(* No nonce is skipped.  Beside the monitor syncNonce does move the        *)
(* counter: a speed-up may have sent with a nonce the counter took back.   *)
(* But every nonce the chain, a row or a copy knows was handed out once.   *)
HandedOut(n) == \E r \in Requests : rnonce[r] = n

\* The same after the step.
HandedNext(n) == \E r \in Requests : rnonce'[r] = n

HandedBelow(n) == \A m \in 0 .. (n - 1) : HandedOut(m)

NoncesHandedOut ==
    /\ \A t \in accepted : HandedOut(t.nonce)
    /\ \A k \in Keys : rows[k].nonce # NoNonce => HandedOut(rows[k].nonce)
    /\ \A p \in Polls, k \in Keys :
          seen[p][k].nonce # NoNonce => HandedOut(seen[p][k].nonce)
    /\ HandedBelow(chainNonce)
    /\ \A r \in Requests : HandedBelow(sval[r])
    /\ HandedBelow(counter)

LEMMA Below ==
    ASSUME NEW a \in Nat, NEW b \in Nat, a <= b
    PROVE  \A m \in 0 .. (a - 1) : m \in 0 .. (b - 1)
  OBVIOUS

LEMMA HandedStays ==
    ASSUME Grows, NEW n, n # NoNonce, HandedOut(n)
    PROVE  HandedNext(n)
  BY DEF Grows, HandedOut, HandedNext

LEMMA HandedBelowStays ==
    ASSUME Grows, NEW n \in Nat, HandedBelow(n)
    PROVE  \A m \in 0 .. (n - 1) : HandedNext(m)
  BY HandedStays DEF HandedBelow

LEMMA PipelineHandsOut ==
    ASSUME Inv, NoncesHandedOut, [Next]_vars, UNCHANGED monitorVars
    PROVE  NoncesHandedOut'
  <1> USE DEF Inv, MonitorInv, HandedNext
  <1>g. Grows
    BY PipelineGrows
  <1>t. /\ rnonce \in [Requests -> Nat \cup {NoNonce}] /\ counter \in Nat
        /\ chainNonce \in Nat /\ sval \in [Requests -> Nat]
        /\ pool \subseteq accepted
        /\ \A t \in accepted : t.nonce \in Nat
    BY DEF TypeInv, TypeOK, LedgerTypeOK, Tx, ChainInv
  <1>1. ASSUME NEW t \in accepted'
        PROVE  HandedNext(t.nonce)
    <2>1. CASE t \in accepted
      BY <1>g, <1>t, <2>1, HandedStays DEF NoncesHandedOut
    <2>2. CASE t \notin accepted
      <3>1. PICK r \in Requests : t = TxOf(r) /\ UNCHANGED rnonce
        BY <1>1, <2>2, PipelineSends
      <3> QED
        BY <3>1 DEF TxOf, HandedOut
    <2> QED
      BY <2>1, <2>2
  <1>2. ASSUME NEW k \in Keys, rows'[k].nonce # NoNonce
        PROVE  HandedNext(rows'[k].nonce)
    <2>1. CASE rows'[k].nonce = rows[k].nonce
      BY <1>2, <1>g, <2>1, HandedStays DEF NoncesHandedOut
    <2>2. CASE rows'[k].nonce # rows[k].nonce
      <3>1. PICK r \in Requests :
               /\ rkey[r] = k
               /\ Creates(r) \/ TakesOver(r) \/ WorksOn(r) \/ Finishes(r)
        BY <2>2, PipelineWrites
      <3>2. ~Creates(r)
        BY <1>2, <3>1 DEF Creates, NoRow
      <3>3. rows'[k].nonce = rnonce[r] /\ UNCHANGED rnonce
        BY <2>2, <3>1, <3>2 DEF TakesOver, WorksOn, Finishes, StatusOnly
      <3> QED
        BY <3>3 DEF HandedOut
    <2> QED
      BY <2>1, <2>2
  <1>3. ASSUME NEW p \in Polls, NEW k \in Keys, seen'[p][k].nonce # NoNonce
        PROVE  HandedNext(seen'[p][k].nonce)
    BY <1>3, <1>g, HandedStays DEF NoncesHandedOut, monitorVars
  <1>4. HandedBelow(chainNonce)'
    <2>1. CASE chainNonce' = chainNonce
      BY <1>g, <1>t, <2>1, HandedBelowStays DEF NoncesHandedOut, HandedBelow, HandedOut
    <2>2. ASSUME NEW t \in pool, Mine(t)
          PROVE  HandedBelow(chainNonce)'
      <3>1. chainNonce' = chainNonce + 1 /\ HandedNext(chainNonce)
        BY <2>2, <1>g, <1>t, HandedStays DEF Mine, NoncesHandedOut
      <3>2. \A m \in 0 .. (chainNonce - 1) : HandedNext(m)
        BY <1>g, <1>t, HandedBelowStays DEF NoncesHandedOut
      <3>3. \A m \in 0 .. (chainNonce' - 1) :
               m = chainNonce \/ m \in 0 .. (chainNonce - 1)
        BY <1>t, <3>1
      <3> QED
        BY <3>1, <3>2, <3>3 DEF HandedBelow, HandedOut
    <2> QED
      BY <2>1, <2>2, LedgerCases
         DEF ledgerVars, BroadcastAccepted, BroadcastReplyLost, Accept, Evict
  <1>5. ASSUME NEW r \in Requests, sval'[r] # sval[r]
        PROVE  HandedBelow(sval'[r]) /\ UNCHANGED rnonce
    <2>1. SyncRead(r)
      <3>1. PICK s \in Requests : SyncRead(s)
        BY <1>5
           DEF Next, Step, Sync, LoadPrerequisites, FindByIdempotencyKey,
               EvaluatePolicy, EstimateFees, CreateRow, FindRaced, ResetRow,
               ReserveNonce, StorePayload, SignTransaction, MarkSignFailed,
               ReleaseNonce, StoreSigned, BroadcastAccepted, BroadcastFails,
               BroadcastReplyLost, MarkBroadcasted, MarkBroadcastedThrows,
               MarkBroadcastFailed, Audit, SyncWrite, SyncFails, Crash,
               ChainStep, pipelineVars, syncVars, vars
      <3> QED
        BY <3>1, <1>5, <1>t DEF SyncRead
    <2>2. PICK n \in PendingCounts : sval'[r] = n
      BY <2>1, <1>t DEF SyncRead
    <2>3. n \in Nat /\ \A m \in chainNonce .. (n - 1) : \E t \in pool : t.nonce = m
      BY <1>t, <2>2 DEF PendingCounts, IsPendingCount
    <2>4. \A m \in 0 .. (n - 1) :
             m \in 0 .. (chainNonce - 1) \/ m \in chainNonce .. (n - 1)
      BY <1>t, <2>3
    <2>5. HandedBelow(n)
      BY <1>t, <2>3, <2>4 DEF HandedBelow, NoncesHandedOut
    <2> QED
      BY <2>1, <2>2, <2>5 DEF SyncRead
  <1>6. ASSUME NEW r \in Requests
        PROVE  HandedBelow(sval[r])'
    <2>1. CASE sval'[r] = sval[r]
      BY <1>g, <1>t, <2>1, HandedBelowStays DEF NoncesHandedOut, HandedBelow, HandedOut
    <2>2. CASE sval'[r] # sval[r]
      BY <1>5, <2>2 DEF HandedBelow, HandedOut
    <2> QED
      BY <2>1, <2>2
  <1>7. HandedBelow(counter)'
    <2>1. CASE counter' = counter
      BY <1>g, <1>t, <2>1, HandedBelowStays DEF NoncesHandedOut, HandedBelow, HandedOut
    <2>2. ASSUME NEW r \in Requests, ReserveNonce(r)
          PROVE  HandedBelow(counter)'
      <3>1. counter' = counter + 1 /\ rnonce'[r] = counter
        BY <2>2, <1>t DEF ReserveNonce
      <3>2. \A m \in 0 .. (counter - 1) : HandedNext(m)
        BY <1>g, <1>t, HandedBelowStays DEF NoncesHandedOut
      <3>3. \A m \in 0 .. (counter' - 1) : m = counter \/ m \in 0 .. (counter - 1)
        BY <1>t, <3>1
      <3> QED
        BY <3>1, <3>2, <3>3 DEF HandedBelow, HandedOut
    <2>3. ASSUME NEW r \in Requests, ReleaseNonce(r)
          PROVE  HandedBelow(counter)'
      <3>1. counter' \in Nat /\ counter' <= counter /\ UNCHANGED rnonce
        BY <2>3, <1>t DEF ReleaseNonce, Released, TypeInv, NonceWhenReserved,
                          AfterReserve
      <3>2. \A m \in 0 .. (counter' - 1) : m \in 0 .. (counter - 1)
        BY <3>1, <1>t, Below
      <3>3. \A m \in 0 .. (counter - 1) : HandedNext(m)
        BY <1>g, <1>t, HandedBelowStays DEF NoncesHandedOut
      <3> QED
        BY <3>2, <3>3 DEF HandedBelow, HandedOut
    <2>4. ASSUME NEW r \in Requests, SyncWrite(r)
          PROVE  HandedBelow(counter)'
      <3>1. counter' \in {counter, sval[r]} /\ sval[r] \in Nat
        BY <2>4, <1>t DEF SyncWrite, Synced
      <3>2. /\ \A m \in 0 .. (counter - 1) : HandedNext(m)
            /\ \A m \in 0 .. (sval[r] - 1) : HandedNext(m)
        BY <1>g, <1>t, <3>1, HandedBelowStays DEF NoncesHandedOut
      <3> QED
        BY <3>1, <3>2 DEF HandedBelow, HandedOut
    <2>5. \/ counter' = counter
          \/ \E r \in Requests : ReserveNonce(r) \/ ReleaseNonce(r) \/ SyncWrite(r)
      BY DEF Next, Step, Sync, LoadPrerequisites, FindByIdempotencyKey,
             EvaluatePolicy, EstimateFees, CreateRow, FindRaced, ResetRow,
             StorePayload, SignTransaction, MarkSignFailed, StoreSigned,
             BroadcastAccepted, BroadcastFails, BroadcastReplyLost,
             MarkBroadcasted, MarkBroadcastedThrows, MarkBroadcastFailed, Audit,
             SyncRead, SyncFails, Crash, ChainStep, pipelineVars, tableVars, vars
    <2> QED
      BY <2>1, <2>2, <2>3, <2>4, <2>5
  <1> QED
    BY <1>1, <1>2, <1>3, <1>4, <1>6, <1>7 DEF NoncesHandedOut, HandedOut

LEMMA PollsHandOut ==
    ASSUME Inv, NoncesHandedOut, NEW p \in Polls, Poll(p)
    PROVE  NoncesHandedOut'
  <1> USE DEF Inv
  <1>1. CASE Looks(p)
    <2>1. UNCHANGED <<rnonce, accepted, rows, chainNonce, sval, counter>>
      BY <1>1, LooksFrame DEF vars, ledgerVars
    <2>2. ASSUME NEW q \in Polls, NEW k \in Keys
          PROVE  seen'[q][k].nonce \in {NoNonce, seen[q][k].nonce, rows[k].nonce}
      BY <1>1, LooksCopies DEF NoRow
    <2> QED
      BY <2>1, <2>2 DEF NoncesHandedOut, HandedBelow, HandedOut
  <1>2. CASE Writes(p)
    <2>1. PICK k \in Keys, row \in Row :
             /\ rows' = [rows EXCEPT ![k] = row] /\ row.nonce = rows[k].nonce
             /\ UNCHANGED <<requestVars, ledgerVars, seen>>
      <3>1. PICK k \in Keys, row \in Row :
               /\ rows' = [rows EXCEPT ![k] = row]
               /\ UNCHANGED <<requestVars, ledgerVars, seen>>
               /\ \/ Confirms(row, k, seen[p][k])
                  \/ GivesUp(row, k)
                  \/ Records(row, k, seen[p][k], fee[p])
        BY <1>2, WritesWhat
      <3>2. rows[k] \in Row
        BY DEF TypeInv, TypeOK
      <3>3. row.nonce = rows[k].nonce
        BY <3>1, <3>2 DEF Confirms, GivesUp, Records, Row
      <3> QED
        BY <3>1, <3>3
    <2>2. \A j \in Keys : rows'[j].nonce = rows[j].nonce
      BY <2>1 DEF TypeInv, TypeOK
    <2> QED
      BY <2>1, <2>2 DEF requestVars, ledgerVars, syncVars, NoncesHandedOut,
                        HandedBelow, HandedOut
  <1>3. CASE Sends(p)
    <2>1. PICK u \in Tx, k \in Keys :
             /\ cur[p] = k /\ u = Replacement(p) /\ accepted' = accepted \cup {u}
             /\ UNCHANGED <<chainNonce, rows, requestVars, seen>>
      BY <1>3, SendsWhat
    <2>2. u.nonce = seen[p][k].nonce /\ u.nonce # NoNonce
      BY <2>1 DEF Replacement, Tx
    <2>3. HandedOut(u.nonce)
      BY <2>2 DEF NoncesHandedOut
    <2> QED
      BY <2>1, <2>3 DEF requestVars, syncVars, NoncesHandedOut, HandedBelow, HandedOut
  <1> QED
    BY <1>1, <1>2, <1>3, PollCases

(* Beside the monitor, too, every nonce below the counter was handed to a  *)
(* request, although syncNonce then raises the counter over nonces that    *)
(* were given back and sent (syncNonce, release and speedUp).              *)
THEOREM NoNonceIsSkippedBesideMonitor == MonitorSpec => []NoNonceSkipped
  <1>1. MonitorInit => NoncesHandedOut
    BY DEF MonitorInit, Init, LedgerInit, NoRow, NoncesHandedOut, HandedBelow
  <1>2. Inv /\ NoncesHandedOut /\ [MonitorNext]_allVars => NoncesHandedOut'
    <2> SUFFICES ASSUME Inv, NoncesHandedOut, [MonitorNext]_allVars
                 PROVE  NoncesHandedOut'
      OBVIOUS
    <2>1. CASE [Next]_vars /\ UNCHANGED monitorVars
      BY <2>1, PipelineHandsOut
    <2>2. ASSUME NEW p \in Polls, Poll(p)
          PROVE  NoncesHandedOut'
      BY <2>2, PollsHandOut
    <2> QED
      BY <2>1, <2>2 DEF MonitorNext, allVars
  <1>3. NoncesHandedOut => NoNonceSkipped
    BY DEF NoncesHandedOut, HandedBelow, HandedOut, NoNonceSkipped
  <1> QED
    BY <1>1, <1>2, <1>3, MonitorInvariant, PTL DEF MonitorSpec

-----------------------------------------------------------------------------
(* What NonceNeverUsedTwice, which the monitor breaks, leaves standing     *)

(* Two requests' transactions share a nonce only if a row of theirs has    *)
(* failed: until then a speed-up rebuilds from the payload of the request  *)
(* it replaces (reserve and release beside speedUp).                       *)
THEOREM NonceSharedOnlyAfterFailure == MonitorSpec => []SharedNonceOnlyAfterFailure
  <1>1. Inv /\ HeldNoncesDistinct => SharedNonceOnlyAfterFailure
    <2> SUFFICES ASSUME Inv, HeldNoncesDistinct, NEW t \in accepted,
                        NEW u \in accepted, t.nonce = u.nonce, t.by # u.by,
                        ~rows[t.key].reason, ~rows[u.key].reason
                 PROVE  FALSE
      BY DEF SharedNonceOnlyAfterFailure
    <2> USE DEF Inv, MonitorInv
    <2>1. \A x \in accepted : /\ x.key \in Keys /\ x.by \in Requests
                              /\ rnonce[x.by] # NoNonce
      BY DEF TypeInv, TypeOK, LedgerTypeOK, Tx, OwnTx, SentFor
    <2>2. SoleSender(t.key) /\ SoleSender(u.key)
      BY <2>1, UnfailedHasSoleSender
    <2>3. /\ t.nonce = rnonce[t.by] /\ pc[t.by] \in Sent
          /\ u.nonce = rnonce[u.by] /\ pc[u.by] \in Sent
      BY <2>2 DEF OneNonce
    <2>4. Holds(t.by) /\ Holds(u.by)
      BY <2>1, <2>3 DEF Holds, Sent
    <2> QED
      BY <2>1, <2>3, <2>4 DEF HeldNoncesDistinct
  <1> QED
    BY <1>1, MonitorInvariant, HeldNoncesDistinctBesideMonitor, PTL

-----------------------------------------------------------------------------
(* Who may still write a settled row *)

(* A row that was broadcasted or confirmed and never failed is written by  *)
(* no request again, however many raced for its key and however late they  *)
(* look: the row's one sender has left it, and the others find it unfailed *)
(* (requestSign, step 5).                                                  *)
THEOREM SettledRowsAreLeft == MonitorSpec => SettledRowIsLeft
  <1>1. ASSUME Inv, NEW k \in Keys, NEW s \in Requests, Step(s),
               rows[k].status \in {"broadcasted", "confirmed"}, ~rows[k].reason,
               rows'[k] # rows[k]
        PROVE  FALSE
    <2>1. [Next]_vars
      BY <1>1 DEF Next
    <2>2. PICK r \in Requests :
             /\ rkey[r] = k
             /\ Creates(r) \/ TakesOver(r) \/ WorksOn(r) \/ Finishes(r)
      BY <1>1, <2>1, PipelineWrites DEF Inv
    <2>3. ~Creates(r)
      BY <1>1, <2>2 DEF Creates
    <2>4. ~TakesOver(r)
      BY <1>1, <2>2 DEF TakesOver, Inv, RowInv, TakeoverAfterFailure
    <2>5. pc[r] \notin Working
      BY <1>1, <2>2 DEF Inv, ContentInv, RowIsOwn, Unsent
    <2> QED
      BY <2>2, <2>3, <2>4, <2>5 DEF WorksOn, Finishes, Working
  <1>2. Inv => [\A k \in Keys :
                  (\E r \in Requests : Step(r))
                  /\ rows[k].status \in {"broadcasted", "confirmed"} /\ ~rows[k].reason
                     => rows'[k] = rows[k]]_allVars
    BY <1>1
  <1> QED
    BY <1>2, MonitorInvariant, PTL DEF MonitorSpec, SettledRowIsLeft

=============================================================================
