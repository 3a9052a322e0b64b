------------------------------- MODULE Ledger -------------------------------
(***************************************************************************)
(* The EVM chain, as the API sees it through its JSON-RPC providers, for   *)
(* one account (one wallet on one chain).  External to the repository: it  *)
(* is modelled from how libs/gas/src/gas.service.ts uses it                *)
(* (eth_sendRawTransaction, eth_getTransactionReceipt,                     *)
(* eth_getTransactionByHash, eth_getTransactionCount "pending").           *)
(*                                                                         *)
(* A transaction is known by its content: the payment it carries (the      *)
(* idempotency key stands for to/value/data), the nonce it consumes, the   *)
(* request that had it signed, which fee bump it is (0 is the first one),  *)
(* and the fee that bump offers.  Equal records have equal hashes,         *)
(* different records different hashes.                                     *)
(***************************************************************************)
EXTENDS Integers

CONSTANTS
    Keys,      \* idempotency keys: the distinct payments of the account
    Requests,  \* the calls of POST /wallets/:id/sign
    Faults     \* which failures of the environment a run lets happen

(* "lost_reply": a provider accepts a transaction and the caller sees an   *)
(* error; "evict": the mempool forgets a transaction; "revert": a mined    *)
(* transaction fails; "crash": the API process dies, or a database call    *)
(* throws, between two steps of a handler.                                 *)
FaultKinds == {"lost_reply", "evict", "revert", "crash"}

ASSUME FaultsAssumption == Faults \subseteq FaultKinds

VARIABLES
    chainNonce,  \* the account's next nonce on chain
    pool,        \* transactions a node may still put in a block
    mined,       \* transactions in a block
    reverted,    \* those of them whose receipt has status 0
    accepted     \* history: every transaction a provider ever accepted

ledgerVars == <<chainNonce, pool, mined, reverted, accepted>>

Tx == [key : Keys, nonce : Nat, by : Requests, bump : Nat, fee : Nat]

LedgerTypeOK ==
    /\ chainNonce \in Nat
    /\ pool \subseteq Tx
    /\ mined \subseteq Tx
    /\ reverted \subseteq mined
    /\ accepted \subseteq Tx

LedgerInit ==
    /\ chainNonce = 0
    /\ pool = {}
    /\ mined = {}
    /\ reverted = {}
    /\ accepted = {}

-----------------------------------------------------------------------------
(* eth_sendRawTransaction: what a node accepts enters the pool.  A node    *)
(* refuses a nonce the account has already used ("nonce too low") and a    *)
(* transaction it holds ("already known").  An earlier transaction with    *)
(* the same nonce stays in the pool: some other node may still mine it.    *)
Acceptable(t) == t.nonce >= chainNonce /\ t \notin pool

Accept(t) ==
    /\ pool' = pool \cup {t}
    /\ accepted' = accepted \cup {t}
    /\ UNCHANGED <<chainNonce, mined, reverted>>

\* eth_getTransactionReceipt answers null until the transaction is mined.
HasReceipt(t) == t \in mined

\* eth_getTransactionByHash knows mined and pending transactions alike.
KnownToNode(t) == t \in pool \cup mined

(* eth_getTransactionCount(address, "pending"): the first nonce, from the  *)
(* on-chain one up, that no transaction of the pool uses.                  *)
IsPendingCount(n) ==
    /\ \A m \in chainNonce..(n - 1) : \E t \in pool : t.nonce = m
    /\ \A t \in pool : t.nonce # n

PendingCounts ==
    {n \in {chainNonce} \cup {t.nonce + 1 : t \in pool} :
        n >= chainNonce /\ IsPendingCount(n)}

-----------------------------------------------------------------------------
(* A block takes the transaction with the account's next nonce: nonces are *)
(* consumed in order, without gaps.  Its competitors for the nonce die.    *)
Mine(t) ==
    /\ t \in pool
    /\ t.nonce = chainNonce
    /\ chainNonce' = chainNonce + 1
    /\ pool' = {u \in pool : u.nonce # t.nonce}
    /\ mined' = mined \cup {t}
    /\ \/ reverted' = reverted
       \/ "revert" \in Faults /\ reverted' = reverted \cup {t}
    /\ UNCHANGED accepted

Evict(t) ==
    /\ "evict" \in Faults
    /\ t \in pool
    /\ pool' = pool \ {t}
    /\ UNCHANGED <<chainNonce, mined, reverted, accepted>>

LedgerNext == \E t \in pool : Mine(t) \/ Evict(t)

=============================================================================
