----------------------------- MODULE SignerLimits -----------------------------
(***************************************************************************)
(* The sidecar's own limits (cmd/crypto/limits.go): how the environment    *)
(* becomes SignerLimits and what a transaction must meet to be signed.     *)
(* Names are written as in PolicyEngine; common.Address has one spelling,  *)
(* which Lower stands for.  Settings that do not parse stop the process at *)
(* start and are left out.                                                 *)
(***************************************************************************)
EXTENDS PolicyEngine

CONSTANTS
    Unset,     \* an environment variable that is not there
    NoTo,      \* the empty `to` of a contract creation
    DefaultGas \* MaxGasLimit when SIGNER_MAX_GAS_LIMIT is not set

\* The keys of the map of destinations.
AllowedTo(env) == {Lower(a) : a \in env.to}

\* A value limit that is not set is zero; a list that is not set is empty.
LoadSignerLimits(env) ==
    [max       |-> IF env.max = Unset THEN 0 ELSE env.max,
     chains    |-> env.chains,
     to        |-> AllowedTo(env),
     selectors |-> {[to |-> Lower(e.to), selector |-> Lower(e.selector)] : e \in env.selectors},
     creation  |-> env.creation,
     hash      |-> env.hash,
     gas       |-> IF env.gas = Unset THEN DefaultGas ELSE env.gas]

\* parseTxFields, on what the types of tx do not rule out already.
ParseTxFields(tx, gas) == tx.chain > 0 /\ tx.value >= 0 /\ gas > 0

\* Mutation of IsCall: data too short for a selector counts as a transfer.
IsCallWithSelector(tx) == HasSelector(tx)

IsCall(tx) == tx.data.bytes > 0

(* Empty lists of chains and of destinations allow all, an empty list of   *)
(* selectors allows none.                                                  *)
ValidateSignTxLimits(limits, tx, gas) ==
    /\ tx.value <= limits.max
    /\ limits.chains # {} => tx.chain \in limits.chains
    /\ gas <= limits.gas
    /\ IF tx.to = NoTo THEN limits.creation
       ELSE limits.to # {} => Lower(tx.to) \in limits.to
    /\ IsCall(tx) =>
          /\ tx.to # NoTo
          /\ HasSelector(tx)
          /\ [to |-> Lower(tx.to), selector |-> Lower(tx.data.selector)] \in limits.selectors
=============================================================================
