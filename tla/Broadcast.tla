------------------------------ MODULE Broadcast ------------------------------
(***************************************************************************)
(* What GasService.broadcastTransaction promises its callers, requestSign  *)
(* and speedUp: an answer "ok" says that a provider has the transaction.   *)
(* An "error" says nothing: the transaction may have been taken before,    *)
(* and may still be taken after the caller was told.                       *)
(***************************************************************************)
VARIABLES
    accepted,  \* some provider has taken the transaction
    reply      \* what the caller was told: "none" yet, "ok" or "error"

vars == <<accepted, reply>>

Init == ~accepted /\ reply = "none"

Accept ==
    /\ ~accepted /\ reply # "ok"
    /\ accepted' = TRUE
    /\ UNCHANGED reply

AnswerOk ==
    /\ reply = "none"
    /\ accepted' = TRUE
    /\ reply' = "ok"

\* Possibly with the transaction taken by the very request that failed.
AnswerError ==
    /\ reply = "none"
    /\ reply' = "error"
    /\ accepted' \in {accepted, TRUE}

Next == Accept \/ AnswerOk \/ AnswerError

Spec == Init /\ [][Next]_vars
=============================================================================
