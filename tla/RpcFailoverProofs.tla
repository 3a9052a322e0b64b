-------------------------- MODULE RpcFailoverProofs --------------------------
(***************************************************************************)
(* Failover and retry, for every number of providers and attempts: what an *)
(* answer of rpcCallWithRetry means, and that it is all its callers were   *)
(* modelled with (Broadcast).                                              *)
(***************************************************************************)
EXTENDS RpcFailover, TLAPS

-----------------------------------------------------------------------------
(* The invariant.  ErrorNeedsReason is not inductive: the last provider's  *)
(* failure must say something of all the others.  It does, because within  *)
(* one attempt the providers already passed were not healthy unless a      *)
(* request went unanswered (PassedAreUnhealthy); and a transaction that    *)
(* was taken while every request was answered has been answered with "ok"  *)
(* (TakenIsTold), so "already known" is met only after a lost reply.       *)

CountersInRange == i <= rpcUrls \/ (rpcUrls = 0 /\ i = 1)

PassedAreUnhealthy ==
    result = "none" /\ ~unanswered => \A q \in 1 .. (i - 1) : q \notin healthy

TakenIsTold ==
    /\ late # {} => unanswered
    /\ known # {} => accepted
    /\ accepted => unanswered \/ result = "ok"

OkIsTrue == result = "ok" => accepted

FailoverInv ==
    /\ TypeOK
    /\ CountersInRange
    /\ PassedAreUnhealthy
    /\ TakenIsTold
    /\ OkIsTrue
    /\ ErrorNeedsReason

LEMMA FailoverInit == Init => FailoverInv
  <1> SUFFICES ASSUME Init
               PROVE  FailoverInv
    OBVIOUS
  <1>1. TypeOK
    <2>1. 1 \in 1 .. MaxRetries /\ 1 \in 1 .. MaxProviders + 1
      BY BoundsAssumption
    <2> QED
      BY <2>1 DEF Init, TypeOK
  <1>c. CountersInRange
    BY BoundsAssumption DEF Init, CountersInRange
  <1>2. PassedAreUnhealthy
    BY DEF Init, PassedAreUnhealthy
  <1>3. TakenIsTold /\ OkIsTrue /\ ErrorNeedsReason
    BY DEF Init, TakenIsTold, OkIsTrue, ErrorNeedsReason
  <1> QED
    BY <1>1, <1>c, <1>2, <1>3 DEF FailoverInv

\* Passing provider m adds m to those passed; starting again forgets them.
LEMMA Passed ==
    ASSUME NEW m \in Nat, NEW n \in Nat, n = m + 1 \/ n = 1
    PROVE  1 .. (n - 1) \subseteq 1 .. m
  OBVIOUS

\* How a failing provider moves the two loops.
LEMMA FailureMoves ==
    ASSUME FailoverInv, Asking, NEW error \in DOMAIN Class, ProviderFails(error)
    PROVE  /\ i \in Providers
           /\ attempt' \in 1 .. MaxRetries /\ i' \in Providers
           /\ \/ i # rpcUrls /\ i' = i + 1 /\ result' = "none"
              \/ i = rpcUrls /\ i' = 1 /\ result' = "none"
              \/ i = rpcUrls /\ result' = "error"
  BY BoundsAssumption
     DEF FailoverInv, TypeOK, CountersInRange, Asking, Providers, ProviderFails,
         IsLast, AttemptFails, Class

(* A provider fails: it was not healthy, or some request is unanswered.    *)
LEMMA FailureKeeps ==
    ASSUME FailoverInv, Asking, NEW error \in DOMAIN Class, ProviderFails(error),
           UNCHANGED configVars,
           i \notin healthy \/ unanswered,
           unanswered => unanswered', unanswered' \in BOOLEAN,
           accepted => accepted', accepted' \in BOOLEAN,
           accepted' => accepted \/ unanswered',
           known' \subseteq known \cup {i}, late' \subseteq late \cup {i},
           known' # {} => accepted',
           late' # {} => unanswered'
    PROVE  FailoverInv'
  <1> USE DEF FailoverInv, configVars, Asking
  <1>1. /\ i \in Providers
        /\ attempt' \in 1 .. MaxRetries /\ i' \in Providers
        /\ \/ i # rpcUrls /\ i' = i + 1 /\ result' = "none"
           \/ i = rpcUrls /\ i' = 1 /\ result' = "none"
           \/ i = rpcUrls /\ result' = "error"
    BY FailureMoves
  <1>b. /\ i \in Nat /\ i >= 1 /\ i <= rpcUrls /\ i' \in Nat /\ i' >= 1
        /\ i' <= rpcUrls /\ rpcUrls \in Nat /\ rpcUrls <= MaxProviders
        /\ UNCHANGED <<rpcUrls, healthy>>
    BY <1>1, BoundsAssumption DEF TypeOK, Providers
  <1>2. TypeOK' /\ CountersInRange'
    <2>1. i' \in 1 .. MaxProviders + 1 /\ CountersInRange'
      BY <1>b, BoundsAssumption DEF CountersInRange
    <2>2. known' \subseteq Providers' /\ late' \subseteq Providers'
      BY <1>1, <1>b DEF TypeOK, Providers
    <2>3. result' \in {"none", "ok", "error"}
      BY <1>1
    <2> QED
      BY <1>1, <1>b, <2>1, <2>2, <2>3 DEF TypeOK, Providers
  <1>3. TakenIsTold' /\ OkIsTrue'
    BY <1>1 DEF TakenIsTold, OkIsTrue
  <1>4. ASSUME ~unanswered'
        PROVE  \A q \in 1 .. i : q \notin healthy
    BY <1>1, <1>4 DEF TypeOK, PassedAreUnhealthy, Providers
  <1>5. PassedAreUnhealthy'
    <2> SUFFICES ASSUME result' = "none", ~unanswered', NEW q \in 1 .. (i' - 1)
                 PROVE  q \notin healthy
      BY <1>b DEF PassedAreUnhealthy
    <2>1. i \in Nat /\ i' \in Nat /\ (i' = i + 1 \/ i' = 1)
      BY <1>1, <1>b
    <2>3. q \in 1 .. i
      BY <2>1, Passed
    <2> QED
      BY <1>4, <2>3
  <1>6. ErrorNeedsReason'
    <2> SUFFICES ASSUME result' = "error", ~unanswered'
                 PROVE  ~accepted' /\ healthy = {}
      BY DEF ErrorNeedsReason
    <2>1. i = rpcUrls /\ ~accepted'
      BY <1>1 DEF TakenIsTold
    <2> QED
      BY <1>4, <2>1 DEF TypeOK, Providers
  <1> QED
    BY <1>2, <1>3, <1>5, <1>6

LEMMA FailoverStep == FailoverInv /\ [Next]_vars => FailoverInv'
  <1> SUFFICES ASSUME FailoverInv, [Next]_vars
               PROVE  FailoverInv'
    OBVIOUS
  <1>c. /\ "timeout" \in DOMAIN Class /\ "already_known" \in DOMAIN Class
        /\ "refused" \in DOMAIN Class /\ "other" \in DOMAIN Class
    BY DEF Class
  <1>t. /\ accepted \in BOOLEAN /\ unanswered \in BOOLEAN
        /\ late # {} => unanswered
        /\ known # {} => accepted
    BY DEF FailoverInv, TypeOK, TakenIsTold
  <1>1. CASE Unsupported
    BY <1>1, BoundsAssumption
       DEF Unsupported, AttemptFails, Class, configVars, FailoverInv, TypeOK,
           Providers, CountersInRange, PassedAreUnhealthy, TakenIsTold, OkIsTrue,
           ErrorNeedsReason
  <1>2. CASE Accepts
    BY <1>2 DEF Accepts, Asking, Returns, configVars, FailoverInv, TypeOK,
                Providers, CountersInRange, PassedAreUnhealthy, TakenIsTold,
                OkIsTrue, ErrorNeedsReason
  <1>3. CASE AlreadyKnown
    <2>1. unanswered
      BY <1>3 DEF AlreadyKnown, Asking, FailoverInv, TakenIsTold
    <2> QED
      BY <1>3, <1>c, <1>t, <2>1, FailureKeeps DEF AlreadyKnown
  <1>4. CASE Refuses \/ Unreached
    <2>1. PICK error \in DOMAIN Class : ProviderFails(error)
      BY <1>4, <1>c DEF Refuses, Unreached
    <2> QED
      BY <1>4, <1>t, <2>1, FailureKeeps DEF Refuses, Unreached
  <1>5. CASE ReplyLost
    <2>1. PICK error \in DOMAIN Class : ProviderFails(error)
      BY <1>5, <1>c DEF ReplyLost
    <2> QED
      BY <1>5, <1>t, <2>1, FailureKeeps DEF ReplyLost
  <1>6. CASE TimesOut
    BY <1>6, <1>c, <1>t, FailureKeeps DEF TimesOut
  <1>7. ASSUME NEW p \in Providers, DeliverLate(p) \/ Gossip(p) \/ Forget(p)
        PROVE  FailoverInv'
    BY <1>7 DEF DeliverLate, Gossip, Forget, configVars, FailoverInv, TypeOK,
                Providers, CountersInRange, PassedAreUnhealthy, TakenIsTold,
                OkIsTrue, ErrorNeedsReason
  <1>8. CASE UNCHANGED vars
    BY <1>8 DEF vars, configVars, FailoverInv, TypeOK, Providers, CountersInRange,
                PassedAreUnhealthy, TakenIsTold, OkIsTrue, ErrorNeedsReason
  <1> QED
    BY <1>1, <1>2, <1>3, <1>4, <1>5, <1>6, <1>7, <1>8 DEF Next, Ask

LEMMA FailoverInvariant == Spec => []FailoverInv
  BY FailoverInit, FailoverStep, PTL DEF Spec

(* An error is told only after an unanswered request, or when nobody took  *)
(* the transaction and no provider was healthy: with replies that arrive,  *)
(* failover finds a healthy provider wherever it stands in a list of any   *)
(* length (rpcCall, rpcCallWithRetry).                                     *)
THEOREM ErrorsHaveReasons == Spec => []ErrorNeedsReason
  <1>1. FailoverInv => ErrorNeedsReason
    BY DEF FailoverInv
  <1> QED
    BY <1>1, FailoverInvariant, PTL

(* Every step of the loops, of late requests and of the providers among    *)
(* themselves is a step of the promise or none: "ok" is told once, and     *)
(* only with the transaction taken (broadcastTransaction).                 *)
THEOREM FailoverImplementsBroadcast == Spec => ImplementsBroadcast
  <1> USE DEF Promise!Init, Promise!Next, Promise!vars, Promise!Accept,
              Promise!AnswerOk, Promise!AnswerError
  <1>1. Init => Promise!Init
    BY DEF Init
  <1>2. FailoverInv /\ [Next]_vars => [Promise!Next]_Promise!vars
    <2> SUFFICES ASSUME FailoverInv, Next
                 PROVE  [Promise!Next]_Promise!vars
      BY DEF vars
    <2>t. /\ accepted \in BOOLEAN
          /\ result = "ok" => accepted
          /\ result \in {"none", "ok", "error"}
          /\ known # {} => accepted
      BY DEF FailoverInv, TypeOK, OkIsTrue, TakenIsTold
    <2>e. \A error : ProviderFails(error) \/ AttemptFails(error)
                        => result' = result \/ result' = "error"
      BY DEF ProviderFails, AttemptFails
    <2>1. CASE Unsupported \/ AlreadyKnown \/ Refuses \/ Unreached \/ TimesOut
      BY <2>1, <2>e DEF Unsupported, AlreadyKnown, Refuses, Unreached, TimesOut, Asking
    <2>2. CASE Accepts
      BY <2>2 DEF Accepts, Asking, Returns
    <2>3. CASE ReplyLost
      BY <2>t, <2>e, <2>3 DEF ReplyLost, Asking
    <2>4. ASSUME NEW p \in Providers, DeliverLate(p) \/ Gossip(p) \/ Forget(p)
          PROVE  [Promise!Next]_Promise!vars
      <3>1. CASE accepted
        <4>1. UNCHANGED <<accepted, result>>
          BY <2>t, <2>4, <3>1 DEF DeliverLate, Gossip, Forget
        <4> QED
          BY <4>1
      <3>2. CASE ~accepted
        BY <2>t, <2>4, <3>2 DEF DeliverLate, Gossip, Forget
      <3> QED
        BY <3>1, <3>2
    <2> QED
      BY <2>1, <2>2, <2>3, <2>4 DEF Next, Ask
  <1> QED
    BY <1>1, <1>2, FailoverInvariant, PTL
       DEF Spec, ImplementsBroadcast, Promise!Spec

=============================================================================
