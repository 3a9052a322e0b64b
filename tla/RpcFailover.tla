----------------------------- MODULE RpcFailover -----------------------------
(***************************************************************************)
(* One eth_sendRawTransaction through rpcCallWithRetry and rpcCall         *)
(* (libs/gas/src/gas.service.ts): the providers in order, the error of the *)
(* last one classified, up to three attempts.  Providers are down, refuse, *)
(* lose their reply, answer after the 10 s are over, pass the transaction  *)
(* on to each other and forget it.                                         *)
(***************************************************************************)
EXTENDS Integers

CONSTANTS
    MaxProviders,  \* RPC_<KEY>_1 .. RPC_<KEY>_5
    MaxRetries     \* 3

ASSUME BoundsAssumption == MaxProviders \in Nat /\ MaxRetries \in Nat \ {0}

VARIABLES
    rpcUrls,   \* how many providers are configured for the chain
    healthy,   \* providers that take a valid transaction and answer in time
    attempt, i,    \* the loops' counters
    known,     \* providers whose node has the transaction
    accepted,  \* history: some provider took it
    late,      \* providers the request still travels to although fetch gave up
    unanswered,  \* history: some request was not answered
    result     \* "none", "ok" or "error"

configVars == <<rpcUrls, healthy>>
vars == <<configVars, attempt, i, known, accepted, late, unanswered, result>>

Providers == 1 .. rpcUrls

\* Every definition below keeps the state in these sets.
TypeOK ==
    /\ rpcUrls \in 0 .. MaxProviders
    /\ healthy \subseteq Providers /\ known \subseteq Providers /\ late \subseteq Providers
    /\ attempt \in 1 .. MaxRetries
    /\ i \in 1 .. MaxProviders + 1
    /\ accepted \in BOOLEAN /\ unanswered \in BOOLEAN
    /\ result \in {"none", "ok", "error"}

Init ==
    /\ rpcUrls \in 0 .. MaxProviders
    /\ healthy \in SUBSET Providers
    /\ attempt = 1 /\ i = 1
    /\ known = {} /\ late = {}
    /\ accepted = FALSE /\ unanswered = FALSE
    /\ result = "none"

-----------------------------------------------------------------------------
\* classifyError, on what the outcomes below are worded as.
Class ==
    [timeout |-> "retryable", already_known |-> "permanent",
     refused |-> "permanent", other |-> "unknown"]

\* Mutation of AttemptFails: the attempts are not counted.
AttemptFailsUncounted(error) ==
    IF Class[error] # "permanent"
    THEN i' = 1 /\ UNCHANGED <<attempt, result>>
    ELSE result' = "error" /\ UNCHANGED <<attempt, i>>

\* Mutation of AttemptFails: "already known" is told as a success.
AttemptFailsPermanentIsDone(error) ==
    IF Class[error] # "permanent" /\ attempt < MaxRetries
    THEN attempt' = attempt + 1 /\ i' = 1 /\ UNCHANGED result
    ELSE /\ result' = IF Class[error] = "permanent" THEN "ok" ELSE "error"
         /\ UNCHANGED <<attempt, i>>

\* rpcCallWithRetry's catch: what the last provider said decides.
AttemptFails(error) ==
    IF Class[error] # "permanent" /\ attempt < MaxRetries
    THEN attempt' = attempt + 1 /\ i' = 1 /\ UNCHANGED result
    ELSE result' = "error" /\ UNCHANGED <<attempt, i>>

\* Mutation of IsLast: the last provider is left out.
IsLastButOne == i >= rpcUrls - 1

IsLast == i = rpcUrls

\* rpcCall's catch: the next provider, whatever the error.
ProviderFails(error) ==
    IF IsLast THEN AttemptFails(error)
    ELSE i' = i + 1 /\ UNCHANGED <<attempt, result>>

Returns == result' = "ok" /\ UNCHANGED <<attempt, i>>

Asking == result = "none" /\ rpcUrls > 0

\* getChain throws for a chain without providers, inside the retried call.
Unsupported ==
    /\ result = "none" /\ rpcUrls = 0
    /\ AttemptFails("other")
    /\ UNCHANGED <<configVars, known, accepted, late, unanswered>>

\* The provider takes the transaction, or has it and says so with its hash.
Accepts ==
    /\ Asking
    /\ known' = known \cup {i} /\ accepted' = TRUE
    /\ Returns
    /\ UNCHANGED <<configVars, late, unanswered>>

AlreadyKnown ==
    /\ Asking /\ i \in known
    /\ ProviderFails("already_known")
    /\ UNCHANGED <<configVars, known, accepted, late, unanswered>>

\* A refusal by the node, in words classifyError knows or not.
Refuses ==
    /\ Asking /\ i \notin healthy
    /\ \E error \in {"refused", "other"} : ProviderFails(error)
    /\ UNCHANGED <<configVars, known, accepted, late, unanswered>>

\* Connection refused, DNS failure, or an HTTP status before any processing.
Unreached ==
    /\ Asking /\ i \notin healthy
    /\ \E error \in {"timeout", "other"} : ProviderFails(error)
    /\ UNCHANGED <<configVars, known, accepted, late, unanswered>>

\* The transaction is taken, but the reply is lost or a gateway error.
ReplyLost ==
    /\ Asking /\ i \notin healthy
    /\ known' = known \cup {i} /\ accepted' = TRUE
    /\ unanswered' = TRUE
    /\ \E error \in {"timeout", "other"} : ProviderFails(error)
    /\ UNCHANGED <<configVars, late>>

\* fetch is aborted while the request is still on its way.
TimesOut ==
    /\ Asking /\ i \notin healthy
    /\ late' = late \cup {i} /\ unanswered' = TRUE
    /\ ProviderFails("timeout")
    /\ UNCHANGED <<configVars, known, accepted>>

Ask == Unsupported \/ Accepts \/ AlreadyKnown \/ Refuses \/ Unreached \/ ReplyLost \/ TimesOut

\* A late request is taken after all.
DeliverLate(p) ==
    /\ p \in late
    /\ late' = late \ {p}
    /\ known' = known \cup {p} /\ accepted' = TRUE
    /\ UNCHANGED <<configVars, attempt, i, unanswered, result>>

Gossip(p) ==
    /\ known # {} /\ p \notin known
    /\ known' = known \cup {p}
    /\ UNCHANGED <<configVars, attempt, i, accepted, late, unanswered, result>>

Forget(p) ==
    /\ p \in known
    /\ known' = known \ {p}
    /\ UNCHANGED <<configVars, attempt, i, accepted, late, unanswered, result>>

Next == Ask \/ \E p \in Providers : DeliverLate(p) \/ Gossip(p) \/ Forget(p)

\* Every fetch ends within its 10 s and every back-off within 2 s.
Spec == Init /\ [][Next]_vars /\ WF_vars(Ask)

-----------------------------------------------------------------------------
(* An error is told only with a reason: some request was left unanswered,  *)
(* or nobody took the transaction and no provider was healthy.  So with    *)
(* replies that arrive an error is the truth, and failover reaches a       *)
(* healthy provider wherever it stands in the list.                        *)
ErrorNeedsReason ==
    result = "error" => unanswered \/ (~accepted /\ healthy = {})

(* The two loops end: whatever the providers do, the caller gets an        *)
(* answer.                                                                 *)
CallerIsAnswered == <>(result # "none")

Promise == INSTANCE Broadcast WITH reply <- result

(* rpcCallWithRetry keeps the promise its callers are modelled with: one   *)
(* answer, "ok" only with a provider that took the transaction.            *)
ImplementsBroadcast == Promise!Spec
=============================================================================
