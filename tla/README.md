# BrokeTurnkey: TLA+ models, model-checking runs and proofs

BrokeTurnkey is a wallet service: a NestJS API keeps organizations, wallets,
signing requests and nonces in PostgreSQL, a Go sidecar (with Vault behind it)
keeps the keys and signs, and JSON-RPC providers reach EVM chains. This
directory models the parts whose correctness depends on what runs between two
awaits, two polls or two processes (where money can be sent twice, a nonce lost
or a row left behind) and the parts that decide who may have what signed: API
keys, policies, and the sidecar's limits.

Contents: 1 inventory, 2 modules and code, 3 runs, 4 fairness, 5 proofs,
6 disagreements between code and documentation, 7 assumptions, 8 what is not
modelled, 9 plan.

## 1. Inventory

| Component (source) | State | Operations | Hard behaviour | What makes it correct |
|---|---|---|---|---|
| Signing pipeline (`libs/wallet/src/wallet.service.ts`, `requestSign`) | `signing_requests`, one row per idempotency key | fast path, policy, fees, insert or take over the row, reserve, sign, store, broadcast, mark, audit | concurrent identical requests; a broadcast whose reply is lost; a process that dies between two writes | one payment per key, replies tell the truth, no row is stranded |
| Nonce allocator (`wallet-nonce.repository.ts`, `GasService.syncNonce`) | `wallet_nonces.nonce` | reserve (upsert), release (conditional decrement), syncFromChain (conditional raise) | a release after a later reservation; a pending count read earlier and written later | no nonce is used twice, none is skipped |
| RPC client (`libs/gas/src/gas.service.ts`, `error-classifier.ts`, `chain.service.ts`) | providers per chain | retry over attempts and providers, error classification | a lost or late reply; "already known" after one's own lost reply | a result is what some provider did, an error has a reason, the caller is answered |
| Fee estimation (`gas.service.ts`) | none | percentiles, caps, multipliers | rounding, empty histories | tiers are ordered, caps hold |
| Monitor and speed-up (`libs/monitor`) | the same rows; per poll the batch it read | poll, receipt, lookup, confirm, fail, drop, replace | polls overlap; rows read minutes ago are written by id; original and replacement compete | `confirmed` means paid, replacements do not pay twice, every row is settled |
| Onboarding (`organizations.service.ts`, `onBoardOrganization`) | organization, seed, first wallet, bootstrap token | create | four writes and a sidecar call without a transaction; two creations of one slug | a token is only given for a complete organization |
| Wallet derivation (`deriveWallet`) | `wallets` | count, derive, insert, retry on 23505 | concurrent counts; three attempts | indices are dense, the reply names the caller's own wallet |
| API keys and bootstrap token (`libs/auth`) | `api_keys`, `bootstrap_token_hash` | register, revoke, scopes | token checked and cleared in two steps; revocation against a request under way | a token registers one key, revoked keys stop working |
| Stamp verification (`stamp-verifier.guard.ts`) | `last_used_at` | checks in order, background update | the update arrives after a revocation | an inactive key is refused, bookkeeping changes nothing else |
| Policy engine (`libs/policy`) | `policies` | create with normalisation, delete, evaluate | policies change while a call runs; spellings of one address; calldata shorter than a selector | a signed transaction obeys every rule in force, as it was written; default deny |
| Message signing (`signing.service.ts`) | settings | EIP-712 lists, personal messages | empty lists, spellings | only listed messages are signed |
| Sidecar limits (`cmd/crypto/limits.go`, `handlers.go`) | settings | load, parse, validate | zero, unset and empty limits | a second, independent refusal |
| Vault token (`cmd/crypto/vault.go`) | token and lease | login, renewal loop, Transit calls | lost replies, failed renewals, the max TTL | the token is renewed before it expires |
| Cryptography (`cmd/crypto/crypto.go`, `signing.go`) | none | derive, encrypt, sign | byte formats | out of a model checker's reach |
| Users, audit log, controllers, throttling, logging | independent rows | CRUD and I/O | none of their own | - |

Interactions. A `POST /wallets/:id/sign` runs the pipeline: it calls the policy
engine, the RPC client (fees, broadcast), the sidecar (sign), and writes
`signing_requests` and `wallet_nonces`. The monitor, started by a timer in the
same process, reads the rows the pipeline left `broadcasted` and writes the same
rows. Pipeline and monitor share nothing else but the chain. `POST
/organizations` creates what a later `POST /wallets` needs: the bootstrap token it
returns registers the first API key, and every other call passes the guards with a
key. Policies are read by the pipeline at one moment of a call and may be created
or deleted at any other. The sidecar checks its own limits on every signature,
whatever the API decided, and needs Vault (hence its token) to open a seed.

The hazards list of `PROJECT.json` names, line by line, where these behaviours
bite and which property watches each of them.

## 2. Modules and how they correspond to the code

| Module | Stands for | Extends |
|---|---|---|
| `Ledger` | the chain behind the providers, external | - |
| `SigningPipeline` | `requestSign`, the nonce repository, `syncNonce` | `Ledger` |
| `TxMonitor` | pipeline and monitor together | `SigningPipeline` |
| `NonceDispenser` | abstract: what the nonce allocator promises | - (instantiated by `SigningPipeline`) |
| `WalletProvisioning` | `create`, `onBoardOrganization`, `deriveWallet` | - |
| `ApiKeys` | guards, registration, revocation, bootstrap token | - |
| `PolicyEngine` | rules: validation, normalisation, evaluation, as operators | - |
| `SignerLimits` | the sidecar's limits, as operators | `PolicyEngine` |
| `SigningGate` | API and sidecar deciding on signatures while policies change | `SignerLimits` |
| `Broadcast` | abstract: what `broadcastTransaction` promises | - (instantiated by `RpcFailover`) |
| `RpcFailover` | `rpcCallWithRetry`, `rpcCall`, `classifyError` | - |
| `VaultToken` | login, renewal loop, Transit calls | - |
| `MCSigning`, `MCMonitor`, `MCApiKeys`, `MCSigningGate` | symmetry sets and small instances for TLC | the module they check |
| `SigningPipelineProofs`, `IdempotencyProofs` | proofs about the pipeline | `SigningPipeline` |
| `TxMonitorProofs` | proofs about pipeline and monitor together | `TxMonitor`, `IdempotencyProofs` |
| `WalletProvisioningProofs`, `ApiKeysProofs`, `SigningGateProofs`, `RpcFailoverProofs`, `VaultTokenProofs` | proofs about the module they are named after | that module |

Every handler is cut at its awaits: one action is what Node runs without giving
way, ending with one database statement or one remote call. `pc[r]` names the
await at which request `r` stands, or how it ended.

**Ledger.** One account on one chain. A transaction is a record: payment, nonce,
the request that had it signed, which fee bump it is and the fee the bump offers; the
record stands for the hash. `pool`, `mined`, `reverted`, `chainNonce` are what the four RPC methods
used by `gas.service.ts` can tell; `accepted` is a history variable. `Mine` takes
the transaction with the next nonce and removes its competitors; `Evict` forgets
one. An earlier transaction with the same nonce stays in the pool beside its
replacement, because some other node may still hold it. `Faults` selects the
failures of the environment: `lost_reply`, `evict`, `revert`, `crash`.

**SigningPipeline.** `rows` is `signing_requests` by idempotency key, `counter` is
`wallet_nonces.nonce`. The actions carry the step numbers of the comments in
`requestSign`: `FindByIdempotencyKey` (2), `EvaluatePolicy` (3), `EstimateFees`
(4), `CreateRow`, `FindRaced`, `ResetRow` (5), `ReserveNonce`, `StorePayload` (6),
`SignTransaction`, `MarkSignFailed`, `ReleaseNonce` (7), `StoreSigned` (8),
`BroadcastAccepted`, `BroadcastFails`, `BroadcastReplyLost`, `MarkBroadcasted`,
`MarkBroadcastedThrows`, `MarkBroadcastFailed` (9), `Audit` (10, 11). `SyncRead`,
`SyncWrite`, `SyncFails` are the fire-and-forget `syncNonce`. `Crash` ends a
request at any await. Two details of the code matter and are kept: `update()`
ignores fields passed as `undefined`, so a row that is taken over keeps its old
hash, reason and attempts; and every update is keyed by id alone, so it applies
whatever the row has become.

**TxMonitor.** Adds the polls. A poll copies the broadcasted rows (`seen`) and
works through them (`todo`, `cur`); decisions use the copy, updates the table.
`FetchReceipt`, `Confirm`, `MarkReverted`, `LeaveYoung`, `FindStuck`, `LookUp`,
`MarkDropped`, `RpcFails` are `processRow`; `GiveUp`, `EstimateBump`,
`SignReplacement`, `ReplacementAccepted/Fails/ReplyLost`, `RecordReplacement`,
`MarkSpeedUpFailed` are `SpeedUpService.speedUp`. With two members in `Polls`, two
cycles overlap, as `setInterval` allows. Age is abstracted to "over the threshold
or not", so a row may be found stuck at any time. `EstimateBump` takes the fee from
`Fees`, whatever the attempt: two polls that read the same attempts therefore send two
transactions, or one and the same when their estimates agree. The fee only tells
replacements apart; which of them a node takes is the node's choice.

**WalletProvisioning.** One slug, concurrent creations of it and concurrent
derivations for the organization. `wallets` maps an index of the derivation path to
the call that inserted the wallet; the address is a function of seed and index.
`start` is a history variable for the retry property. Derivations are guarded by
`token`: a caller needs an API key, hence a bootstrap token that was handed out.

**NonceDispenser.** What requests may rely on, without SQL, releases or syncs: a
client takes a nonce nobody holds and nobody used, uses it, or gives it back unused.
`SigningPipeline` maps `held` to the nonces its requests hold and `used` to the
nonces of accepted transactions; `ImplementsDispenser` is the refinement, checked by
`signing_safety` and proved.

**ApiKeys.** Concurrent calls of several organizations. A call arrives with a stamp,
a bootstrap token, both or neither (`Arrive`) and passes `StampVerifierGuard` and
`ScopesGuard` (`GuardRefuses`, `GuardOptional`, `GuardPasses`); what the guard read is
then used without being read again. A registration resolves the organization,
validates the token or asks `hasScope`, inserts, clears the token and audits, in that
many awaits; a revocation finds, updates and audits. `TouchWrites` and `TouchFails` are
the fire-and-forget update of `last_used_at`. A key row has two identifiers, `RowId`
and `KeyId`, because the code confuses them (section 6). Of a stamp only the key is
kept: format, time window and signature are the guard's choice to refuse.

**PolicyEngine, SignerLimits, SigningGate.** Addresses and selectors are text in the
API and in the settings, so they are *written* names: a name and the case it is
written in. `Normalised`, `Recipient`, `AllowedTo`, `ListedContracts` are the places where
the code lower-cases, each on its own. `EvaluateRule` has the five rule types; calldata
is its length and its first four bytes, because `evaluateRule` and
`validateSignTxLimits` draw the line at different lengths. `SigningGate` runs calls of
the three signing routes through wallet lookup, evaluation, audit, fee estimate and
sidecar while organizations create and delete policies and time passes. Its properties
compare the outcome with a reference (`Forbids`, `WithinLimits`, `MessageListed`) that
speaks of names only, over what the authors wrote.

**Broadcast, RpcFailover.** `RpcFailover` is one `eth_sendRawTransaction` through the
two loops. A provider accepts, refuses, is not reached, takes the transaction and loses
the reply, or is aborted after 10 s with the request still on its way (`DeliverLate`);
nodes pass the transaction on and forget it. `healthy` providers take a valid
transaction and answer in time. `Broadcast` is the promise `SigningPipeline` and
`TxMonitor` are built on: "ok" means that some provider took it, "error" means nothing.
A late delivery is an acceptance after the error; in the pipeline it is
`BroadcastReplyLost`, where acceptance and error are one step, which differs only in
when the transaction enters the pool.

**VaultToken.** Seconds are counted down: `ttl` and `maxLeft` at Vault, `sleep` of the
renewal goroutine, `waited` for a call under way. Vault's part of a call and the reading
of its reply are two steps, so a lease starts before the sidecar knows of it, and a lost
reply is a renewal that took place. Near the max TTL Vault grants what is left.

## 3. Runs

Passing runs:

| Run | Instance | Shows |
|---|---|---|
| `signing_safety` | 3 requests, 2 keys, lost replies, evictions, crashes | 9 invariants and 2 action properties of nonces, idempotency, rows and replies; the refinement `ImplementsDispenser` |
| `monitor_safety` | 2 requests, 2 keys, 1 poll, 2 speed-ups, 1 fee, every fault | `ConfirmedIsPaid`, `AuditTrailIntact`, `DroppedAloneIsUnpaid`, `SharedNonceOnlyAfterFailure` |
| `monitor_overlap` | 2 requests, 1 key, 2 polls, 1 speed-up, 2 fees, evictions, reverts | `PaidTwiceOnlyAfterFailure`, `AuditTrailIntact`, `GiveUpIsEarned`, `SettledRowIsLeft`, with polls that overlap |
| `monitor_liveness` | 2 requests, 1 key, 1 poll, lost replies, evictions, reverts, fairness | no row stays pending, signed or broadcasted |
| `wallets` | 2 creations, 3 derivations, 2 attempts, crashes, fairness | dense indices, truthful replies, earned refusals, termination |
| `access` | 3 calls of any kind, 2 organizations, crashes | revocation takes effect and is final, the token works once, keys stay in their organization |
| `policy` | 1 call, 2 policies, 1 deletion, 2 organizations, 10 policy bodies, 8 transactions, 3 environments, clock 0..1 | nothing forbidden is signed, nothing without a policy, nothing beyond the settings, no refusal without a reason |
| `rpc` | 0 to 4 providers, any set of them healthy, 3 attempts, fairness | errors have a reason, the caller is answered, the refinement `ImplementsBroadcast` |
| `vault` | TTL 20 s, max TTL 50 s, timeout 2 s, 3 login attempts | a Transit call is refused for its token only after a failed renewal or at the max TTL |

Violation runs (section 6): `signing_double_pay`, `signing_gap`, `access_scope`.

Why the bounds are enough. Three requests are the smallest number with which one
fails and two others race for its row; two keys let the account's nonces interleave
between payments. Two speed-ups separate "the original" from "the last replaced"
hash. Two polls are what it takes for one to act on a copy the other made stale, and
two fees for them to send different replacements of one attempt. Polls that overlap and
rows that wait behind one another are too many states for one run: `monitor_overlap` has the
former, `monitor_safety` the latter, and every property of either is proved for any number
of polls, payments, fees and attempts.
`MaxAttempts` is 2 in `wallets` (3 in the code) so that three derivations reach the
refusal; `MaxAttempts` is a constant and the safety properties are proved for every
value. The only other counters, nonces and bumps, are bounded by the number of
requests and by `MaxSpeedUps`: no state constraint is used. In `access`, three calls
are one that registers, one that revokes and one that is caught in between; all of its
properties are proved for any number. In `policy`, two policies let one allow what the
other forbids and one be deleted while the other stands; the transactions cover both
sides of every rule: each spelling, value at and above the limit, 0, 3 and 4 bytes of
calldata, a listed and an unlisted chain, and the environments have limits set, unset
and empty. `rpc` uses four of the five possible providers; one more adds states of the
same kind. In `vault` the lease is 20 s for an hour, with the quarter of it (5) above
two timeouts (4) as in the deployment (900 above 20), and the max TTL (50) is reached
after two full renewals, with shrinking leases down to one second; the property is
proved for every TTL.

Deadlock checking is on in `vault`, where the process can always be restarted, and off
elsewhere: the instances have finitely many requests and
calls, and a behaviour in which all were answered and the chain is quiet really
stops. That nothing stops too early is what the liveness properties say.

Symmetry is used only in runs without liveness properties; the permuted sets
appear in no `CHOOSE` and no ordering.

The properties worth reading first:

- `NonceNeverUsedTwice`, `HeldNoncesDistinct`, `NoNonceSkipped`,
  `CounterMovesBackOnlyOverUnsent`: the three SQL statements on the counter are
  enough, although each request's reserve, release and sync are far apart.
- `SyncNeverMovesCounter`: as long as requests alone send, `syncNonce` never has anything to
  do. In particular it cannot repair a gap.
- `SharedNonceOnlyAfterFailure`: of these, `NonceNeverUsedTwice`,
  `CounterMovesBackOnlyOverUnsent`, `SyncNeverMovesCounter` and the refinement
  `ImplementsDispenser` are about requests alone and false beside the monitor, whose
  speed-ups use nonces they did not reserve. This is what remains there: requests share a
  nonce only after a row of theirs failed (sections 5 and 6).
- `SettledRowIsLeft`: a request that lost the race and goes on late never writes the row the
  monitor already drives.
- `GiveUpIsEarned`: the attempts counter, written back from stale copies and inherited by
  retries, never overstates what was sent.
- `OneWorkerUntilFailure`, `SentTwiceOnlyAfterFailure`: what the unique index gives.
  Their qualification "until the row has failed" is essential: the unqualified
  forms are violated (section 6).
- `ConfirmedIsPaid`: whatever overlaps, a row says `confirmed` only if its payment is
  in a block and did not revert.
- `SignedIsPermitted`, `RefusalIsEarned`: the two directions of "the gate does what the
  rules say", for rules and settings as people wrote them.
- `ErrorNeedsReason`: with replies that arrive, an error from `broadcastTransaction` is the
  truth and no healthy provider was left out, although errors of all providers but the
  last are discarded and "already known" is classified as permanent.
- `BroadcastedIsSettled`: a row leaves `broadcasted`, although every single RPC call
  may fail, as long as providers answer again and again.

## 4. Fairness

`Step(r)`, `Sync(r)`, `Create(c)`, `Derive(d)`, `PollStep(p)` are weakly fair: Node
runs every continuation that is ready, and every remote call of these handlers ends
(HTTP timeouts in the crypto client and the RPC client, the database driver's
errors). Arrival of a request and crashes are not fair: nobody has to call.
`StartPoll(p)` is weakly fair because the interval timer keeps firing.
`FetchReceipt`, `FindStuck`, `LookUp` and `EstimateBump` are strongly fair: a provider
may fail or a row be young any number of times, but not each time for ever. Under
weak fairness alone nothing would follow, since each failing call disables the
action. In `FairSpec` the chain mines what is at the head of the account's nonces;
`monitor_liveness` needs no fairness of the chain, because an unmined row is
eventually given up. Crashes are excluded from `monitor_liveness`: nothing in the
code resumes the row of a dead request (section 6).

In `rpc` the loop's step `Ask` is weakly fair: every fetch is aborted after 10 s and the
back-off is a timer. What nodes do on their own (`Gossip`, `Forget`, `DeliverLate`) is not.
`ApiKeys`, `SigningGate` and `VaultToken` have safety properties only.

## 5. Proofs

All theorems hold for every set of requests, keys, calls, polls and providers, every
fault set and every budget of retries and speed-ups. Every safety invariant, action property and refinement that a
passing run checks is also stated by a theorem. The only assumptions are the named ones of the modules:
`FaultsAssumption`, `NoTxAssumption` (NULL is not a hash), `MonitorAssumption` (the budget
and the fees are numbers), `ProvisioningAssumption` (at
least one attempt; creations and derivations are different calls), `NoneAssumption` (an
absent header is no organization and no key), `RequestAssumption` and
`EnvironmentAssumption` (requests and settings have the form that DTOs and start-up
checks enforce; a parsed allow-list holds no absent value), `BoundsAssumption` (at least
one attempt) and `VaultAssumption` (a quarter of the lease is longer than two
timeouts). TLC evaluates them in the runs.

*Nonces* (`SigningPipelineProofs`). Proved: `TypeOK`, `HeldNoncesDistinct`,
`NonceNeverUsedTwice`, `NoNonceSkipped`, `CounterMovesBackOnlyOverUnsent`,
`SyncNeverMovesCounter`, all of `Spec`, in which requests alone send (what of them
holds beside the monitor is said below). `HeldNoncesDistinct` is not inductive: a release sets the
counter to a nonce, so everybody else's must be below it (`HeldBelowCounter`); a
sync writes a number read earlier, which is harmless only because it counts
transactions that were accepted (`SyncCountsAccepted`), whose senders hold their
nonces for ever (`AcceptedBySender`, `ChainFromAccepted`). `NonceInv` is the
conjunction, over the type invariant `TypeInv`, which also says at which awaits a
request has a nonce. From the same invariant follows the refinement
(`PipelineImplementsDispenser`): every action of the pipeline is a step of
`NonceDispenser` or leaves held and used nonces alone.

*Idempotency* (`IdempotencyProofs`). Proved: `OneWorkerUntilFailure`,
`SentTwiceOnlyAfterFailure`, `UnfinishedRowHasWorker`, `OkMeansAccepted`,
`BroadcastedRowIsOnChain`. A request that has left the working awaits still counts
(`OneEntered`), because what it sent stays sent; a request about to take a row over
found it failed, and a reason is never cleared (`TakeoverAfterFailure`,
`FailedHasReason`); together with what was accepted and by whom they make `RowInv`.
`ContentInv` adds that payload and hash in the row are the worker's own until it
fails, which is what the separate updates of the row have to preserve.

*Monitor* (`TxMonitorProofs`). Proved of `MonitorSpec`, in which requests and any number
of overlapping polls write the same rows: `ConfirmedIsPaid`, `PaidTwiceOnlyAfterFailure`,
`GiveUpIsEarned`, `AuditTrailIntact`, `DroppedAloneIsUnpaid`, `SharedNonceOnlyAfterFailure`,
`SettledRowIsLeft`, and the type invariant `MonitorTypeOK`. None of them is inductive, because a poll decides on a copy of the row and
writes without looking again. The argument is that a row which never failed has one
sender (`SoleSender`, from `OneEntered` of `IdempotencyProofs`), and that for a sole sender
copy and row cannot drift apart in what matters: the sender has written the row for the
last time before any poll can read it as `broadcasted` (`Settled`); all accepted
transactions of the payment are the sender's first one and bumps of it, with one nonce
(`OneNonce`), so the chain takes at most one (`ChainInv`); and hash, payload, attempts and
original hash fit together in the row (`BroadcastedIsSound`) and in every copy
(`CopyIsSound`), whichever of two polls writes last. `GiveUpIsEarned` needs no sole sender:
rows and copies count no attempt for which no replacement was accepted (`AttemptsEarned`),
which recording a stale count plus one preserves. `PollsInv` says what a poll has found
out at each await: a receipt without revert before `confirm`, attempts below the budget
while it speeds up, a payment out of the chain's reach before `drop`. `Inv` is these with
`TypeInv`, `RowInv` and `ContentInv` of the pipeline, which the polls are shown to keep.

Results about the composition come with it. `PipelineSafeBesideMonitor`:
`OneWorkerUntilFailure`, `UnfinishedRowHasWorker`, `OkMeansAccepted` and
`BroadcastedRowIsOnChain`, proved of the pipeline alone above, also hold beside the
monitor. `HeldNoncesDistinctBesideMonitor`: so does `HeldNoncesDistinct`, although
replacements take a nonce without reserving it. Four others are theorems of the pipeline
alone and false beside the monitor: `NonceNeverUsedTwice`, `CounterMovesBackOnlyOverUnsent`
and `ImplementsDispenser`, for which TLC has a counterexample under `MonitorSpec` with three
requests for one key, one poll, one speed-up and no fault at all, and `SyncNeverMovesCounter`,
which takes a lost reply in addition. Section 6 has the behaviour behind all four. Two
theorems say what is left. `NonceSharedOnlyAfterFailure`: a nonce is shared by two requests
only if a row of theirs failed, since a row that never failed has a sole sender, whose
transactions have the nonce it holds (`OneNonce`). `NoNonceIsSkippedBesideMonitor`:
`syncNonce` then does raise the counter, but only over nonces some request was given,
because every nonce the chain, a row or a poll's copy knows was handed out once
(`NoncesHandedOut`).

`SettledRowsAreLeft` is about the other direction, requests disturbing the monitor: of the
requests for a key that never failed one has entered, which has left the row when it says
`broadcasted`, and those about to take a row over have seen it fail. That polls leave a
confirmed row alone is not claimed: with two of them it is false (section 6).

The proof corrected a property. `DroppedAloneIsUnpaid` used to speak of every dropped row with
one accepted transaction. That is false for three requests with one key: a row fails, two
retries take it over, one of them is accepted and mined while the other has stored its own
hash in the row and not yet broadcast, and the poll drops the row for want of that hash.
Two requests, as in `monitor_safety`,
do not reach it. The property now speaks of rows with a sole sender, and section 6 lists
the behaviour.

*RPC client* (`RpcFailoverProofs`). Proved: `ErrorNeedsReason`, for any number of providers and
attempts, and the refinement `ImplementsBroadcast`. An error is told by the last provider
alone, so the invariant says what the others did: within an attempt those already passed
were not healthy, unless a request went unanswered (`PassedAreUnhealthy`); and a
transaction taken while every request was answered was answered "ok" (`TakenIsTold`), so
"already known", which ends the loops as a permanent error, is met only after a lost reply.

*Provisioning* (`WalletProvisioningProofs`). Proved: `TypeOK`, `IndicesDense`,
`ReplyIsOwnWallet`, `ConflictNeedsWinners`, `TokenAfterOnboarding`. `WalletInv` says
that the indices are exactly 0..n-1 and every count read earlier is at most n
(`Dense`), so that an insert at a free index is an insert at n; that each failed
attempt was overtaken by one more wallet (`Overtaken`); who owns what
(`OwnsItsIndex`); and how far onboarding is at each await (`Onboarding`). It uses the
cardinality of intervals from `FiniteSetTheorems`.

*Access* (`ApiKeysProofs`). Proved: `RevocationIsEffective`, `TokenIsOneTime`,
`KeysStayInOrg`, `RevokedStaysRevoked`. The first two speak of calls that arrived after an
answer, so the invariant ties an answer to what it left in the table: an answered
revocation has its key revoked, an answered registration has its token cleared, and a
call can only be past a check that the table then still allowed.

*Signing gate* (`SigningGateProofs`). Proved: `SignedIsPermitted`, `DefaultDeny`,
`SignedWithinSettings`, `RefusalIsEarned`, for all rules, transactions, settings and any number of policies,
deletions and calls. `AllowedIsPermitted` compares `EvaluateRule` on the stored rule with
`Forbids` on the written one; they differ for calldata shorter than a selector, which the
sidecar stops (`ShortDataStopped`): that theorem needs both layers. `GateInv` carries the
decision from evaluation to signature (`Decided`): rows are never rewritten
(`RowsAsAsked`) and become inactive only through their owner (`InactiveByOwner`).
`RefusalIsEarned` is the other direction. A denial is justified when it is made
(`DenialIsEarned`, `MessageDenialIsEarned`); that the justification lasts until the answer and
after it rests on what no step can do to policies, settings and the clock (`Evolves`).

*Vault* (`VaultTokenProofs`). Proved: `RefusedOnlyAfterLostRenewal`. The margin is created
when a reply is read (`ReplyFresh`: at most one timeout of the new lease is over), lasts
through the sleep (`MarginKept`: the token outlives the sleep and one more call) and is
the reason for the assumption of two timeouts.

*Only model-checked*: the liveness properties `UnfinishedRowIsResolved`,
`BroadcastedIsSettled`, `DerivationEnds` and `CallerIsAnswered` (fairness and `ENABLED` are out
of the prover's reach), and the violations of section 6, which are counterexamples and
need no proof.

## 6. Where code and documentation disagree

Each is a run in which TLC finds the behaviour; `PROJECT.json` quotes the lines.

- `signing_double_pay`: a broadcast is accepted, its reply is lost, the row becomes
  `failed`; the client's retry reserves a fresh nonce and pays again.
- `signing_gap`: a request's broadcast fails after it reserved nonce 0, another is
  accepted with nonce 1 and answered `broadcasted`: nobody uses nonce 0 again, so it is
  never mined. Gaps are not harmless.
- `access_scope`: a registration stamped with a key that has `key:write` is refused: the
  controller passes the row's `id` to `hasScope`, which looks for `key_id`. After the
  first key, which the bootstrap token registers, no further key can be registered.

Also visible in the models, without a run of their own.

Signing and monitor:
- two retries of one failed row both read `failed`, both reset the row by id and both
  send; docs/API.md says that the loser of a race returns the winner's result. That is
  why `OneWorkerUntilFailure` is qualified;
- after a speed-up the original may be the one that is mined; the replacement's hash is
  then unknown to every node and the paid row becomes `dropped` with the reason "not
  found on-chain or in mempool". `DroppedAloneIsUnpaid` excludes this for rows with one
  transaction only;
- two retries of a failed row may also leave the hash of the one that was not broadcast in
  the row while the other's transaction is mined: that row is dropped, too, although paid;
- for the same reason a row may be `broadcasted` by one retry while its payload holds the
  nonce of the other. A speed-up then sends the first one's payment with the second one's
  nonce: both compete for it, and when the second one's signing fails its nonce is given
  back although it was sent, until `syncNonce` raises the counter again. So beside the
  monitor "the guarantee that matters is that a nonce is never used twice"
  (wallet-nonce.repository.ts:14-15) does not hold after a failure. To reproduce: check
  `NonceNeverUsedTwice` under `MonitorSpec` with `Keys = {k1}`, `Requests = {r1, r2, r3}`,
  `Polls = {p1}`, `MaxSpeedUps = 1`, `Fees = {1}`, `Faults = {}`;
- a retried row keeps the `failure_reason` and the speed-up attempts of its first life,
  so it can be given up at its first stuck poll;
- a transaction mined between the receipt query and the lookup is sped up, since the lookup
  does not tell mined from pending. The replacement's nonce is used, so the providers refuse
  it, and the paid row is marked `failed`: a retry of the client then pays again;
- two polls that read the same `speed_up_attempts` send one replacement each, and the second
  record overwrites the first: with `MAX_SPEED_UP_ATTEMPTS` at 1 two replacements are
  accepted, although docs/TASKS.md:534 describes the setting as "Speed-ups before marking
  failed". The budget bounds the counter, not what is sent;
- with overlapping polls a confirmed row can be overwritten: one that read the row earlier
  and found the transaction before it was mined still records its replacement, or fails the
  row;
- a row whose request died stays `pending` or `signed` and answers every retry as
  `existing`; a `dropped` row is never retried, because only `failed` rows are taken over;
- a speed-up signs without evaluating the policies again, and bumps a fresh estimate, not
  the fees it replaces.

Onboarding and access:
- when the sidecar fails during creation, the organization keeps its slug without seed or
  token, and the slug answers 409 for ever;
- two registrations that overlap may both use the one-time token, and a crash between the
  insert of the key and the clearing of the token leaves the token valid.
  `TokenIsOneTime` is therefore about calls that arrive after a success;
- the API description of `POST /api-keys` says that bootstrap registrations default to
  `["*"]`; the code gives a list without `wallet:sign`;
- `expires_at` is checked by the guard and never set.

Policies and limits:
- docs/HOW_IT_WORKS.md says that `calldata_allowlist` rejects non-empty calldata unless
  listed; `evaluateRule` lets one to three bytes pass, and only the sidecar stops them;
- the same list names a `rolling_spend` rule the code does not have;
- create-policy.dto.ts says that lower priorities are evaluated first, the query sorts
  them descending; the decision does not depend on it, the reported reason does;
- `appliesTo` is free text: a policy with any other value than `all` or `wallet` is stored
  and applies to nothing;
- policies do not gate message signing, only settings do.

Vault and RPC:
- docs/VAULT.md counts on 15 minutes to retry a failed renewal; the loop sleeps another
  three quarters of the lease, and the token expires first;
- docs/VAULT.md says that Go must log in afresh after the max TTL; nothing does, until the
  process is restarted. Near the max TTL leases shrink to one second, of which three
  quarters round to no sleep: the loop then calls Vault without a pause;
- a chain without providers throws inside the retried call and is retried like an outage.

## 7. Assumptions of the models

- The wallet is fresh and used by this service only: its on-chain nonce and its
  counter start at 0.
- A unique violation is recognised by `err.code === '23505'`, as the handlers and
  `wallet.service.spec.ts` assume of the database driver.
- Signing requests, wallets and seeds are never deleted (the repositories have no such
  operation).
- One account per instance of `SigningPipeline`: rows and counters of different
  wallets or chains share nothing.
- A database statement is atomic; a statement that throws has changed nothing.

- Settings that do not parse stop the sidecar at start, so every environment of
  `SigningGate` is well-formed; DTO validation has the transaction's form checked before
  the first await.
- Keys that were given the legacy scope `*` before it was withdrawn are left out: the guard
  still honours it, no registration can create it, and `TypeOK` of `ApiKeys` has the
  current scopes only.
- A listed EIP-712 contract is a well-formed address, so `Eip712Allowed` needs no check of the
  message's own (`isAddress`, signing.service.ts:211): what is no address is on no list.
- Vault's `renew-self` returns the token it was called with; a token lives for the lease
  granted last, and never beyond its max TTL.

## 8. What is not modelled

Cryptography and byte formats are out of a model checker's reach: signatures of stamps
and transactions, key derivation, encryption, RLP and EIP-712 hashing. HTTP routing, DTO
decorators, throttling, logging and the content of the audit log are I/O without a state
of their own. User CRUD works on independent rows. Fee estimation is arithmetic on the
providers' answers: the models take any estimate, or a failure, in its place. The
stamp's time window is a comparison with the clock; it is part of the guard's choice to
refuse. Widths play no part: amounts are `big.Int` and `bigint`, and chain ids, bounded
by the DTO, fit every type they pass through.

## 9. Plan

Done, in this order: `Ledger`, `SigningPipeline` with its proofs, `TxMonitor`,
`WalletProvisioning`, `ApiKeys`, `SigningGate` with `PolicyEngine` and `SignerLimits`,
`RpcFailover` and `VaultToken`, the refinements to `NonceDispenser` and `Broadcast`, the proofs
of every safety property. Next:

1. An abstract specification of a payment that is sent at most once until it failed,
   implemented by the pipeline.
2. Fee arithmetic of `estimateFees` and of the bump, as operators.
