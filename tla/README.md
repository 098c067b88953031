# ProxyPay: TLA+ models, checks and proofs

This directory holds TLA+ specifications of the parts of ProxyPay where money,
or the permission to move it, passes between actors that do not wait for each
other. TLC checks them on small instances; TLAPS proves the most important
properties for every value of the constants. Paths below are relative to the
root of the repository. `PROJECT.json` lists components, runs, mutants,
hazards, findings and theorems, and maps each definition to the lines it models.

    tlc -workers 2 -config Disputes.cfg MCDisputes
    tlapm DisputesProofs.tla

## 1. Inventory

ProxyPay connects mobile-money providers (MTN, Airtel, Orange) with the Stellar
network. A user asks the API for a deposit or a withdrawal; a row is written to
PostgreSQL and a job published to RabbitMQ (or NATS); a worker calls the
provider and makes the Stellar payment; merchants are told by webhook. Around
that are custody contracts on Soroban, SEP endpoints, disputes, reconciliation,
compliance and some fifty scheduled jobs.

| Component | State it keeps | Operations | Interacts with | What is hard | What makes it correct |
|---|---|---|---|---|---|
| Transaction pipeline (`src/controllers/transactionController.ts`, `src/queue/`) | rows of `transactions`, their metadata, broker messages, timers, `dead_letter_queue` | create, enqueue, cancel, work, requeue, fail, capture, replay | providers, Stellar, webhooks, admins | at-least-once delivery, retries of calls that did happen, check-then-write on the status, errors on four different paths | a completed transaction was accepted and paid; nothing is lost, nothing is duplicated but where broker, restart or operator do it; everything is decided |
| Session request queue (`src/services/mobilemoney/sessionRequestQueue.ts`) | map of queue states, promise chain, locks | enqueue, run, release, clear | Orange and Airtel clients | state objects dropped from the map while continuations still hold them | one request per session at a time, in order, every promise settles |
| Escrow contract (`contracts/escrow`) | one escrow, token balances | initialize, release, refund, emergency and self refund | token contract, ledger | four exits, two clocks, integer overflow | solvent; paid once and in full; the lock is honoured; never stuck |
| HTLC contract (`contracts/htlc`) | one lock, token balances | initialize, claim, refund | token contract, ledger | claim and refund race after the timelock; repeated signers | solvent; receiver first; never stuck |
| Webhook circuit breaker (`src/services/webhookCircuitBreaker.ts`, `webhook.ts`) | a record per destination | acquire, success, failure, reset | deliveries, operators | late answers, resets during a probe, abandoned probes | one probe; closed only on evidence; recovers |
| Orange and Airtel sessions (`src/services/mobilemoney/providers/airtel.ts`) | cached session with its expiry, loop counters of each call | call, log in, refresh, retry, requeue | session queue, provider | several callers refresh, drop and replace one session; a retry around a retry | a rejected session is never used again; retries do not multiply; every call ends |
| Reversal and ledger (`src/services/transactionReversalService.ts`, `ledgerService.ts`, the clawback route) | transaction status, ledger entries, `transaction_reversals`, advisory lock | refund, reverse, claw back, notify again | disputes, admins, notifications | concurrent reversals, failures between commit and status, a status write that throws after it wrote, lagging replica, purge of the row | reversed once and exactly; no false status, record or notice; a retry completes what is missing |
| Disputes (`src/services/dispute.ts`, `src/routes/disputes.ts`) | dispute rows | open, assign, move on, reverse, uphold | reversal | decisions on stale reads | one active dispute; transaction and ledger agree |
| Savings vaults (`src/models/vault.ts`, `vaultController.ts`, `src/utils/lock.ts`) | vault rows, two histories, row lock, Redis lock | create, update, delete, transfer | payments, Redis | a lock that expires under its holder, deactivation and deletion during a transfer, a last write that fails | no lost update; both histories agree; inactive means frozen |
| Stale-transaction watchdog, timeout recovery | alert counters in metadata | scan, query, escalate | pipeline | races with the worker | a stuck row reaches an operator |
| Provider throttle | token bucket, delayed jobs, dead letters | take, delay, release | providers | bucket at its limit | rate kept, nothing dropped |
| Refresh-token families | token generations | rotate, detect reuse, revoke | auth | concurrent refreshes | at most one live token |
| Balance reserve, channel accounts | reservations, checked-out accounts | reserve, check out | payouts | leaked reservations | everything returned |
| E-mail outbox | outbox rows | claim, send | everything | a worker that dies while sending | sent |

The remaining components (KYC, AML, fees, SEP endpoints, reports, caches, API
layer, CLI, deployment) are listed in `PROJECT.json` with the reason why they
are not modelled.

## 2. Modules

| Module | Models | Role |
|---|---|---|
| `Vault` | what a custody contract promises | abstract specification |
| `Escrow`, `MCEscrow`, `EscrowProofs` | `contracts/escrow/src/lib.rs` | implements `Vault` |
| `Htlc`, `MCHtlc`, `HtlcProofs` | `contracts/htlc/src/lib.rs` | implements `Vault` |
| `SessionLine` | what the session queue promises | abstract specification |
| `SessionQueue`, `MCSessionQueue`, `SessionQueueProofs` | `sessionRequestQueue.ts` | implements `SessionLine` |
| `ProviderSession`, `MCProviderSession`, `ProviderSessionProofs` | `providers/airtel.ts`, session-backed requests | extends `SessionQueue`: every queue step is a step of a call |
| `Reversal` | `transactionReversalService.ts`, `ledgerService.ts`, clawback route | the steps of reversing one transaction |
| `Disputes`, `MCDisputes`, `DisputesProofs` | `dispute.ts` and its routes | extends `Reversal` with the workflow that calls it; holds the specification |
| `SavingsVaults`, `MCSavingsVaults`, `SavingsVaultsProofs` | `vault.ts`, `vaultController.ts`, `lock.ts` | |
| `TransactionPipeline`, `MCTransactionPipeline`, `TransactionPipelineProofs` | controller, worker, dead letters, broker | composes API, broker, worker, provider, ledger, admins |
| `WebhookBreaker`, `MCWebhookBreaker`, `WebhookBreakerProofs` | `webhookCircuitBreaker.ts` with the deliveries of `webhook.ts` | |

Definitions named "Faulty variant" are the mutants of `PROJECT.json`. No
specification uses them; each replaces the definition below it to show that the
property really depends on the code.

### Custody contracts

A Soroban invocation is atomic and a failed one is rolled back, so each
operation is one action whose conjuncts are the assertions of the Rust code. The
token contract is a function of balances. `Escrow` keeps `sequence` and `time`
because the lock is measured in ledgers and the unlock in seconds. The fee is
computed as the code does it, product first, and the product must fit `MaxI128`:
a release that would overflow aborts and is therefore not a step. `receipts`
records what left the contract and to whom; `PaidInFull` says it account by
account, so that it also holds where one account has several roles. In
`Htlc` a preimage is only right or wrong, and the signers of a claim are a set, since the host lets an address authorise an
invocation once; the stored vector may repeat an address.

Both modules assume that the contract's own address is none of the accounts
(`Contract \notin Accounts`). Neither `lib.rs` rejects such a beneficiary or
receiver; a contract that names itself would pay its own account, and nothing
here speaks about it.

`Vault` has one deposit and one payout of everything. Both contracts refine it
with the stage computed from the stored flags and `held` from the contract's
balance.

### Session queue

`enqueue` chains `runEntry` on the tail promise of a state object; `release`
removes the key from the map when the object looks idle. The model names a state
object after the request that created it, so that two objects of one key can
exist together, which is what `clear()` can bring about. `Start` and `Finish` are
the two halves of `runEntry` around the awaited task. No provider calls
`clear()`; the history variable `cleared` notes the keys it was called for, and
`OneAtATime`, `MapTracksWork` and `FirstComeFirstServed` speak of the others.
`LockPerObject` and `EveryRequestSettles` hold with `clear()` as well.

`SessionLine` has no objects, promises or map: a line of requests per key, of which
only the first is served. `SessionQueue` implements it with the chain of the object
the map names as the line, the running requests as those served, and `cleared` as
the closed lines. `Accept` is `Join`, `Start` is `Serve`, `Expire` and `Finish` are
`Leave`, `Clear` is `Close`, and `Overflow`, the clock and whatever happens under a
cleared key leave the lines alone. That the object changes from one request to the
next is what the refinement hides.

### Provider sessions

A call is `requestWithSessionAndRetry`: it enqueues a task and, when the queue
rejects it because its session expired while it waited, drops the cached session
and enqueues itself once more. An entry of the queue is one `enqueue()`, so a
call owns two of them, `First` and `Again`. The task is
`performRequestWithSessionAndRetry` with `ensureSession`, `login` and
`refreshSession` inlined; `stage` is the await it stands at and `attempt` its
loop counter. A session is the number of the login that made it, because the code
shares the object by reference: `expiry` is a field of the object, `session` and
`mine[c]` refer to it, and a response may move the expiry of an object that is no
longer cached. The cookies of a response may name any expiry, also one in the past
(`CookieTimes`). What the provider answers is chosen freely: a response, a 5xx, an
answer that says the session is over, or none. `dead` is the history of sessions
answered as over. The queue's `Accept`, `Overflow`, `Start`, `Finish` and `Expire`
are used as they are. Orange has the same code with other paths.

### Reversals and disputes

One transaction, and a set of HTTP requests each of which may be a refund, a
clawback, a repeated notice, or an operation on a dispute. `pc[r]` is the
statement a request is about to execute; a statement is atomic, everything
between two statements interleaves. `booked` is what the ledger holds under the
transaction's reference and `undone` what it holds under `REV-<reference>`, each
as debits less credits per account; the compensating entries are computed from
`snap[r]`, what the request read, not from the ledger at the time of writing. The
advisory lock is `lock`; PostgreSQL frees it at COMMIT or ROLLBACK, and when the
connection dies. Failures are a statement that throws inside the try block of
`reverse()` (`Throw`: the catch block writes `failed`), and one that throws
outside of it or a killed process (`Stop`). `hurt` is the set of requests that met
one, of at most `MaxFaults`.
`ReplicaLag` lets the two reads that go to a replica after the same request has
written return an earlier state.

`updateStatus()` (`src/models/transaction.ts:434`) writes the row and then throws,
because line 488 names `TERMINAL_IDEMPOTENCY_STATUSES`, which nothing defines; it
returns normally only where there is no row. `MarkReversed` is that: the status is
written, `reverse()` lands in its catch block and the record ends as `failed`,
although ledger and status say reversed. Only a purged transaction ends as
`posted`. `Purge` is the cleanup job and the retention policy, which delete old
completed and failed rows; migration 009 dropped the foreign key of `disputes`, so
nothing stops them.

Whether the row can be written at all depends on the database. Migration 009
creates the table anew with `transactions_legacy_status_check`, which admits
neither `dispute` nor `reversed` nor `clawed_back`; the migrations that widen the
check name another constraint. `StatusWidened` says whether the check admits them.
The run sets it, as `database/schema.sql` and these migrations intend; the proofs
cover both values. `RetryMarksReversed` is the only property that needs it.

`DisputeService` uses a field `timelineService` it never defines, so each dispute
operation answers with an error after all its writes. The writes are modelled.

### Savings vaults

One user's vaults and concurrent requests. The handler checks the vault, takes a
Redis lock with a time to live, and runs one database transaction. `SelectForUpdate`
waits for the row lock and makes the checks, `Commit` writes balance, history and
the row in `transactions`, `Rollback` is a failed statement, `Crash` the end of
the process: PostgreSQL frees the row, Redis keeps its key until `LockExpires`. A
transfer whose Redis lock has expired goes on, as nothing tells it. `Payment` is
the rest of the system changing the main balance. `DeleteVault` and `DeleteRow`
are the check and the DELETE of `delete()`, which no transaction joins.
`transactions.vault_id` has no foreign key in a migrated database: migration 009
adds the column before `20260327_add_vaults_support` would.

The row in `transactions` gets the reference `VAULT-<13 digits>-<suffix>`, with a
suffix of nine random characters (`vault.ts:403`), while every schema file
declares `reference_number VARCHAR(25)`: 29 characters do not fit, the INSERT fails
and the transfer rolls back. The suffix is shorter only for the rare random number
whose expansion in base 36 is; with five characters or fewer the transfer commits.
`ReferenceFits` says whether any suffix fits `ReferenceWidth`, `Commit` needs it,
and `Rollback` is always possible; in the repository's schema it is what nearly
every transfer does. The properties speak of both, and of a database in which the
column is wider. Amounts are whole units: the code adds the decimal strings as
doubles, whose rounding is not modelled.

### Transaction pipeline

`job[w]` is the handler in one slot of the consumer; its `pc` is the await it
stands at. The points follow `processTransaction`: the payment before the try
block (`advance`), the metadata read and write, the provider call, the second
payment, the second read and write, the status, and the catch block (`open`,
`requeue`, `fail`) and the consumer's own failure path (`capture`, `nack`).
`withRetry` is the attempt counter. `queue` and `timers` count messages and
callbacks; `dlq` is the table with the history of how often a row was published.

`updateStatus()` throws after its write (see above), so `Complete` writes
`completed` and goes to the catch block, and `Fail` writes `failed` and goes to the
consumer. The webhook, the notification and the event that follow in the code are
never reached and have no action.

`carried` holds the calls that went through for a transaction at least once. For
the provider that means an accepted request and no more: `mtn.ts:220` counts
ACCEPTED and PENDING as success, and the worker asks nothing further. The provider
call stands for a whole throttled call (`mobileMoneyService.ts:78`,
`providerThrottle.ts:297`), with the attempts of the throttle's queue and the
failover inside it, each of which may repeat the call; how often money moved is
therefore not counted and no property bounds it. An answer may be lost after any
call (`ReplyLost`): `withRetry` tries again, or the error is permanent.

Reads by `queryRead` may come from a lagging replica: the requeue count
(`CountRead`) and the row of a dead letter (`ReplayReadStale`). `copies` counts the
events that make a second job of a transaction: the broker redelivers while the
handler runs on, the process dies between capture and reject, or a letter that was
published is published again.

The other faults are a refused publish (of the API, the timer or a replay), a
failed insert of a dead letter, a mark that is not written, a query or notification
that throws, a lost channel, and a restart; `Budget` says how many of each.

Two constants describe how the parts are put together. `BreakerVisible` says
whether the mobile-money service passes the error of an open breaker on. It does
not today (it wraps every error), so the requeue path is dead code and an open
breaker is one more error. The runs set it: that adds the requeue path to what the
code does today and takes nothing away. `PoolAllowed` says whether an admin ever
starts the channel-account pool, which reports failed payments in its result
instead of throwing.

### Webhook breaker

One destination's record and the deliveries that talk to it. Times are ages:
`openFor` since the breaker opened, `age` since a delivery began. `sick` notes
that the destination was down during a delivery, which alone lets it fail.
`AcquireInvalid` is the delivery that takes the probe's permission and then finds
its payload invalid: it returns without reporting, and only `reset()` helps.
`webhook.ts` calls `circuitBlocksDelivery()` and `circuitGate()`, which no file
defines; by the way their results are used they are calls of
`acquirePermission()`, and are modelled so.

## 3. Runs

| Run | Instance | Shows |
|---|---|---|
| `session_queue` | 3 requests, 1 key, depth 2, sessions that expire, `clear()` at any time | `OneAtATime`, `MapTracksWork`, `LockPerObject`, `FirstComeFirstServed`, `IsLine`, `EveryRequestSettles` |
| `provider_session` | 2 calls with 2 entries each, 2 attempts, sessions of 2 ticks, refreshed in the second, cookies that expire at 1 or 4 | `RejectedNotReused`, `TimeoutNotSurfaced`, `SentWithinAttempts`, `EveryCallEnds` |
| `disputes` | 3 requests of any kind, 1 that fails, a deposit, a withdrawal or an unbooked transaction, lagging replica, purge | `PostedOnce`, `ReversedNetsToZero`, `ReversedStatusBacked`, `ToldOnlyOfPosted`, `OneActiveDispute`, `RetryMarksReversed`, `EveryRequestEnds` |
| `savings_vaults` | 3 requests, 1 vault, transfers of 1, main balance up to 2, references of 25 characters | `VaultMatchesHistory`, `MirrorsHistory`, `InactiveFrozen`, `EveryRequestEnds` |
| `escrow` | 3 accounts, amounts 0, 1, 3, four fee rates, locks 0 to 2 | `Solvent`, `PaidInFull`, `BeneficiaryShare`, `LockProtectsDepositor`, `IsVault`, `DepositNotStranded` |
| `htlc` | 3 accounts, amounts 0 to 2, timelocks 0, 1, 3, three signer vectors | `Solvent`, `ReceiverComesFirst`, `IsVault`, `FundsNotStranded` |
| `webhook_breaker` | 3 deliveries, threshold 2, cooldown 3, deliveries up to 2 | `OneProbe`, `ClosedByEvidence`, `Recovers` |
| `pipeline_unreliable` | 1 deposit, 2 slots, 1 operator, no retries, every fault but a failing query and a failing mark once, answers lost at any call | `CompletedMeansPaid`, `SingleCustody` |
| `pipeline_handover` | 1 deposit, 2 slots, 1 operator, 2 attempts, 1 requeue, 2 replays, 1 failing query, 1 failing mark, pool, cancellation, answers lost at any call | `NothingLost`, `SingleCustody`, `ReplaysAccounted`, `EventuallyDecided` |
| `pipeline_pooled_unpaid` | 1 deposit, the pool | violates `CompletedMeansPaid` |
| `pipeline_payment_order` | a deposit and a withdrawal, no faults | violates `PaidAfterCollected` |
| `pipeline_status_workflow` | 1 deposit, no faults | violates `StatusFollowsWorkflow` |

No run checks a type invariant: all of them are proved (section 5).

### Bounds and why they are enough

- Session queue: three requests of one key are needed for one to run, one to wait
  and one to be enqueued, overflow or be cleared. That keys do not disturb each
  other is left to the proofs, which have any number of keys.
- Provider sessions: two calls, since the session is shared and the queue lets one
  task run at a time: what can go wrong is what the other one did while this one
  waited. `MaxTime = 3` lets a session be made, be due for a refresh and expire;
  `MaxLogins = 5` is one session from before and one for each attempt of each
  call, so the bound never cuts a behaviour off. The queue never overflows here;
  it does in `session_queue`.
- Reversals and disputes: three requests, so that one opens a dispute two others
  race to close, or one posts a reversal that a second retries and a third
  announces. One failure at every possible place. With amount 2 and fee 1 all
  three accounts differ.
- Savings vaults: three transfers on one vault, one of which may have lost its
  Redis lock; vaults share nothing but the main balance, which `Payment` moves
  anyhow.
- Contracts: three accounts, so that depositor, beneficiary and arbiter (sender,
  receiver and signer) may all differ or coincide. The fee rates 0, 3334 and 10000 give
  no fee, a rounded fee and the whole amount; 10001 is rejected. With
  `MaxI128 = 29999` only the largest product overflows, so one run has both
  releases that work and releases that abort.
- Webhook breaker: three deliveries let a probe, a late answer from before the
  outage and a new request meet. The proofs remove this bound.
- Pipeline: two slots are needed for a redelivered message to be handled beside
  its first handler; one fault of each kind gives every order of two or more
  different faults. `MaxAttempts = 2` and `MaxRequeues = 1` give the first, the
  repeated and the exhausted case. The faults are split over two runs because all
  of them together are out of TLC's reach; the proofs have them together. One
  transaction, since transactions share nothing but slots; it is a deposit, whose
  handler does everything a withdrawal's does and the second payment besides.
  `pipeline_payment_order` has both types and so have the proofs. The two slots of
  `pipeline_unreliable` are symmetric and it checks no liveness.
- `pipeline_handover` leaves out a refused publish, a failed capture and a restart:
  each can leave a row pending with nobody in charge, which the code leaves to the
  watchdog. These are listed as hazards with a note. It also leaves out redelivery
  and stale reads, which `pipeline_unreliable` has.

### Deadlock

Most runs switch the deadlock check off because the instance is finite work: all
requests are done, the deposit has been paid, the clock has reached its bound.
`webhook_breaker` never stops and keeps the check on.

### Fairness

- Session queue: continuations of a settled promise run, and tasks settle, since
  the HTTP clients have a timeout. Nothing is assumed of callers.
- Provider sessions: continuations run and every HTTP request ends, in one of the
  ways the model lists, since the client has `requestTimeoutMs`. Time is not fair
  and nothing is assumed about which answer comes.
- Reversals, disputes and vaults: a request under way executes its next
  statement, and PostgreSQL grants a freed lock to a waiter. Weak fairness is
  enough for the locks: each request holds one once, so a waiter is overtaken
  finitely often. At the end of a transfer it is fair that it commits or rolls
  back, not that it commits. Other failures, expiries and arrivals are not fair.
  `EveryRequestEnds` of disputes says that from some time on every request is idle
  or done: a request runs once, so that is the same as each one ending.
- Contracts: ledgers close; in `Escrow` somebody calls `emergency_refund` when it
  is possible, in `Htlc` somebody calls `refund`. Neither is assumed of the
  arbiter or the receiver: the properties are about what happens without them.
- Webhook breaker: time passes, new events keep asking for permission, and each
  delivery ends. `Recovers` assumes that the destination is back for good.
- Pipeline: the broker delivers, timers fire, requests and handlers go on. Nothing
  is assumed of a handler in an outside call: `providerThrottle.ts:303` waits for
  the throttle's queue without a limit. `EventuallyDecided` says so in its
  hypothesis: if no handler waits for ever in a call, every transaction is
  decided. No fault, cancellation, replay or start of the pool is fair.

## 4. Findings

Each is a run in which TLC violates what a document, comment or message of the
repository says; `PROJECT.json` quotes the lines.

1. `pipeline_payment_order`: the worker makes a Stellar payment before its try
   block, before any mobile money moved, and for withdrawals too.
2. `pipeline_pooled_unpaid`: a pooled payment that failed is not noticed and the
   transaction is completed.
3. `pipeline_status_workflow`: `updateStatus` throws after its UPDATE
   (`src/models/transaction.ts:488` uses a name that nothing defines), so the worker
   writes `failed` over the `completed` it has just written.

The same error makes every reversal end with a `failed` record, and the width of
`reference_number` makes nearly every vault transfer roll back; both are modelled
as they are (section 2). A comment in `mtn.ts:219` says that only SUCCESSFUL or
ACCEPTED count as success while the code also takes PENDING.

Other disagreements are reachable in the models and listed as hazards with a
note: an open breaker fails a transaction at once, because the service hides the
error the worker looks for; cancel and worker overwrite each other's status; two
overlapping replays, or one repeated after a lost mark, publish a dead letter
twice; an upheld and a reversed
resolution of one dispute leave a completed transaction with a reversed ledger; an
assignment reopens a dispute that was closed in between; a reversal row leaves a
terminal status; a funded vault is deleted; each attempt of a payment has an
idempotency key of its own.

The probe that is never reported (`src/services/webhook.ts:379`) is modelled and
listed as a hazard; `Recovers` names it as its only exception.

## 5. Proofs

Assumptions are the named `ASSUME`s of the modules (finite sets where needed,
constants of the right type, `MaxDelivery < RecoveryAfter` for the breaker). TLC
evaluates them in every run.

- `SessionQueueProofs`. `OneAtATime` is not inductive: that no second request of
  a key runs must follow from what the map and the chains look like. `QueueInv`
  says that a map entry is an object of its key (`MapEntriesKeyed`) with work on it
  (`MapEntriesLive`), that every object with work is the one in the map
  (`WorkIsMapped`), that chains hold requests of their key, once, not finished
  (`ChainsAreKeyed`, `ChainedOnce`, `ChainedIsLive`), that `pending` is the chain
  without a running head (`PendingIsRest`), and that objects are locks
  (`LockPerObject`). After `clear()` a key can have two objects with work, so
  `MapEntriesLive`, `WorkIsMapped` and `PendingIsRest` speak of the keys that were
  not cleared; the rest survives. `Ordered` adds the history: accepted requests
  appear once in `order`, chains follow it, and whoever has started finds all
  earlier requests of the key finished. Theorems `SessionSerialised`,
  `SessionMapExact`, `SessionLocks`, `SessionFifo` and `SessionTypes`, and
  `SessionImplementsLine`, one lemma per action. None of them assumes anything of
  `clear()`: it costs its own key the promise and no other.
- `ProviderSessionProofs`. `ProviderInv` contains `QueueInv`: that a rejected
  session is never used again rests on the queue running one task at a time.
  Steps of the provider either are steps of the queue, whose lemmas apply, or
  leave it alone (`QueueRests`). On top it says that a call works exactly while
  its entry runs (`TaskRuns`, hence `OneTask`), that a settled entry has ended its
  call and nobody has called `clear()` (`SettledDone`, `AnswerFinal`; no provider
  does), that a request was sent at most as often as
  its attempt counter says and not at all before its entry ran (`SentCounted`),
  and that no live reference is to a dead session (`SessionsLive`). A retry is
  enqueued with no session cached, so its entry cannot expire: that gives
  `ProviderHidesTimeout`. Theorems `ProviderSessionSafe`, `ProviderHidesTimeout`,
  `ProviderSendsBounded`, `ProviderTypes`.
- `DisputesProofs`. `PostedOnce` needs to know who is between reading the ledger
  and committing: the invariant says that such a request holds the lock, that
  nothing was posted yet, and that, if nothing was clawed back, what it read is
  what the ledger holds; that whoever is past the posting finds it in the ledger;
  and which goals and rows a request can have at each statement. Theorems
  `ReversalPostedOnce`, `ReversalExact`, `ReversalBacked`, `NoticeIsTrue`,
  `DisputeUnique`, `DisputeTypes`, with `ReplicaLag` either way and any number of
  failures. `RetryMarksReversed` needs what a request has done before it ends:
  `RetryInv` says that a request is at the statements of the endpoint it called
  (`OpInv`), that one inside `reverse()` has its row (`RowInv`), that only what is
  booked is reversed (`EntriesInv`), and that a request with a row that is past
  its mark, and met no failure, has left the transaction marked (`MarkedInv`).
  Theorem `RetriedReversalMarks`.
- `SavingsVaultsProofs`. The invariant says that a request about to write holds
  the row lock and has read the present balance, that the vault is then live and
  active and, for a withdrawal, sufficient. The Redis lock does not occur in it:
  the row lock alone carries the guarantee, which is why its expiry is harmless.
  Theorems `NoLostTransfer`, `MirrorExact`, `DeactivationHolds`, `VaultTypes`.
- `EscrowProofs`. `EscrowInv` is `TypeOK /\ Solvent`: balances stay natural
  numbers only because the contract holds what it pays, and the other way round.
  `SplitBounds` gives the arithmetic of fee and net. `PaidInv` adds to `PaidInFull`
  that nobody has received anything before there is an escrow. Theorems
  `EscrowSolvent`, `LockProtects`, `EscrowImplementsVault`, `EscrowPaidInFull`,
  `EscrowShare`, `EscrowTypes`.
- `HtlcProofs`. The same argument with two flags that are never both set.
  Theorems `HtlcSolvent`, `HtlcReceiverFirst`, `HtlcImplementsVault`, `HtlcTypes`.
- `WebhookBreakerProofs`. `OneProbe` is not inductive: a reset can leave a probe
  under way while the breaker opens anew. `BreakerInv` adds that a delivery under
  way in an open breaker is at least as old as the outage (`OlderThanOutage`), so
  that none is left when the cooldown is over, and that in a half-open breaker
  only the probe is under way (`OnlyTheProbe`). Theorems `BreakerOneProbe`,
  `BreakerClosedByEvidence` and `BreakerTypes`.

- `TransactionPipelineProofs`. A handler has some twenty steps and every invariant
  would need each of them. `Handles(w)` therefore says once what any step of a
  handler does, from four sides: where the handler goes (`Moves`), to whom it
  passes the transaction (`Passes`), which call went through (`Carries`), what was
  written to the row (`Writes`). `StepHandles` proves it for every action of a
  handler, and each invariant is preserved by `Handles` and by the few remaining
  actions.
  - `PipelineTypes`: the requeue count never exceeds the limit although it is read,
    from a replica that may lag, and written back in separate steps, by any number
    of handlers.
  - `PipelineAccepted` and `PipelinePaid`, from `ChargedInv` and `SettledInv`: a
    handler past the provider call, or past the second payment of a deposit, has
    had that call go through. No fault is excluded; `PipelinePaid` needs
    `~PoolAllowed`, which `pipeline_pooled_unpaid` shows to be necessary. They say
    that the provider accepted the request, not that its money has arrived.
  - `PipelineReplaysAccounted`, from `ReplayInv`, for any number of operators and
    every fault: a letter without a mark was published only by those who still owe
    it and in excused ways (a lost mark, a stale read, a restart), so there is room
    for each operator who may still read it.
  - `PipelineSingleCustody`, from `CustodyInv`, for every fault: the requests,
    messages, timers, handlers and unpublished letters of a transaction are never
    more together than one and its `copies`. No path of the worker makes a copy;
    only the three events that `copies` counts do.
  - `PipelineNothingLost`, from `HeldInv`: a pending row is with a request, a
    message, a timer, a handler that has not given up, or a dead letter. It is
    assumed that no publish, no insert of a dead letter and no process fails
    (`NoLoss`): each of these leaves a row to the watchdog.

  `NoLoss` and `~PoolAllowed` are hypotheses of these theorems and not of the module;
  `pipeline_handover` is an instance of the first, `pipeline_unreliable` of the second.

Only model-checked: the liveness properties, `EveryRequestSettles`,
`EveryCallEnds`, `EveryRequestEnds` (of disputes and of vaults),
`DepositNotStranded`, `FundsNotStranded`, `Recovers` and `EventuallyDecided`, since
the prover does not handle fairness. Every invariant, action property and
refinement that a passing run checks is also a theorem.

## 6. Not modelled

- Storage TTL of the contracts, metrics, logging, snapshots and other reads.
- Webhooks: signing, compression and the outbox.
- Pipeline: NATS; the reprocessing queue, which is bound to the same routing key as
  the main queue but whose worker is not started; contents of metadata other than
  the requeue count; the purge of rows past their retention, which a transaction in
  the pipeline does not live to see; how often a provider's call is repeated inside
  the throttle and what the provider does after it accepted a request. Subscription
  retries follow `updateStatus` in the catch block and are never reached.
- Provider sessions: the direct API with its token; the proactive refresh
  (`jobs/providerSessionRefreshJob.ts:80`, `providerTokenWatchdog.ts:249`), which
  makes provider instances of its own and so shares no session with payments.
- Disputes: notes, evidence, timeline, priority; the SLA job, since nothing writes
  `sla_due_date` and its `update()` without fields always throws.
- Channel-account pool: `acquire()` calls `model.decryptSecretKey`
  (`src/stellar/pool.ts:638`), which only a mock in its tests defines.

The other components without a module are in `PROJECT.json` with the reason.

## 7. Plan

1. An abstract specification of the pipeline: a transaction that is decided once,
   which the pipeline implements when no status is written by two parties.
2. An abstract specification of the ledger that `Disputes` implements: booked, then
   undone at most once.
3. Modules still worth writing: the watchdog reading the pipeline's stuck rows,
   refresh-token families, the provider throttle, the e-mail outbox, balance
   reservations.
