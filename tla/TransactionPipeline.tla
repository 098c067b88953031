------------------------ MODULE TransactionPipeline -------------------------
(***************************************************************************)
(* The life of a deposit or a withdrawal: the API creates the row and      *)
(* publishes a job (src/src/controllers/transactionController.ts), the     *)
(* worker moves the money and settles the status (src/src/queue/worker.ts),*)
(* a job that fails is dead-lettered and may be replayed by an admin       *)
(* (src/src/queue/dlq.ts), and RabbitMQ redelivers what was not            *)
(* acknowledged (src/src/queue/rabbitmq.ts).                               *)
(*                                                                         *)
(* A step ends where the code awaits something another actor can see.  The *)
(* faults are the ones the code is exposed to; each has a budget.          *)
(*                                                                         *)
(* updateStatus() of the transaction model writes the row and then throws: *)
(* TERMINAL_IDEMPOTENCY_STATUSES (src/src/models/transaction.ts:488) is    *)
(* defined nowhere.  The webhook, the notification and the fan-out event   *)
(* that follow it in the worker are never reached and have no action.      *)
(***************************************************************************)
EXTENDS Integers, Sequences, FiniteSets

CONSTANTS
  Txs,             \* transactions
  Deposits,        \* those of type "deposit"; the rest are withdrawals
  Workers,         \* the jobs the consumer runs at once (CONCURRENCY)
  Admins,          \* operators who replay dead letters
  MaxAttempts,     \* MAX_RETRY_ATTEMPTS of withRetry
  MaxRequeues,     \* MAX_PROVIDER_REQUEUE_ATTEMPTS
  PoolAllowed,     \* an admin starts the pool of channel accounts
  BreakerVisible,  \* the mobile-money service passes EOPENBREAKER on
  CancelAllowed,   \* users cancel transactions
  Budget,          \* bound: how often each fault, and a replay, happens
  None             \* the transaction of a slot that runs nothing

FaultKinds == {"publish", "capture", "await", "channel", "crash", "replay", "lag", "mark"}

ASSUME PipelineAssumption ==
  /\ IsFiniteSet(Txs) /\ IsFiniteSet(Workers) /\ IsFiniteSet(Admins)
  /\ Deposits \subseteq Txs
  /\ MaxAttempts \in Nat \ {0}
  /\ MaxRequeues \in Nat
  /\ PoolAllowed \in BOOLEAN /\ BreakerVisible \in BOOLEAN /\ CancelAllowed \in BOOLEAN
  /\ Budget \in [FaultKinds -> Nat]
  /\ None \notin Txs

VARIABLES
  status,        \* transactions.status; "none" before the row exists
  requeueCount,  \* metadata.providerRequeueCount
  api,           \* where the request that creates the transaction is
  cancel,        \* where the request that cancels it is
  queue,         \* messages waiting in transaction-processing-queue
  job,           \* the handler each worker runs
  timers,        \* setTimeout callbacks that will publish the job again
  dlq,           \* the rows of dead_letter_queue
  replay,        \* where each admin's replay request is
  carried,       \* the calls of a transaction that went through at least once
  copies,        \* history: how often a second job of a transaction came about
  pooled,        \* payments go through highThroughputService
  faults         \* what is left of Budget

vars == <<status, requeueCount, api, cancel, queue, job, timers, dlq, replay,
          carried, copies, pooled, faults>>

Statuses == {"pending", "completed", "failed", "cancelled", "review", "dispute",
             "reversed", "clawed_back"}

\* The points at which a handler awaits: the calls that may move money, the
\* first Stellar payment, the provider's and the second payment, and the rest.
Calls == {"advance", "provider", "settle"}
Points == Calls \cup {"idle", "read1", "write1", "read2", "write2", "complete",
                      "open", "requeue", "fail", "capture", "nack"}

Idle == [tx |-> None, pc |-> "idle", attempt |-> 1, hash |-> FALSE,
         seen |-> 0, held |-> FALSE]
NoReplay == [entry |-> 0, pc |-> "idle"]

Init ==
  /\ status = [t \in Txs |-> "none"]
  /\ requeueCount = [t \in Txs |-> 0]
  /\ api = [t \in Txs |-> "new"]
  /\ cancel = [t \in Txs |-> FALSE]
  /\ queue = [t \in Txs |-> 0]
  /\ job = [w \in Workers |-> Idle]
  /\ timers = [t \in Txs |-> 0]
  /\ dlq = <<>>
  /\ replay = [a \in Admins |-> NoReplay]
  /\ carried = [t \in Txs |-> {}]
  /\ copies = [t \in Txs |-> 0]
  /\ pooled = FALSE
  /\ faults = Budget

\* One more occurrence of a fault.
Fault(kind) ==
  /\ faults[kind] > 0
  /\ faults' = [faults EXCEPT ![kind] = @ - 1]

rows == <<status, requeueCount>>
requests == <<api, cancel, replay>>
money == <<carried, copies, pooled>>

-----------------------------------------------------------------------------
\* createOrReuse(), up to the insert of the row.
Create(t) ==
  /\ api[t] = "new"
  /\ api' = [api EXCEPT ![t] = "created"]
  /\ status' = [status EXCEPT ![t] = "pending"]
  /\ UNCHANGED <<requeueCount, cancel, queue, job, timers, dlq, replay, money, faults>>

\* The rest of it: addTransactionJob publishes the job.
Enqueue(t) ==
  /\ api[t] = "created"
  /\ api' = [api EXCEPT ![t] = "done"]
  /\ queue' = [queue EXCEPT ![t] = @ + 1]
  /\ UNCHANGED <<rows, cancel, job, timers, dlq, replay, money, faults>>

\* The publish is refused: the request fails and the row stays.  A retry with
\* the same idempotency key finds the row and publishes nothing.
EnqueueFails(t) ==
  /\ api[t] = "created"
  /\ Fault("publish")
  /\ api' = [api EXCEPT ![t] = "done"]
  /\ UNCHANGED <<rows, cancel, queue, job, timers, dlq, replay, money>>

\* cancelTransactionHandler(): the status is checked in one query ...
CancelCheck(t) ==
  /\ CancelAllowed
  /\ ~cancel[t]
  /\ status[t] = "pending"
  /\ cancel' = [cancel EXCEPT ![t] = TRUE]
  /\ UNCHANGED <<rows, api, queue, job, timers, dlq, replay, money, faults>>

\* ... and written in another; updateStatus() then throws and the user is told
\* that the cancellation failed.
CancelWrite(t) ==
  /\ cancel[t]
  /\ cancel' = [cancel EXCEPT ![t] = FALSE]
  /\ status' = [status EXCEPT ![t] = "cancelled"]
  /\ UNCHANGED <<requeueCount, api, queue, job, timers, dlq, replay, money, faults>>

\* An admin's batch payment initialises the pool; from then on it is used.
StartPool ==
  /\ PoolAllowed
  /\ ~pooled
  /\ pooled' = TRUE
  /\ UNCHANGED <<rows, requests, queue, job, timers, dlq, carried, copies, faults>>

-----------------------------------------------------------------------------
\* The broker hands a message to a free slot of the consumer.
Deliver(w, t) ==
  /\ job[w].pc = "idle"
  /\ queue[t] > 0
  /\ queue' = [queue EXCEPT ![t] = @ - 1]
  /\ job' = [job EXCEPT ![w] = [Idle EXCEPT !.tx = t, !.pc = "advance", !.held = TRUE]]
  /\ UNCHANGED <<rows, requests, timers, dlq, money, faults>>

\* A call goes through: the network made the payment, or the provider accepted
\* the request, which need not have moved the money yet (mtn.ts counts PENDING
\* as a success).  The provider's call stands for the whole of a throttled
\* call, its attempts by the throttle's queue and its failover included, so
\* that it may go through several times; that it did once is all that is kept.
Perform(j) ==
  /\ carried' = [carried EXCEPT ![j.tx] = @ \cup {j.pc}]
  /\ UNCHANGED <<copies, pooled>>

\* The handler after a call that it takes for a success.
GoneOn(j) ==
  [j EXCEPT !.attempt = 1,
            !.hash = @ \/ j.pc = "advance",
            !.pc = CASE j.pc = "advance" -> "read1"
                     [] j.pc = "provider" -> IF j.tx \in Deposits THEN "settle" ELSE "complete"
                     [] j.pc = "settle" -> IF j.hash THEN "read2" ELSE "complete"]

\* Faulty variant: the first payment's error is lost with the message.
ThrownAway(j, e) ==
  [j EXCEPT !.pc = IF j.pc = "advance" THEN "nack"
                   ELSE IF e = "open" /\ BreakerVisible THEN "open" ELSE "fail"]

\* Faulty variant: the result of the provider call is not looked at.
ThrownIgnored(j, e) ==
  [j EXCEPT !.pc = CASE j.pc = "advance" -> "capture"
                     [] j.pc = "provider" -> "complete"
                     [] j.pc = "settle" -> "fail"]

\* The handler after an error that withRetry passes on.  The first payment is
\* made before the try block, so its error goes straight to the consumer.
Thrown(j, e) ==
  [j EXCEPT !.pc = IF j.pc = "advance" THEN "capture"
                   ELSE IF e = "open" /\ BreakerVisible THEN "open" ELSE "fail"]

\* The handler after a transient error: withRetry tries again while it may.
Retried(j) ==
  IF j.attempt < MaxAttempts THEN [j EXCEPT !.attempt = @ + 1] ELSE Thrown(j, "other")

\* submitPayment() of the pool reports a failed payment in its result, and the
\* worker never looks at `success`.
Swallowed(j) == pooled /\ j.pc \in {"advance", "settle"}
GoneOnUnpaid(j) ==
  IF j.pc = "advance" THEN [j EXCEPT !.attempt = 1, !.pc = "provider"] ELSE GoneOn(j)

handler == <<rows, requests, queue, timers, dlq>>

\* A call goes through.
CallSucceeds(w) ==
  /\ job[w].pc \in Calls
  /\ Perform(job[w])
  /\ job' = [job EXCEPT ![w] = GoneOn(@)]
  /\ UNCHANGED <<handler, faults>>

\* A call fails with a transient error.
CallRetried(w) ==
  /\ job[w].pc \in Calls
  /\ ~Swallowed(job[w])
  /\ job' = [job EXCEPT ![w] = Retried(@)]
  /\ UNCHANGED <<handler, money, faults>>

\* A call fails for good; only the provider call has a circuit breaker.
CallThrows(w, e) ==
  /\ job[w].pc \in Calls
  /\ ~Swallowed(job[w])
  /\ e = "open" => job[w].pc = "provider"
  /\ job' = [job EXCEPT ![w] = Thrown(@, e)]
  /\ UNCHANGED <<handler, money, faults>>

\* A pooled payment fails, unnoticed.
CallSwallowed(w) ==
  /\ Swallowed(job[w])
  /\ job' = [job EXCEPT ![w] = GoneOnUnpaid(@)]
  /\ UNCHANGED <<handler, money, faults>>

\* A call goes through but its answer is lost: withRetry tries again while it
\* may, or takes the error for a permanent one; the pool reports a failure.
ReplyLost(w) ==
  /\ job[w].pc \in Calls
  /\ Perform(job[w])
  /\ \/ job' = [job EXCEPT ![w] = IF Swallowed(@) THEN GoneOnUnpaid(@) ELSE Retried(@)]
     \/ ~Swallowed(job[w]) /\ job' = [job EXCEPT ![w] = Thrown(@, "other")]
  /\ UNCHANGED <<handler, faults>>

\* findById() of the row's requeue count: queryRead() goes to a replica, which
\* may still show the count of an earlier time.
CountRead(t, count) ==
  \/ count = requeueCount[t] /\ UNCHANGED faults
  \/ count \in 0..MaxRequeues /\ count # requeueCount[t] /\ Fault("lag")

\* The payment's hash is stored by reading the whole metadata ...
ReadMetadata(w, count) ==
  /\ job[w].pc \in {"read1", "read2"}
  /\ CountRead(job[w].tx, count)
  /\ job' = [job EXCEPT ![w].seen = count,
                        ![w].pc = IF @ = "read1" THEN "write1" ELSE "write2"]
  /\ UNCHANGED <<handler, money>>

\* ... and writing the whole of it back.
WriteMetadata(w) ==
  /\ job[w].pc \in {"write1", "write2"}
  /\ requeueCount' = [requeueCount EXCEPT ![job[w].tx] = job[w].seen]
  /\ job' = [job EXCEPT ![w].pc = IF @ = "write1" THEN "provider" ELSE "complete"]
  /\ UNCHANGED <<status, requests, queue, timers, dlq, money, faults>>

\* updateStatus(Completed), whatever the status is by now.  Its error is caught
\* by the handler, which takes it for a failure of the transaction.
Complete(w) ==
  /\ job[w].pc = "complete"
  /\ status' = [status EXCEPT ![job[w].tx] = "completed"]
  /\ job' = [job EXCEPT ![w].pc = "fail"]
  /\ UNCHANGED <<requeueCount, requests, queue, timers, dlq, money, faults>>

\* A query of the handler throws.  Inside the try block that is a failure like
\* any other; before it, and in the catch block itself, the error goes straight
\* to the consumer.
AwaitFails(w) ==
  /\ job[w].pc \in Points \ (Calls \cup {"idle", "capture", "nack"})
  /\ Fault("await")
  /\ job' = [job EXCEPT ![w].pc = IF @ \in {"read2", "write2", "complete"}
                                  THEN "fail" ELSE "capture"]
  /\ UNCHANGED <<handler, money>>

\* The catch block on an open breaker: the requeue count is read ...
RequeueRead(w, count) ==
  /\ job[w].pc = "open"
  /\ CountRead(job[w].tx, count)
  /\ job' = [job EXCEPT ![w].seen = count + 1,
                        ![w].pc = IF count < MaxRequeues THEN "requeue" ELSE "fail"]
  /\ UNCHANGED <<handler, money>>

\* ... and written, the timer is set and the message acknowledged.
RequeueWrite(w) ==
  /\ job[w].pc = "requeue"
  /\ requeueCount' = [requeueCount EXCEPT ![job[w].tx] = job[w].seen]
  /\ timers' = [timers EXCEPT ![job[w].tx] = @ + 1]
  /\ job' = [job EXCEPT ![w] = Idle]
  /\ UNCHANGED <<status, requests, queue, dlq, money, faults>>

\* The "retrying" notification throws after the count is written: no timer is set.
RequeueFails(w) ==
  /\ job[w].pc = "requeue"
  /\ Fault("await")
  /\ requeueCount' = [requeueCount EXCEPT ![job[w].tx] = job[w].seen]
  /\ job' = [job EXCEPT ![w].pc = "capture"]
  /\ UNCHANGED <<status, requests, queue, timers, dlq, money>>

\* The timer publishes the job again.
TimerFires(t) ==
  /\ timers[t] > 0
  /\ timers' = [timers EXCEPT ![t] = @ - 1]
  /\ queue' = [queue EXCEPT ![t] = @ + 1]
  /\ UNCHANGED <<rows, requests, job, dlq, money, faults>>

\* Its publish is refused, which is only logged: the job is gone.
TimerFails(t) ==
  /\ timers[t] > 0
  /\ Fault("publish")
  /\ timers' = [timers EXCEPT ![t] = @ - 1]
  /\ UNCHANGED <<rows, requests, queue, job, dlq, money>>

\* The rest of the catch block: updateStatus(Failed), whose error ends in the
\* same place as the one that would have been rethrown.
Fail(w) ==
  /\ job[w].pc = "fail"
  /\ status' = [status EXCEPT ![job[w].tx] = "failed"]
  /\ job' = [job EXCEPT ![w].pc = "capture"]
  /\ UNCHANGED <<requeueCount, requests, queue, timers, dlq, money, faults>>

\* capturePersistentFailure().
Capture(w) ==
  /\ job[w].pc = "capture"
  /\ dlq' = Append(dlq, [tx |-> job[w].tx, replayed |-> FALSE, published |-> 0])
  /\ job' = [job EXCEPT ![w].pc = "nack"]
  /\ UNCHANGED <<rows, requests, queue, timers, money, faults>>

\* The insert fails; the error is only logged.
CaptureFails(w) ==
  /\ job[w].pc = "capture"
  /\ Fault("capture")
  /\ job' = [job EXCEPT ![w].pc = "nack"]
  /\ UNCHANGED <<handler, money>>

\* Faulty variant: the message is rejected with requeue.
NackRequeued(w) ==
  /\ job[w].pc = "nack"
  /\ queue' = [queue EXCEPT ![job[w].tx] = @ + 1]
  /\ job' = [job EXCEPT ![w] = Idle]
  /\ UNCHANGED <<rows, requests, timers, dlq, money, faults>>

\* The message is rejected without requeue.
Nack(w) ==
  /\ job[w].pc = "nack"
  /\ job' = [job EXCEPT ![w] = Idle]
  /\ UNCHANGED <<handler, money, faults>>

-----------------------------------------------------------------------------
\* The handlers whose message of t is not acknowledged.
Unacked(t) == {w \in Workers : job[w].held /\ job[w].tx = t}

\* The queue with every unacknowledged message back in it.
Returned == [t \in Txs |-> queue[t] + Cardinality(Unacked(t))]

\* The channel drops: the broker redelivers while the handlers run on.
ChannelLost ==
  /\ Fault("channel")
  /\ queue' = Returned
  /\ copies' = [t \in Txs |-> copies[t] + Cardinality(Unacked(t))]
  /\ job' = [w \in Workers |-> [job[w] EXCEPT !.held = FALSE]]
  /\ UNCHANGED <<rows, requests, timers, dlq, carried, pooled>>

\* The handlers that have dead-lettered t and not yet rejected its message.
Captured(t) == {w \in Unacked(t) : job[w].pc = "nack"}

\* The process restarts: handlers, requests and timers are gone.
Crash ==
  /\ Fault("crash")
  /\ queue' = Returned
  /\ copies' = [t \in Txs |-> copies[t] + Cardinality(Captured(t))]
  /\ job' = [w \in Workers |-> Idle]
  /\ timers' = [t \in Txs |-> 0]
  /\ api' = [t \in Txs |-> IF api[t] = "created" THEN "done" ELSE api[t]]
  /\ cancel' = [t \in Txs |-> FALSE]
  /\ replay' = [a \in Admins |-> NoReplay]
  /\ pooled' = FALSE
  /\ UNCHANGED <<rows, dlq, carried>>

\* replayDLQEntry(): the row is read and must not have been replayed, ...
ReplayRead(a, i) ==
  /\ replay[a].pc = "idle"
  /\ ~dlq[i].replayed
  /\ Fault("replay")
  /\ replay' = [replay EXCEPT ![a] = [entry |-> i, pc |-> "read"]]
  /\ UNCHANGED <<rows, api, cancel, queue, job, timers, dlq, money>>

\* The same, when the row was marked but the replica that answers queryRead()
\* does not show it yet.
ReplayReadStale(a, i) ==
  /\ replay[a].pc = "idle"
  /\ dlq[i].replayed
  /\ Fault("lag")
  /\ replay' = [replay EXCEPT ![a] = [entry |-> i, pc |-> "read"]]
  /\ UNCHANGED <<rows, api, cancel, queue, job, timers, dlq, money>>

\* ... the job is published again, ...
ReplayPublish(a) ==
  LET i == replay[a].entry IN
  /\ replay[a].pc = "read"
  /\ queue' = [queue EXCEPT ![dlq[i].tx] = @ + 1]
  /\ dlq' = [dlq EXCEPT ![i].published = @ + 1]
  /\ copies' = [copies EXCEPT ![dlq[i].tx] = IF dlq[i].published > 0 THEN @ + 1 ELSE @]
  /\ replay' = [replay EXCEPT ![a].pc = "published"]
  /\ UNCHANGED <<rows, api, cancel, job, timers, carried, pooled, faults>>

\* ... or the publish is refused and the request fails ...
ReplayPublishFails(a) ==
  /\ replay[a].pc = "read"
  /\ Fault("publish")
  /\ replay' = [replay EXCEPT ![a] = NoReplay]
  /\ UNCHANGED <<rows, api, cancel, queue, job, timers, dlq, money>>

\* Faulty variant: the row is left unmarked.
ReplayMarkForgotten(a) ==
  /\ replay[a].pc = "published"
  /\ replay' = [replay EXCEPT ![a] = NoReplay]
  /\ UNCHANGED <<rows, api, cancel, queue, job, timers, dlq, money, faults>>

\* ... and the row is marked.
ReplayMark(a) ==
  /\ replay[a].pc = "published"
  /\ dlq' = [dlq EXCEPT ![replay[a].entry].replayed = TRUE]
  /\ replay' = [replay EXCEPT ![a] = NoReplay]
  /\ UNCHANGED <<rows, api, cancel, queue, job, timers, money, faults>>

\* The UPDATE fails: the job is out and the row still replayable.
ReplayMarkFails(a) ==
  /\ replay[a].pc = "published"
  /\ Fault("mark")
  /\ replay' = [replay EXCEPT ![a] = NoReplay]
  /\ UNCHANGED <<rows, api, cancel, queue, job, timers, dlq, money>>

-----------------------------------------------------------------------------
\* What a handler does by itself.
Step(w) ==
  \/ CallSucceeds(w) \/ CallRetried(w) \/ CallSwallowed(w) \/ ReplyLost(w)
  \/ \E e \in {"open", "other"} : CallThrows(w, e)
  \/ \E count \in 0..MaxRequeues : ReadMetadata(w, count) \/ RequeueRead(w, count)
  \/ WriteMetadata(w) \/ Complete(w) \/ RequeueWrite(w)
  \/ Fail(w) \/ Capture(w) \/ Nack(w)

\* What goes wrong around it.
Faulty(w) == AwaitFails(w) \/ RequeueFails(w) \/ CaptureFails(w)

\* The steps of an operator's replay.
Replay(a) ==
  \/ \E i \in 1..Len(dlq) : ReplayRead(a, i) \/ ReplayReadStale(a, i)
  \/ ReplayPublish(a) \/ ReplayPublishFails(a) \/ ReplayMark(a) \/ ReplayMarkFails(a)

Next ==
  \/ \E t \in Txs :
       \/ Create(t) \/ Enqueue(t) \/ EnqueueFails(t)
       \/ CancelCheck(t) \/ CancelWrite(t) \/ TimerFires(t) \/ TimerFails(t)
  \/ \E w \in Workers, t \in Txs : Deliver(w, t)
  \/ \E w \in Workers : Step(w) \/ Faulty(w)
  \/ \E a \in Admins : Replay(a)
  \/ StartPool \/ ChannelLost \/ Crash

\* The broker delivers, the event loop runs every request, timer and handler.
\* A handler that awaits one of the Calls has no claim to go on: the throttle
\* waits for its queue without a limit (providerThrottle.ts:303).
Fairness ==
  /\ \A t \in Txs : /\ WF_vars(Enqueue(t))
                    /\ WF_vars(TimerFires(t))
                    /\ WF_vars(\E w \in Workers : Deliver(w, t))
  /\ \A w \in Workers : WF_vars(job[w].pc \notin Calls /\ Step(w))

Spec == Init /\ [][Next]_vars /\ Fairness

-----------------------------------------------------------------------------
Jobs == [tx : Txs \cup {None}, pc : Points, attempt : 1..MaxAttempts, hash : BOOLEAN,
         seen : 0..MaxRequeues + 1, held : BOOLEAN]
DeadLetters == [tx : Txs, replayed : BOOLEAN, published : Nat]
Replays == [entry : Nat, pc : {"idle", "read", "published"}]

\* Every variable keeps the shape of the row, message or handler it stands for;
\* in particular no handler ever writes a requeue count beyond the limit, and a
\* replay under way names a row that exists.
TypeOK ==
  /\ status \in [Txs -> Statuses \cup {"none"}]
  /\ requeueCount \in [Txs -> 0..MaxRequeues]
  /\ api \in [Txs -> {"new", "created", "done"}]
  /\ cancel \in [Txs -> BOOLEAN]
  /\ queue \in [Txs -> Nat]
  /\ job \in [Workers -> Jobs]
  /\ \A w \in Workers :
       /\ job[w].tx = None <=> job[w].pc = "idle"
       /\ job[w].pc \in {"write1", "write2", "requeue"} => job[w].seen <= MaxRequeues
  /\ timers \in [Txs -> Nat]
  /\ dlq \in Seq(DeadLetters)
  /\ replay \in [Admins -> Replays]
  /\ \A a \in Admins : replay[a].pc # "idle" => replay[a].entry \in 1..Len(dlq)
  /\ carried \in [Txs -> SUBSET Calls]
  /\ copies \in [Txs -> Nat]
  /\ pooled \in BOOLEAN
  /\ faults \in [FaultKinds -> Nat]

\* "Transaction successfully settled and confirmed": the status completed is
\* written only after the provider accepted the request and, for a deposit,
\* the payment that follows it was made, whatever was lost, repeated or
\* restarted on the way.
CompletedMeansPaid ==
  \A t \in Txs : status[t] = "completed" =>
    "provider" \in carried[t] /\ (t \in Deposits => "settle" \in carried[t])

\* Those who will still take care of a transaction.
Custody(t) ==
  (IF api[t] = "created" THEN 1 ELSE 0) + queue[t] + timers[t]
  + Cardinality({w \in Workers : job[w].tx = t /\ job[w].pc # "nack"})
  + Cardinality({i \in 1..Len(dlq) : dlq[i].tx = t /\ dlq[i].published = 0})

\* A pending transaction is always in somebody's hands: the API request, the
\* broker, a handler, a timer, or the dead-letter table.
NothingLost == \A t \in Txs : status[t] = "pending" => Custody(t) > 0

\* "an acked message ... will be reprocessed once requeued": requeue, retry,
\* failure, capture and replay hand a transaction over, they never copy it.
\* A second job comes about in three ways only, which `copies` counts: the
\* broker redelivers to another handler while the first runs on, the process
\* dies between the capture and the reject, or a letter that was already
\* published is published again.
SingleCustody == \A t \in Txs : Custody(t) <= 1 + copies[t]

\* Deposit flow: "Mobile money payment initiated", then "Stellar payment sent";
\* withdraw flow: no Stellar payment at all.
PaidAfterCollected ==
  \A t \in Txs : carried[t] \cap {"advance", "settle"} # {} =>
    t \in Deposits /\ "provider" \in carried[t]

\* How much of a budget was used.
Used(kind) == Budget[kind] - faults[kind]

\* What may make an operator publish a letter again: a mark that was not
\* written, one not seen, and the marks a restart prevented.
Excuses == Used("mark") + Used("lag") + Cardinality(Admins) * Used("crash")

\* "DLQ entry has already been replayed": however often operators ask and
\* however often the transaction fails again, each operator who looks before
\* the mark is written publishes a letter once, and once more for every mark
\* that was lost or not seen.
ReplaysAccounted ==
  \A i \in 1..Len(dlq) : dlq[i].published <= Cardinality(Admins) + Excuses

\* The base transitions of the status workflow, which "Prevents scattered
\* updates across handlers, workers, callbacks, and reconciliation from
\* bypassing allowed transitions" (transactionStatusWorkflowService.ts:98).
AllowedTransitions(s) ==
  CASE s = "pending"   -> {"completed", "failed", "cancelled", "review"}
    [] s = "review"    -> {"pending", "completed", "failed", "cancelled"}
    [] s = "completed" -> {"dispute", "reversed", "clawed_back"}
    [] s = "dispute"   -> {"completed", "reversed", "failed"}
    [] s \in {"failed", "cancelled", "reversed", "clawed_back"} -> {}
StatusFollowsWorkflow ==
  [][\A t \in Txs : status[t] # "none" /\ status'[t] # status[t] =>
       status'[t] \in AllowedTransitions(status[t])]_vars

\* Every accepted transaction gets a verdict or ends up where an operator sees
\* it: nothing stays pending in silence, unless a handler waits for ever for an
\* outside call.
EventuallyDecided ==
  (\A w \in Workers : []<>(job[w].pc \notin Calls)) =>
    \A t \in Txs :
      status[t] = "pending" ~>
        status[t] # "pending" \/ \E i \in 1..Len(dlq) : dlq[i].tx = t
=============================================================================
