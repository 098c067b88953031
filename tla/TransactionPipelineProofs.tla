---------------------- MODULE TransactionPipelineProofs ----------------------
(***************************************************************************)
(* Proofs about TransactionPipeline, for any number of transactions,       *)
(* handlers, operators and attempts.  Every theorem names the faults it    *)
(* excludes and holds whatever the budget of the others is.                *)
(***************************************************************************)
EXTENDS TransactionPipeline, FiniteSetTheorems, SequenceTheorems, TLAPS

-----------------------------------------------------------------------------
\* What the operators on a handler return: a handler of the same transaction,
\* at a point that follows the call it was in.
LEMMA ThrownFacts ==
  ASSUME NEW j \in Jobs, j.pc \in Calls, NEW e \in {"open", "other"},
         e = "open" => j.pc = "provider"
  PROVE  /\ Thrown(j, e) \in Jobs
         /\ Thrown(j, e).tx = j.tx
         /\ Thrown(j, e).pc \in {"capture", "open", "fail"}
         /\ Thrown(j, e).pc = "open" => j.pc = "provider"
  BY DEF Thrown, Jobs, Points, Calls

LEMMA RetriedFacts ==
  ASSUME NEW j \in Jobs, j.pc \in Calls
  PROVE  /\ Retried(j) \in Jobs
         /\ Retried(j).tx = j.tx
         /\ Retried(j).pc \in {j.pc, "capture", "fail"}
<1>1. CASE j.attempt < MaxAttempts
  <2>1. Retried(j) = [j EXCEPT !.attempt = @ + 1]
    BY <1>1 DEF Retried
  <2>2. j.attempt + 1 \in 1..MaxAttempts
    BY <1>1, PipelineAssumption DEF Jobs
  <2>3. QED
    BY <2>1, <2>2 DEF Jobs
<1>2. CASE ~(j.attempt < MaxAttempts)
  <2>1. Retried(j) = Thrown(j, "other")
    BY <1>2 DEF Retried
  <2>2. QED
    BY <2>1 DEF Thrown, Jobs, Points, Calls
<1>3. QED
  BY <1>1, <1>2

LEMMA GoneOnFacts ==
  ASSUME NEW j \in Jobs, j.pc \in Calls
  PROVE  /\ GoneOn(j) \in Jobs
         /\ GoneOn(j).tx = j.tx
         /\ j.pc = "advance" => GoneOn(j).pc = "read1"
         /\ j.pc = "provider" =>
              GoneOn(j).pc = IF j.tx \in Deposits THEN "settle" ELSE "complete"
         /\ j.pc = "settle" => GoneOn(j).pc \in {"read2", "complete"}
<1> DEFINE h == j.hash \/ j.pc = "advance"
           p == CASE j.pc = "advance" -> "read1"
                  [] j.pc = "provider" -> IF j.tx \in Deposits THEN "settle" ELSE "complete"
                  [] j.pc = "settle" -> IF j.hash THEN "read2" ELSE "complete"
<1>1. h \in BOOLEAN
  BY Zenon
<1>2. /\ j.pc = "advance" => p = "read1"
      /\ j.pc = "provider" => p = IF j.tx \in Deposits THEN "settle" ELSE "complete"
      /\ j.pc = "settle" => p \in {"read2", "complete"}
  OBVIOUS
<1>3. p \in Points
  BY <1>2 DEF Points, Calls
<1>4. GoneOn(j) = [j EXCEPT !.attempt = 1, !.hash = h, !.pc = p]
  BY DEF GoneOn
<1>5. 1 \in 1..MaxAttempts
  BY PipelineAssumption
<1> HIDE DEF h, p
<1>6. [j EXCEPT !.attempt = 1, !.hash = h, !.pc = p] \in Jobs
  BY <1>1, <1>3, <1>5 DEF Jobs
<1>7. GoneOn(j).tx = j.tx /\ GoneOn(j).pc = p
  BY <1>4 DEF Jobs
<1>8. QED
  BY <1>2, <1>4, <1>6, <1>7

LEMMA GoneOnUnpaidFacts ==
  ASSUME NEW j \in Jobs, j.pc \in {"advance", "settle"}
  PROVE  /\ GoneOnUnpaid(j) \in Jobs
         /\ GoneOnUnpaid(j).tx = j.tx
         /\ j.pc = "advance" => GoneOnUnpaid(j).pc = "provider"
         /\ j.pc = "settle" => GoneOnUnpaid(j).pc \in {"read2", "complete"}
<1>1. CASE j.pc = "advance"
  <2>1. GoneOnUnpaid(j) = [j EXCEPT !.attempt = 1, !.pc = "provider"]
    BY <1>1 DEF GoneOnUnpaid
  <2>2. 1 \in 1..MaxAttempts /\ "provider" \in Points
    BY PipelineAssumption DEF Points, Calls
  <2>3. [j EXCEPT !.attempt = 1, !.pc = "provider"] \in Jobs
    BY <2>2 DEF Jobs
  <2>4. GoneOnUnpaid(j).tx = j.tx /\ GoneOnUnpaid(j).pc = "provider"
    BY <2>1 DEF Jobs
  <2>5. QED
    BY <1>1, <2>1, <2>3, <2>4
<1>2. CASE j.pc = "settle"
  <2>1. GoneOnUnpaid(j) = GoneOn(j)
    BY <1>2 DEF GoneOnUnpaid
  <2>2. QED
    BY <1>2, <2>1, GoneOnFacts DEF Calls
<1>3. QED
  BY <1>1, <1>2

-----------------------------------------------------------------------------
\* The points a handler reaches only after the provider accepted the request,
\* and those a deposit reaches only after its second Stellar payment.
Charged == {"settle", "read2", "write2", "complete"}
Settling == {"read2", "write2", "complete"}

\* Handler w goes from where it is to where it is next, and nothing else moves.
Moves(w) ==
  /\ job[w].pc # "idle"
  /\ job[w].tx \in Txs
  /\ job' = [job EXCEPT ![w] = job'[w]]
  /\ job'[w] \in Jobs
  /\ job'[w].tx = None <=> job'[w].pc = "idle"
  /\ job'[w].pc # "idle" => job'[w].tx = job[w].tx
  /\ job'[w].pc \in {"write1", "write2", "requeue"} => job'[w].seen <= MaxRequeues
  /\ UNCHANGED <<api, cancel, replay, copies, pooled>>

\* The row capturePersistentFailure() inserts.
Letter(t) == [tx |-> t, replayed |-> FALSE, published |-> 0]

\* Who is in charge of the transaction when handler w has moved.
Passes(w) ==
  \/ /\ job[w].pc # "nack" /\ job'[w].pc \notin {"idle", "nack"}
     /\ UNCHANGED <<queue, timers, dlq>>
  \/ /\ job[w].pc = "nack" /\ job'[w].pc = "idle"
     /\ UNCHANGED <<queue, timers, dlq>>
  \/ /\ job[w].pc = "requeue" /\ job'[w].pc = "idle"
     /\ timers' = [timers EXCEPT ![job[w].tx] = @ + 1]
     /\ UNCHANGED <<queue, dlq>>
  \/ /\ job[w].pc = "capture" /\ job'[w].pc = "nack"
     /\ dlq' = Append(dlq, Letter(job[w].tx))
     /\ UNCHANGED <<queue, timers>>
  \/ /\ job[w].pc = "capture" /\ job'[w].pc = "nack"
     /\ faults["capture"] > 0
     /\ UNCHANGED <<queue, timers, dlq>>

\* What the outside world did for handler w.
Carries(w) ==
  /\ \/ UNCHANGED carried
     \/ carried' = [carried EXCEPT ![job[w].tx] = @ \cup {job[w].pc}] /\ job[w].pc \in Calls
  /\ job'[w].pc \in Charged =>
       job[w].pc \in Charged \/ "provider" \in carried'[job[w].tx]
  /\ job'[w].pc \in Settling /\ job[w].tx \in Deposits =>
       job[w].pc \in Settling \/ "settle" \in carried'[job[w].tx] \/ pooled

\* What it wrote to the row.
Writes(w) ==
  /\ \/ UNCHANGED status
     \/ /\ job[w].pc = "complete" /\ job'[w].pc = "fail"
        /\ status' = [status EXCEPT ![job[w].tx] = "completed"]
     \/ /\ job[w].pc = "fail" /\ job'[w].pc = "capture"
        /\ status' = [status EXCEPT ![job[w].tx] = "failed"]
  /\ \/ UNCHANGED requeueCount
     \/ /\ job[w].pc \in {"write1", "write2", "requeue"}
        /\ requeueCount' = [requeueCount EXCEPT ![job[w].tx] = job[w].seen]

\* A step of a handler, seen from every side.
Handles(w) == Moves(w) /\ Passes(w) /\ Carries(w) /\ Writes(w)

\* A fault uses up its budget and no other.
LEMMA FaultFacts ==
  ASSUME faults \in [FaultKinds -> Nat], NEW k \in FaultKinds, Fault(k)
  PROVE  /\ faults' \in [FaultKinds -> Nat]
         /\ \A l \in FaultKinds : faults'[l] <= faults[l]
         /\ faults'[k] + 1 = faults[k]
  BY DEF Fault

LEMMA IdleFacts == Idle \in Jobs /\ Idle.tx = None /\ Idle.pc = "idle"
<1>1. 1 \in 1..MaxAttempts /\ 0 \in 0..MaxRequeues + 1
  BY PipelineAssumption
<1>2. "idle" \in Points /\ FALSE \in BOOLEAN
  BY DEF Points
<1>3. QED
  BY <1>1, <1>2 DEF Idle, Jobs

\* A handler that runs has a transaction.
LEMMA BusyFacts ==
  ASSUME TypeOK, NEW w \in Workers
  PROVE  /\ job[w] \in Jobs
         /\ job[w].pc # "idle" => job[w].tx \in Txs /\ job[w].tx # None
  BY PipelineAssumption DEF TypeOK, Jobs

LEMMA CallSucceedsHandles ==
  ASSUME TypeOK, NEW w \in Workers, CallSucceeds(w)
  PROVE  Handles(w)
<1> DEFINE j == job[w]
<1>1. /\ j \in Jobs /\ j.pc \in Calls /\ j.pc # "idle" /\ j.tx \in Txs /\ j.tx # None
      /\ job' = [job EXCEPT ![w] = GoneOn(j)] /\ job'[w] = GoneOn(j)
      /\ Perform(j)
      /\ UNCHANGED <<status, requeueCount, api, cancel, replay, queue, timers, dlq, copies, pooled>>
  BY BusyFacts DEF CallSucceeds, TypeOK, Calls, handler, rows, requests, Perform
<1> HIDE DEF j
<1>2. /\ GoneOn(j) \in Jobs /\ GoneOn(j).tx = j.tx
      /\ j.pc = "advance" => GoneOn(j).pc = "read1"
      /\ j.pc = "provider" =>
           GoneOn(j).pc = IF j.tx \in Deposits THEN "settle" ELSE "complete"
      /\ j.pc = "settle" => GoneOn(j).pc \in {"read2", "complete"}
  BY <1>1, GoneOnFacts
<1>3. Moves(w)
  BY <1>1, <1>2 DEF Moves, Calls, j
<1>4. Passes(w)
  BY <1>1, <1>2 DEF Passes, Calls, j
<1>5. Carries(w)
  BY <1>1, <1>2 DEF Carries, Perform, TypeOK, Calls, Charged, Settling, j
<1>6. Writes(w)
  BY <1>1, <1>2 DEF Writes, Calls, j
<1>7. QED
  BY <1>3, <1>4, <1>5, <1>6 DEF Handles

\* A step that only takes handler w on to k, and may store a requeue count.
Quietly(w, k) ==
  /\ job' = [job EXCEPT ![w] = k]
  /\ job[w].pc \notin {"idle", "nack"}
  /\ k.tx = job[w].tx
  /\ k.pc \notin {"idle", "nack"}
  /\ k.pc \in {"write1", "write2", "requeue"} => k.seen <= MaxRequeues
  /\ k.pc \in Charged => job[w].pc \in Charged
  /\ k.pc \in Settling => job[w].pc \in Settling \/ pooled
  /\ \/ UNCHANGED requeueCount
     \/ /\ job[w].pc \in {"write1", "write2", "requeue"}
        /\ requeueCount' = [requeueCount EXCEPT ![job[w].tx] = job[w].seen]
  /\ UNCHANGED <<status, api, cancel, replay, queue, timers, dlq, carried, copies, pooled>>

LEMMA QuietHandles ==
  ASSUME TypeOK, NEW w \in Workers, NEW k \in Jobs, Quietly(w, k)
  PROVE  Handles(w)
<1>1. job[w] \in Jobs /\ job[w].tx \in Txs /\ job[w].tx # None /\ job'[w] = k
  BY BusyFacts DEF TypeOK, Quietly
<1>2. Moves(w)
  BY <1>1 DEF Moves, Quietly
<1>3. Passes(w)
  BY <1>1 DEF Passes, Quietly
<1>4. Carries(w)
  BY <1>1 DEF Carries, Quietly
<1>5. Writes(w)
  BY <1>1 DEF Writes, Quietly
<1>6. QED
  BY <1>2, <1>3, <1>4, <1>5 DEF Handles

\* A call that moves no money, or whose money the pool lost.
LEMMA CallFailsHandles ==
  ASSUME TypeOK, NEW w \in Workers,
         \/ CallRetried(w) \/ CallSwallowed(w)
         \/ \E e \in {"open", "other"} : CallThrows(w, e)
  PROVE  Handles(w)
<1>1. /\ job[w] \in Jobs /\ job \in [Workers -> Jobs]
  BY BusyFacts DEF TypeOK
<1>2. CASE CallRetried(w)
  <2>1. /\ job[w].pc \in Calls /\ job' = [job EXCEPT ![w] = Retried(job[w])]
        /\ UNCHANGED <<status, requeueCount, api, cancel, replay, queue, timers, dlq,
                       carried, copies, pooled, faults>>
    BY <1>2 DEF CallRetried, handler, rows, requests, money
  <2>2. /\ Retried(job[w]) \in Jobs /\ Retried(job[w]).tx = job[w].tx
        /\ Retried(job[w]).pc \in {job[w].pc, "capture", "fail"}
    BY <1>1, <2>1, RetriedFacts
  <2>3. Quietly(w, Retried(job[w]))
    BY <1>1, <2>1, <2>2 DEF Quietly, Calls, Charged, Settling
  <2>4. QED
    BY <2>2, <2>3, QuietHandles
<1>3. CASE CallSwallowed(w)
  <2>1. /\ job[w].pc \in {"advance", "settle"} /\ pooled
        /\ job' = [job EXCEPT ![w] = GoneOnUnpaid(job[w])]
        /\ UNCHANGED <<status, requeueCount, api, cancel, replay, queue, timers, dlq,
                       carried, copies, pooled, faults>>
    BY <1>3 DEF CallSwallowed, Swallowed, handler, rows, requests, money
  <2>2. /\ GoneOnUnpaid(job[w]) \in Jobs /\ GoneOnUnpaid(job[w]).tx = job[w].tx
        /\ job[w].pc = "advance" => GoneOnUnpaid(job[w]).pc = "provider"
        /\ job[w].pc = "settle" => GoneOnUnpaid(job[w]).pc \in {"read2", "complete"}
    BY <1>1, <2>1, GoneOnUnpaidFacts
  <2>3. Quietly(w, GoneOnUnpaid(job[w]))
    BY <1>1, <2>1, <2>2 DEF Quietly, Charged, Settling
  <2>4. QED
    BY <2>2, <2>3, QuietHandles
<1>4. ASSUME NEW e \in {"open", "other"}, CallThrows(w, e) PROVE Handles(w)
  <2>1. /\ job[w].pc \in Calls /\ job' = [job EXCEPT ![w] = Thrown(job[w], e)]
        /\ e = "open" => job[w].pc = "provider"
        /\ UNCHANGED <<status, requeueCount, api, cancel, replay, queue, timers, dlq,
                       carried, copies, pooled, faults>>
    BY <1>4 DEF CallThrows, handler, rows, requests, money
  <2>2. /\ Thrown(job[w], e) \in Jobs /\ Thrown(job[w], e).tx = job[w].tx
        /\ Thrown(job[w], e).pc \in {"capture", "open", "fail"}
        /\ Thrown(job[w], e).pc = "open" => job[w].pc = "provider"
    BY <1>1, <2>1, ThrownFacts
  <2>3. Quietly(w, Thrown(job[w], e))
    BY <1>1, <2>1, <2>2 DEF Quietly, Calls, Charged, Settling
  <2>4. QED
    BY <2>2, <2>3, QuietHandles
<1>5. QED
  BY <1>2, <1>3, <1>4

\* A call whose answer is lost: the money moved, and withRetry does not know.
LEMMA ReplyLostHandles ==
  ASSUME TypeOK, NEW w \in Workers, ReplyLost(w)
  PROVE  Handles(w)
<1> DEFINE j == job[w]
<1>1. /\ j \in Jobs /\ j.pc \in Calls /\ j.pc # "idle" /\ j.tx \in Txs /\ j.tx # None
      /\ Perform(j)
      /\ UNCHANGED <<status, requeueCount, api, cancel, replay, queue, timers, dlq, copies, pooled>>
  BY BusyFacts DEF ReplyLost, TypeOK, Calls, handler, rows, requests, Perform
<1>2. PICK k \in {GoneOnUnpaid(j), Retried(j), Thrown(j, "other")} :
        /\ job' = [job EXCEPT ![w] = k] /\ job'[w] = k
        /\ k = GoneOnUnpaid(j) => Swallowed(j) \/ k \in {Retried(j), Thrown(j, "other")}
  BY DEF ReplyLost, TypeOK
<1>3. /\ k \in Jobs /\ k.tx = j.tx
      /\ k.pc \in {j.pc, "provider", "read2", "complete", "capture", "fail", "open"}
      /\ j.pc = "provider" => k.pc \in {"provider", "capture", "fail", "open"}
      /\ k.pc = "provider" => j.pc \in {"provider", "advance"}
      /\ k.pc \in {"read2", "complete"} => j.pc = "settle"
  <2>1. CASE k = GoneOnUnpaid(j) /\ Swallowed(j)
    BY <1>1, <2>1, GoneOnUnpaidFacts DEF Swallowed
  <2>2. CASE k = Retried(j)
    BY <1>1, <2>2, RetriedFacts DEF Calls
  <2>3. CASE k = Thrown(j, "other")
    BY <1>1, <2>3, ThrownFacts DEF Calls
  <2>4. QED
    BY <1>2, <2>1, <2>2, <2>3
<1> HIDE DEF j
<1>4. Moves(w)
  BY <1>1, <1>2, <1>3 DEF Moves, Calls, j
<1>5. Passes(w)
  BY <1>1, <1>2, <1>3 DEF Passes, Calls, j
<1>6. Carries(w)
  BY <1>1, <1>2, <1>3 DEF Carries, Perform, TypeOK, Calls, Charged, Settling, j
<1>7. Writes(w)
  BY <1>1, <1>2, <1>3 DEF Writes, Calls, j
<1>8. QED
  BY <1>4, <1>5, <1>6, <1>7 DEF Handles

\* The hash is stored in the metadata; a query or a message fails.
LEMMA AwaitHandles ==
  ASSUME TypeOK, NEW w \in Workers,
         \/ \E count \in 0..MaxRequeues : ReadMetadata(w, count) \/ RequeueRead(w, count)
         \/ WriteMetadata(w) \/ AwaitFails(w) \/ RequeueFails(w)
  PROVE  Handles(w)
<1>1. /\ job[w] \in Jobs /\ job \in [Workers -> Jobs]
  BY BusyFacts DEF TypeOK
<1>2. ASSUME NEW count \in 0..MaxRequeues, ReadMetadata(w, count) PROVE Handles(w)
  <2> DEFINE p == IF job[w].pc = "read1" THEN "write1" ELSE "write2"
             k == [job[w] EXCEPT !.seen = count, !.pc = p]
  <2>1. /\ job[w].pc \in {"read1", "read2"}
        /\ UNCHANGED <<status, requeueCount, api, cancel, replay, queue, timers, dlq,
                       carried, copies, pooled>>
    BY <1>2 DEF ReadMetadata, handler, rows, requests, money
  <2>2. job' = [job EXCEPT ![w] = k]
    BY <1>1, <1>2 DEF ReadMetadata
  <2>3. /\ count \in 0..MaxRequeues + 1
        /\ count <= MaxRequeues
        /\ p \in Points /\ p \in {"write1", "write2"}
        /\ p = "write2" => job[w].pc = "read2"
    BY <1>1, <2>1, PipelineAssumption DEF Points
  <2> HIDE DEF p
  <2>4. k \in Jobs /\ k.tx = job[w].tx /\ k.pc = p /\ k.seen = count
    BY <1>1, <2>3 DEF Jobs
  <2> HIDE DEF k
  <2>5. /\ k.pc \in Charged => job[w].pc \in Charged
        /\ k.pc \in Settling => job[w].pc \in Settling
    BY <2>1, <2>3, <2>4 DEF Charged, Settling, p
  <2>6. Quietly(w, k)
    BY <1>1, <2>1, <2>2, <2>3, <2>4, <2>5 DEF Quietly
  <2>7. QED
    BY <2>4, <2>6, QuietHandles
<1>3. CASE WriteMetadata(w)
  <2> DEFINE p == IF job[w].pc = "write1" THEN "provider" ELSE "complete"
             k == [job[w] EXCEPT !.pc = p]
  <2>1. /\ job[w].pc \in {"write1", "write2"}
        /\ requeueCount' = [requeueCount EXCEPT ![job[w].tx] = job[w].seen]
        /\ UNCHANGED <<status, api, cancel, replay, queue, timers, dlq,
                       carried, copies, pooled, faults>>
    BY <1>3 DEF WriteMetadata, requests, money
  <2>2. job' = [job EXCEPT ![w] = k]
    BY <1>1, <1>3 DEF WriteMetadata
  <2>3. /\ p \in Points /\ p \in {"provider", "complete"}
        /\ p = "complete" => job[w].pc = "write2"
        /\ p = "provider" => job[w].pc = "write1"
    BY <2>1 DEF Points, Calls
  <2> HIDE DEF p
  <2>4. k \in Jobs /\ k.tx = job[w].tx /\ k.pc = p
    BY <1>1, <2>3 DEF Jobs
  <2> HIDE DEF k
  <2>5. Quietly(w, k)
    BY <1>1, <2>1, <2>2, <2>3, <2>4 DEF Quietly, Charged, Settling
  <2>6. QED
    BY <2>4, <2>5, QuietHandles
<1>4. ASSUME NEW count \in 0..MaxRequeues, RequeueRead(w, count) PROVE Handles(w)
  <2> DEFINE n == count + 1
             p == IF count < MaxRequeues THEN "requeue" ELSE "fail"
             k == [job[w] EXCEPT !.seen = n, !.pc = p]
  <2>1. /\ job[w].pc = "open"
        /\ UNCHANGED <<status, requeueCount, api, cancel, replay, queue, timers, dlq,
                       carried, copies, pooled>>
    BY <1>4 DEF RequeueRead, handler, rows, requests, money
  <2>2. job' = [job EXCEPT ![w] = k]
    BY <1>1, <1>4 DEF RequeueRead
  <2>3. /\ n \in 0..MaxRequeues + 1
        /\ p \in Points /\ p \in {"requeue", "fail"}
        /\ p = "requeue" => n <= MaxRequeues
    BY <1>1, <2>1, PipelineAssumption DEF Points
  <2> HIDE DEF p, n
  <2>4. k \in Jobs /\ k.tx = job[w].tx /\ k.pc = p /\ k.seen = n
    BY <1>1, <2>3 DEF Jobs
  <2> HIDE DEF k
  <2>5. Quietly(w, k)
    BY <1>1, <2>1, <2>2, <2>3, <2>4 DEF Quietly, Charged, Settling
  <2>6. QED
    BY <2>4, <2>5, QuietHandles
<1>5. CASE AwaitFails(w)
  <2> DEFINE p == IF job[w].pc \in {"read2", "write2", "complete"}
                  THEN "fail" ELSE "capture"
             k == [job[w] EXCEPT !.pc = p]
  <2>1. /\ job[w].pc \notin {"idle", "nack"}
        /\ UNCHANGED <<status, requeueCount, api, cancel, replay, queue, timers, dlq,
                       carried, copies, pooled>>
    BY <1>5 DEF AwaitFails, handler, rows, requests, money
  <2>2. job' = [job EXCEPT ![w] = k]
    BY <1>1, <1>5 DEF AwaitFails
  <2>3. p \in Points /\ p \in {"fail", "capture"}
    BY DEF Points
  <2> HIDE DEF p
  <2>4. k \in Jobs /\ k.tx = job[w].tx /\ k.pc = p
    BY <1>1, <2>3 DEF Jobs
  <2> HIDE DEF k
  <2>6. Quietly(w, k)
    BY <1>1, <2>1, <2>2, <2>3, <2>4 DEF Quietly, Charged, Settling
  <2>7. QED
    BY <2>4, <2>6, QuietHandles
<1>6. CASE RequeueFails(w)
  <2> DEFINE k == [job[w] EXCEPT !.pc = "capture"]
  <2>1. /\ job[w].pc = "requeue"
        /\ requeueCount' = [requeueCount EXCEPT ![job[w].tx] = job[w].seen]
        /\ UNCHANGED <<status, api, cancel, replay, queue, timers, dlq,
                       carried, copies, pooled>>
    BY <1>6 DEF RequeueFails, requests, money
  <2>2. job' = [job EXCEPT ![w] = k]
    BY <1>1, <1>6 DEF RequeueFails
  <2>3. "capture" \in Points
    BY DEF Points
  <2>4. k \in Jobs /\ k.tx = job[w].tx /\ k.pc = "capture"
    BY <1>1, <2>3 DEF Jobs
  <2> HIDE DEF k
  <2>6. Quietly(w, k)
    BY <1>1, <2>1, <2>2, <2>4 DEF Quietly, Charged, Settling
  <2>7. QED
    BY <2>4, <2>6, QuietHandles
<1>7. QED
  BY <1>2, <1>3, <1>4, <1>5, <1>6

\* The steps that settle the transaction, put it aside or let go of it.
LEMMA EndHandles ==
  ASSUME TypeOK, NEW w \in Workers,
         \/ Complete(w) \/ Fail(w) \/ Nack(w) \/ RequeueWrite(w)
         \/ Capture(w) \/ CaptureFails(w)
  PROVE  Handles(w)
<1>1. /\ job[w] \in Jobs /\ job \in [Workers -> Jobs]
      /\ faults \in [FaultKinds -> Nat]
      /\ job[w].pc # "idle" => job[w].tx \in Txs /\ job[w].tx # None
  BY BusyFacts DEF TypeOK
<1>2. /\ "fail" \in Points /\ "capture" \in Points /\ "nack" \in Points
  BY DEF Points
<1>3. ASSUME NEW p \in {"fail", "capture", "nack"},
             job' = [job EXCEPT ![w].pc = p]
      PROVE  /\ job' = [job EXCEPT ![w] = job'[w]] /\ job'[w] \in Jobs
             /\ job'[w].tx = job[w].tx /\ job'[w].pc = p
  <2>1. job' = [job EXCEPT ![w] = [job[w] EXCEPT !.pc = p]]
    BY <1>1, <1>3
  <2>2. [job[w] EXCEPT !.pc = p] \in Jobs /\ [job[w] EXCEPT !.pc = p].tx = job[w].tx
        /\ [job[w] EXCEPT !.pc = p].pc = p
    BY <1>1, <1>2, <1>3 DEF Jobs
  <2>3. job'[w] = [job[w] EXCEPT !.pc = p]
    BY <1>1, <2>1
  <2>4. QED
    BY <2>1, <2>2, <2>3
<1>4. ASSUME job' = [job EXCEPT ![w] = Idle]
      PROVE  /\ job' = [job EXCEPT ![w] = job'[w]] /\ job'[w] \in Jobs
             /\ job'[w].tx = None /\ job'[w].pc = "idle"
  BY <1>1, <1>4, IdleFacts
<1>5. CASE Complete(w) \/ Fail(w)
  <2>1. PICK p \in {"fail", "capture"} :
          /\ job' = [job EXCEPT ![w].pc = p]
          /\ \/ /\ job[w].pc = "complete" /\ p = "fail"
                /\ status' = [status EXCEPT ![job[w].tx] = "completed"]
             \/ /\ job[w].pc = "fail" /\ p = "capture"
                /\ status' = [status EXCEPT ![job[w].tx] = "failed"]
          /\ UNCHANGED <<requeueCount, api, cancel, replay, queue, timers, dlq,
                         carried, copies, pooled, faults>>
    BY <1>5 DEF Complete, Fail, requests, money
  <2>2. /\ job' = [job EXCEPT ![w] = job'[w]] /\ job'[w] \in Jobs
        /\ job'[w].tx = job[w].tx /\ job'[w].pc = p
    BY <1>3, <2>1
  <2>3. Moves(w) /\ Passes(w)
    BY <1>1, <2>1, <2>2 DEF Moves, Passes
  <2>4. Carries(w)
    BY <1>1, <2>1, <2>2 DEF Carries, Charged, Settling
  <2>5. Writes(w)
    BY <1>1, <2>1, <2>2 DEF Writes
  <2>6. QED
    BY <2>3, <2>4, <2>5 DEF Handles
<1>6. CASE Nack(w) \/ RequeueWrite(w)
  <2>1. /\ job' = [job EXCEPT ![w] = Idle]
        /\ \/ job[w].pc \in {"nack"} /\ UNCHANGED <<requeueCount, timers>>
           \/ /\ job[w].pc = "requeue"
              /\ requeueCount' = [requeueCount EXCEPT ![job[w].tx] = job[w].seen]
              /\ timers' = [timers EXCEPT ![job[w].tx] = @ + 1]
        /\ UNCHANGED <<status, api, cancel, replay, queue, dlq,
                       carried, copies, pooled, faults>>
    BY <1>6 DEF Nack, RequeueWrite, requests, money, handler, rows
  <2>2. /\ job' = [job EXCEPT ![w] = job'[w]] /\ job'[w] \in Jobs
        /\ job'[w].tx = None /\ job'[w].pc = "idle"
    BY <1>4, <2>1
  <2>3. Moves(w) /\ Passes(w)
    BY <1>1, <2>1, <2>2 DEF Moves, Passes
  <2>4. Carries(w)
    BY <1>1, <2>1, <2>2 DEF Carries, Charged, Settling
  <2>5. Writes(w)
    BY <1>1, <2>1, <2>2 DEF Writes
  <2>6. QED
    BY <2>3, <2>4, <2>5 DEF Handles
<1>7. CASE Capture(w) \/ CaptureFails(w)
  <2>1. /\ job' = [job EXCEPT ![w].pc = "nack"] /\ job[w].pc = "capture"
        /\ \/ dlq' = Append(dlq, Letter(job[w].tx))
           \/ UNCHANGED dlq /\ faults["capture"] > 0
        /\ UNCHANGED <<status, requeueCount, api, cancel, replay, queue, timers,
                       carried, copies, pooled>>
    BY <1>7 DEF Capture, CaptureFails, requests, money, handler, rows, Fault, Letter
  <2>2. /\ job' = [job EXCEPT ![w] = job'[w]] /\ job'[w] \in Jobs
        /\ job'[w].tx = job[w].tx /\ job'[w].pc = "nack"
    BY <1>3, <2>1
  <2>4. Moves(w) /\ Passes(w)
    BY <1>1, <2>1, <2>2 DEF Moves, Passes
  <2>5. Carries(w)
    BY <1>1, <2>1, <2>2 DEF Carries, Charged, Settling
  <2>6. Writes(w)
    BY <1>1, <2>1, <2>2 DEF Writes
  <2>7. QED
    BY <2>4, <2>5, <2>6 DEF Handles
<1>8. QED
  BY <1>5, <1>6, <1>7

\* Every step of a handler is one of the kinds above.
LEMMA StepHandles ==
  ASSUME TypeOK, NEW w \in Workers, Step(w) \/ Faulty(w)
  PROVE  Handles(w)
<1>1. CASE CallSucceeds(w)
  BY <1>1, CallSucceedsHandles
<1>2. CASE CallRetried(w) \/ CallSwallowed(w) \/ \E e \in {"open", "other"} : CallThrows(w, e)
  BY <1>2, CallFailsHandles
<1>3. CASE ReplyLost(w)
  BY <1>3, ReplyLostHandles
<1>4. CASE \/ \E count \in 0..MaxRequeues : ReadMetadata(w, count) \/ RequeueRead(w, count)
           \/ WriteMetadata(w) \/ AwaitFails(w) \/ RequeueFails(w)
  BY <1>4, AwaitHandles
<1>5. CASE \/ Complete(w) \/ Fail(w) \/ Nack(w) \/ RequeueWrite(w)
           \/ Capture(w) \/ CaptureFails(w)
  BY <1>5, EndHandles
<1>6. QED
  BY <1>1, <1>2, <1>3, <1>4, <1>5 DEF Step, Faulty

-----------------------------------------------------------------------------
\* What the writes to the dead-letter table do to its rows.
LEMMA CaptureFacts ==
  ASSUME dlq \in Seq(DeadLetters), NEW t \in Txs, dlq' = Append(dlq, Letter(t))
  PROVE  /\ dlq' \in Seq(DeadLetters)
         /\ Len(dlq) \in Nat /\ Len(dlq') = Len(dlq) + 1
         /\ \A i \in 1..Len(dlq) : dlq'[i] = dlq[i]
         /\ dlq'[Len(dlq) + 1] = Letter(t)
<1>1. Letter(t) \in DeadLetters
  BY DEF Letter, DeadLetters
<1> HIDE DEF Letter
<1>2. QED
  BY <1>1, AppendProperties

LEMMA LetterFacts ==
  ASSUME TypeOK
  PROVE  /\ Len(dlq) \in Nat
         /\ \A i \in 1..Len(dlq) : dlq[i].tx \in Txs /\ dlq[i].published \in Nat
<1>1. dlq \in Seq(DeadLetters) /\ Len(dlq) \in Nat
  BY LenProperties DEF TypeOK
<1>2. \A i \in 1..Len(dlq) : dlq[i] \in DeadLetters
  BY <1>1, ElementOfSeq
<1>3. QED
  BY <1>1, <1>2 DEF DeadLetters

LEMMA RowFacts ==
  ASSUME dlq \in Seq(DeadLetters), NEW i \in 1..Len(dlq), NEW e \in DeadLetters,
         dlq' = [dlq EXCEPT ![i] = e]
  PROVE  /\ dlq' \in Seq(DeadLetters)
         /\ Len(dlq) \in Nat /\ Len(dlq') = Len(dlq)
         /\ \A k \in 1..Len(dlq) : dlq'[k] = IF k = i THEN e ELSE dlq[k]
  BY ExceptSeq

\* A step spends at most one fault.
LEMMA OneFault ==
  ASSUME [Next]_vars
  PROVE  UNCHANGED faults \/ \E k \in FaultKinds : Fault(k)
<1>1. ASSUME NEW t \in Txs,
             \/ Create(t) \/ Enqueue(t) \/ EnqueueFails(t)
             \/ CancelCheck(t) \/ CancelWrite(t) \/ TimerFires(t) \/ TimerFails(t)
      PROVE  UNCHANGED faults \/ \E k \in FaultKinds : Fault(k)
  BY <1>1 DEF Create, Enqueue, EnqueueFails, CancelCheck, CancelWrite, TimerFires, TimerFails,
              FaultKinds
<1>2. ASSUME NEW w \in Workers, Step(w)
      PROVE  UNCHANGED faults \/ \E k \in FaultKinds : Fault(k)
  <2>1. ASSUME NEW count \in 0..MaxRequeues, ReadMetadata(w, count) \/ RequeueRead(w, count)
        PROVE  UNCHANGED faults \/ \E k \in FaultKinds : Fault(k)
    BY <2>1 DEF ReadMetadata, RequeueRead, CountRead, FaultKinds
  <2>2. CASE ~\E count \in 0..MaxRequeues : ReadMetadata(w, count) \/ RequeueRead(w, count)
    BY <1>2, <2>2 DEF Step, CallSucceeds, CallRetried, CallSwallowed, ReplyLost, CallThrows,
                      WriteMetadata, Complete, RequeueWrite, Fail, Capture, Nack
  <2>3. QED
    BY <2>1, <2>2
<1>3. ASSUME NEW w \in Workers, Faulty(w)
      PROVE  \E k \in FaultKinds : Fault(k)
  BY <1>3 DEF Faulty, AwaitFails, RequeueFails, CaptureFails, FaultKinds
<1>4. ASSUME NEW a \in Admins, Replay(a)
      PROVE  UNCHANGED faults \/ \E k \in FaultKinds : Fault(k)
  BY <1>4 DEF Replay, ReplayRead, ReplayReadStale, ReplayPublish, ReplayPublishFails,
              ReplayMark, ReplayMarkFails, FaultKinds
<1>5. CASE StartPool \/ ChannelLost \/ Crash \/ (\E w \in Workers, t \in Txs : Deliver(w, t))
  BY <1>5 DEF StartPool, ChannelLost, Crash, Deliver, FaultKinds
<1>6. CASE UNCHANGED vars
  BY <1>6 DEF vars
<1>7. QED
  BY <1>1, <1>2, <1>3, <1>4, <1>5, <1>6 DEF Next

\* What is left of the budget only shrinks.
LEMMA FaultsFall ==
  ASSUME faults \in [FaultKinds -> Nat], [Next]_vars
  PROVE  /\ faults' \in [FaultKinds -> Nat]
         /\ \A k \in FaultKinds : faults'[k] <= faults[k]
<1>1. CASE UNCHANGED faults
  BY <1>1
<1>2. CASE \E k \in FaultKinds : Fault(k)
  BY <1>2, FaultFacts
<1>3. QED
  BY <1>1, <1>2, OneFault

LEMMA TypeOKHandles ==
  ASSUME TypeOK, NEW w \in Workers, Handles(w), faults' \in [FaultKinds -> Nat]
  PROVE  TypeOK'
<1>1. /\ Moves(w) /\ Passes(w) /\ Carries(w) /\ Writes(w)
      /\ job[w] \in Jobs /\ job[w].tx \in Txs
      /\ UNCHANGED <<api, cancel, replay, copies, pooled>>
  BY BusyFacts DEF Handles, Moves
<1>2. /\ job' \in [Workers -> Jobs]
      /\ \A v \in Workers :
           /\ job'[v].tx = None <=> job'[v].pc = "idle"
           /\ job'[v].pc \in {"write1", "write2", "requeue"} => job'[v].seen <= MaxRequeues
  <2>1. job \in [Workers -> Jobs] /\ job'[w] \in Jobs /\ job' = [job EXCEPT ![w] = job'[w]]
    BY <1>1 DEF TypeOK, Moves
  <2>2. job' \in [Workers -> Jobs] /\ \A v \in Workers : v # w => job'[v] = job[v]
    BY <2>1
  <2>3. QED
    BY <1>1, <2>2 DEF TypeOK, Moves
<1>3. /\ dlq' \in Seq(DeadLetters) /\ timers' \in [Txs -> Nat] /\ queue' \in [Txs -> Nat]
      /\ Len(dlq) \in Nat /\ Len(dlq') \in Nat /\ Len(dlq') >= Len(dlq)
  <2>1. dlq \in Seq(DeadLetters) /\ timers \in [Txs -> Nat] /\ queue \in [Txs -> Nat]
        /\ Len(dlq) \in Nat
    BY LenProperties DEF TypeOK
  <2>2. CASE dlq' = Append(dlq, Letter(job[w].tx)) /\ UNCHANGED <<queue, timers>>
    BY <1>1, <2>1, <2>2, CaptureFacts
  <2>3. CASE /\ UNCHANGED <<queue, dlq>>
             /\ \/ UNCHANGED timers
                \/ timers' = [timers EXCEPT ![job[w].tx] = @ + 1]
    BY <1>1, <2>1, <2>3
  <2>4. QED
    BY <1>1, <2>2, <2>3 DEF Passes
<1>4. carried' \in [Txs -> SUBSET Calls]
  <2>1. carried \in [Txs -> SUBSET Calls]
    BY DEF TypeOK
  <2>2. CASE UNCHANGED carried
    BY <2>1, <2>2
  <2>3. CASE /\ carried' = [carried EXCEPT ![job[w].tx] = @ \cup {job[w].pc}]
             /\ job[w].pc \in Calls
    <3>1. carried[job[w].tx] \cup {job[w].pc} \in SUBSET Calls
      BY <1>1, <2>1, <2>3
    <3>2. QED
      BY <1>1, <2>1, <2>3, <3>1
  <2>4. QED
    BY <1>1, <2>2, <2>3 DEF Carries
<1>5. status' \in [Txs -> Statuses \cup {"none"}]
  BY <1>1 DEF TypeOK, Writes, Statuses
<1>6. requeueCount' \in [Txs -> 0..MaxRequeues]
  <2>1. job[w].pc \in {"write1", "write2", "requeue"} => job[w].seen \in 0..MaxRequeues
    BY <1>1, PipelineAssumption DEF TypeOK, Jobs
  <2>2. QED
    BY <1>1, <2>1 DEF TypeOK, Writes
<1>7. \A a \in Admins : replay'[a].pc # "idle" => replay'[a].entry \in 1..Len(dlq')
  <2>1. \A a \in Admins : replay[a].entry \in 1..Len(dlq) => replay[a].entry \in 1..Len(dlq')
    BY <1>3
  <2>2. QED
    BY <1>1, <2>1 DEF TypeOK
<1>8. QED
  BY <1>1, <1>2, <1>3, <1>4, <1>5, <1>6, <1>7 DEF TypeOK

\* The messages a lost channel returns are counted.
LEMMA ReturnedFacts ==
  ASSUME TypeOK
  PROVE  /\ Returned \in [Txs -> Nat]
         /\ \A t \in Txs : Cardinality(Unacked(t)) \in Nat /\ Cardinality(Captured(t)) \in Nat
         /\ \A t \in Txs : Returned[t] >= queue[t]
         /\ \A t \in Txs : (\A w \in Workers : job[w].tx # t) => Returned[t] = queue[t]
<1>1. SUFFICES ASSUME NEW t \in Txs
               PROVE  /\ Returned[t] \in Nat /\ Returned[t] >= queue[t]
                      /\ Cardinality(Unacked(t)) \in Nat /\ Cardinality(Captured(t)) \in Nat
                      /\ (\A w \in Workers : job[w].tx # t) => Returned[t] = queue[t]
  BY DEF Returned
<1> DEFINE S == Unacked(t)
<1>2. IsFiniteSet(S) /\ Cardinality(S) \in Nat
  BY PipelineAssumption, FS_Subset, FS_CardinalityType DEF Unacked
<1>2a. Cardinality(Captured(t)) \in Nat
  BY <1>2, FS_Subset, FS_CardinalityType DEF Captured
<1>3. (\A w \in Workers : job[w].tx # t) => S = {}
  BY DEF Unacked
<1>4. Returned[t] = queue[t] + Cardinality(S)
  BY DEF Returned
<1>5. queue[t] \in Nat
  BY DEF TypeOK
<1>6. QED
  BY <1>2, <1>2a, <1>3, <1>4, <1>5, FS_EmptySet

LEMMA TypeOKInit == Init => TypeOK
<1>1. SUFFICES ASSUME Init PROVE TypeOK
  OBVIOUS
<1>2. <<>> \in Seq(DeadLetters) /\ 0 \in 0..MaxRequeues
  BY PipelineAssumption, EmptySeq
<1>3. NoReplay \in Replays /\ NoReplay.pc = "idle"
  BY DEF NoReplay, Replays
<1>4. FALSE \in BOOLEAN
  OBVIOUS
<1>5. /\ job \in [Workers -> Jobs]
      /\ \A w \in Workers : job[w] = Idle
      /\ replay \in [Admins -> Replays] /\ \A a \in Admins : replay[a].pc = "idle"
  BY <1>1, <1>3, IdleFacts DEF Init
<1>6. QED
  BY <1>1, <1>2, <1>4, <1>5, IdleFacts, PipelineAssumption DEF Init, TypeOK, Statuses

\* What happens around the handlers keeps every shape.
LEMMA TypeOKStep ==
  ASSUME TypeOK, [Next]_vars
  PROVE  TypeOK'
<1>1. faults' \in [FaultKinds -> Nat]
  BY FaultsFall DEF TypeOK
<1>2. ASSUME NEW w \in Workers, Step(w) \/ Faulty(w) PROVE TypeOK'
  BY <1>1, <1>2, StepHandles, TypeOKHandles
<1>3. ASSUME NEW t \in Txs, Create(t) \/ Enqueue(t) \/ EnqueueFails(t) PROVE TypeOK'
  <2>1. /\ status' \in [Txs -> Statuses \cup {"none"}]
        /\ api' \in [Txs -> {"new", "created", "done"}]
        /\ queue' \in [Txs -> Nat]
    <3>1. CASE Create(t)
      BY <3>1 DEF TypeOK, Create, Statuses
    <3>2. CASE Enqueue(t)
      BY <3>2 DEF TypeOK, Enqueue, rows
    <3>3. CASE EnqueueFails(t)
      BY <3>3 DEF TypeOK, EnqueueFails, rows
    <3>4. QED
      BY <1>3, <3>1, <3>2, <3>3
  <2>2. UNCHANGED <<requeueCount, cancel, job, timers, dlq, replay, carried, copies, pooled>>
    BY <1>3 DEF Create, Enqueue, EnqueueFails, rows, money
  <2>3. QED
    BY <1>1, <2>1, <2>2 DEF TypeOK
<1>4. ASSUME NEW t \in Txs, CancelCheck(t) PROVE TypeOK'
  BY <1>1, <1>4 DEF TypeOK, CancelCheck, rows, money
<1>5. ASSUME NEW t \in Txs, CancelWrite(t) \/ TimerFires(t) \/ TimerFails(t) PROVE TypeOK'
  <2>1. /\ status' \in [Txs -> Statuses \cup {"none"}]
        /\ cancel' \in [Txs -> BOOLEAN]
        /\ queue' \in [Txs -> Nat] /\ timers' \in [Txs -> Nat]
    <3>1. CASE CancelWrite(t)
      BY <3>1 DEF TypeOK, CancelWrite, Statuses
    <3>2. CASE TimerFires(t)
      BY <3>2 DEF TypeOK, TimerFires, rows, requests
    <3>3. CASE TimerFails(t)
      BY <3>3 DEF TypeOK, TimerFails, rows, requests
    <3>4. QED
      BY <1>5, <3>1, <3>2, <3>3
  <2>2. UNCHANGED <<requeueCount, api, job, dlq, replay, carried, copies, pooled>>
    BY <1>5 DEF CancelWrite, TimerFires, TimerFails, rows, requests, money
  <2>3. QED
    BY <1>1, <2>1, <2>2 DEF TypeOK
<1>6. ASSUME NEW w \in Workers, NEW t \in Txs, Deliver(w, t) PROVE TypeOK'
  <2> DEFINE k == [Idle EXCEPT !.tx = t, !.pc = "advance", !.held = TRUE]
  <2>1. /\ job' = [job EXCEPT ![w] = k]
        /\ queue' \in [Txs -> Nat]
        /\ UNCHANGED <<status, requeueCount, api, cancel, replay, timers, dlq,
                       carried, copies, pooled, faults>>
    BY <1>6 DEF Deliver, TypeOK, rows, requests, money
  <2>2. "advance" \in Points /\ TRUE \in BOOLEAN /\ t \in Txs \cup {None} /\ t # None
    BY PipelineAssumption DEF Points, Calls
  <2>3. k \in Jobs /\ k.tx = t /\ k.pc = "advance"
    BY <2>2, IdleFacts DEF Jobs
  <2> HIDE DEF k
  <2>4. /\ job' \in [Workers -> Jobs] /\ job'[w] = k
        /\ \A v \in Workers : v # w => job'[v] = job[v]
    BY <2>1, <2>3 DEF TypeOK
  <2>5. QED
    BY <1>1, <2>1, <2>2, <2>3, <2>4 DEF TypeOK
<1>7. CASE StartPool
  BY <1>1, <1>7 DEF TypeOK, StartPool, rows, requests
<1>8. CASE ChannelLost
  <2>1. /\ queue' = Returned
        /\ job' = [w \in Workers |-> [job[w] EXCEPT !.held = FALSE]]
        /\ UNCHANGED <<status, requeueCount, api, cancel, replay, timers, dlq,
                       carried, pooled>>
    BY <1>8 DEF ChannelLost, rows, requests
  <2>1a. copies' \in [Txs -> Nat]
    BY <1>8, ReturnedFacts DEF ChannelLost, TypeOK
  <2>2. \A w \in Workers :
          /\ job'[w] \in Jobs
          /\ job'[w].tx = job[w].tx /\ job'[w].pc = job[w].pc /\ job'[w].seen = job[w].seen
    <3>1. SUFFICES ASSUME NEW w \in Workers, NEW k, k = [job[w] EXCEPT !.held = FALSE]
                   PROVE  /\ k \in Jobs
                          /\ k.tx = job[w].tx /\ k.pc = job[w].pc /\ k.seen = job[w].seen
      BY <2>1
    <3>2. job[w] \in Jobs /\ FALSE \in BOOLEAN
      BY DEF TypeOK
    <3>3. QED
      BY <3>1, <3>2 DEF Jobs
  <2>3. job' \in [Workers -> Jobs]
    BY <2>1, <2>2
  <2>4. QED
    BY <1>1, <2>1, <2>1a, <2>2, <2>3, ReturnedFacts DEF TypeOK
<1>9. CASE Crash
  <2>1. NoReplay \in Replays /\ NoReplay.pc = "idle" /\ FALSE \in BOOLEAN
    BY DEF NoReplay, Replays
  <2>2. /\ queue' = Returned
        /\ timers' \in [Txs -> Nat]
        /\ api' \in [Txs -> {"new", "created", "done"}]
        /\ cancel' \in [Txs -> BOOLEAN]
        /\ pooled' \in BOOLEAN
        /\ UNCHANGED <<status, requeueCount, dlq, carried>>
    BY <1>9, <2>1 DEF Crash, TypeOK, rows
  <2>2a. copies' \in [Txs -> Nat]
    <3>1. /\ copies' = [t \in Txs |-> copies[t] + Cardinality(Captured(t))]
          /\ copies \in [Txs -> Nat]
      BY <1>9 DEF Crash, TypeOK
    <3>2. QED
      BY <3>1, ReturnedFacts
  <2>3. /\ job' \in [Workers -> Jobs] /\ \A w \in Workers : job'[w] = Idle
        /\ replay' \in [Admins -> Replays] /\ \A a \in Admins : replay'[a].pc = "idle"
    BY <1>9, <2>1, IdleFacts DEF Crash
  <2>4. QED
    BY <1>1, <2>2, <2>2a, <2>3, ReturnedFacts, IdleFacts DEF TypeOK
<1>10. ASSUME NEW a \in Admins, NEW i \in 1..Len(dlq), ReplayRead(a, i) \/ ReplayReadStale(a, i)
       PROVE TypeOK'
  <2>1. /\ [entry |-> i, pc |-> "read"] \in Replays
        /\ [entry |-> i, pc |-> "read"].entry = i
    BY LenProperties DEF TypeOK, Replays
  <2>2. /\ replay' \in [Admins -> Replays]
        /\ \A b \in Admins : replay'[b].pc # "idle" => replay'[b].entry \in 1..Len(dlq)
    BY <1>10, <2>1 DEF ReplayRead, ReplayReadStale, TypeOK
  <2>3. QED
    BY <1>1, <1>10, <2>2 DEF ReplayRead, ReplayReadStale, TypeOK, rows, money
<1>11. ASSUME NEW a \in Admins, ReplayPublish(a) \/ ReplayMark(a) PROVE TypeOK'
  <2> DEFINE i == replay[a].entry
  <2>1. i \in 1..Len(dlq) /\ dlq[i] \in DeadLetters
    BY <1>11, ElementOfSeq DEF ReplayPublish, ReplayMark, TypeOK
  <2>2. PICK e \in DeadLetters : dlq' = [dlq EXCEPT ![i] = e]
    <3>1. CASE ReplayPublish(a)
      <4>1. [dlq[i] EXCEPT !.published = @ + 1] \in DeadLetters
        BY <2>1 DEF DeadLetters
      <4>2. dlq' = [dlq EXCEPT ![i] = [dlq[i] EXCEPT !.published = @ + 1]]
        BY <2>1, <3>1 DEF ReplayPublish, TypeOK
      <4>3. QED
        BY <4>1, <4>2
    <3>2. CASE ReplayMark(a)
      <4>1. [dlq[i] EXCEPT !.replayed = TRUE] \in DeadLetters
        <5>1. TRUE \in BOOLEAN
          OBVIOUS
        <5>2. QED
          BY <2>1, <5>1 DEF DeadLetters
      <4>2. dlq' = [dlq EXCEPT ![i] = [dlq[i] EXCEPT !.replayed = TRUE]]
        BY <2>1, <3>2 DEF ReplayMark, TypeOK
      <4>3. QED
        BY <4>1, <4>2
    <3>3. QED
      BY <1>11, <3>1, <3>2
  <2>3. dlq' \in Seq(DeadLetters) /\ Len(dlq') = Len(dlq)
    BY <2>1, <2>2, RowFacts DEF TypeOK
  <2>4. /\ replay' \in [Admins -> Replays]
        /\ \A b \in Admins : replay'[b].pc # "idle" => replay'[b].entry \in 1..Len(dlq)
    <3>1. PICK q \in Replays : /\ replay' = [replay EXCEPT ![a] = q]
                               /\ q.pc # "idle" => q.entry = i
      <4>1. CASE ReplayPublish(a)
        <5>1. [replay[a] EXCEPT !.pc = "published"] \in Replays
              /\ [replay[a] EXCEPT !.pc = "published"].entry = i
          BY DEF TypeOK, Replays
        <5>2. replay' = [replay EXCEPT ![a] = [replay[a] EXCEPT !.pc = "published"]]
          BY <4>1 DEF ReplayPublish, TypeOK
        <5>3. QED
          BY <5>1, <5>2
      <4>2. CASE ReplayMark(a)
        <5>1. NoReplay \in Replays /\ NoReplay.pc = "idle"
          BY DEF NoReplay, Replays
        <5>2. QED
          BY <4>2, <5>1 DEF ReplayMark
      <4>3. QED
        BY <1>11, <4>1, <4>2
    <3>2. QED
      BY <2>1, <3>1 DEF TypeOK
  <2>5. /\ queue' \in [Txs -> Nat]
        /\ copies' \in [Txs -> Nat]
        /\ UNCHANGED <<status, requeueCount, api, cancel, job, timers, carried, pooled>>
    <3>1. dlq[i].tx \in Txs
      BY <2>1 DEF DeadLetters
    <3>2. CASE ReplayPublish(a)
      BY <3>1, <3>2 DEF ReplayPublish, TypeOK, rows, money
    <3>3. CASE ReplayMark(a)
      BY <3>3 DEF ReplayMark, TypeOK, rows, money
    <3>4. QED
      BY <1>11, <3>2, <3>3
  <2>6. QED
    BY <1>1, <2>3, <2>4, <2>5 DEF TypeOK
<1>12. ASSUME NEW a \in Admins, ReplayPublishFails(a) \/ ReplayMarkFails(a) PROVE TypeOK'
  <2>1. NoReplay \in Replays /\ NoReplay.pc = "idle"
    BY DEF NoReplay, Replays
  <2>2. /\ replay' = [replay EXCEPT ![a] = NoReplay]
        /\ UNCHANGED <<status, requeueCount, api, cancel, queue, job, timers, dlq,
                       carried, copies, pooled>>
    BY <1>12 DEF ReplayPublishFails, ReplayMarkFails, rows, money
  <2>3. QED
    BY <1>1, <2>1, <2>2 DEF TypeOK
<1>13. CASE UNCHANGED vars
  BY <1>13 DEF TypeOK, vars
<1>14. QED
  BY <1>2, <1>3, <1>4, <1>5, <1>6, <1>7, <1>8, <1>9, <1>10, <1>11, <1>12, <1>13 DEF Next, Replay

\* Rows, messages, handlers and replays keep their shape; in particular no
\* requeue is ever recorded beyond MAX_PROVIDER_REQUEUE_ATTEMPTS
\* (worker.ts:532), however many handlers write the metadata back.
THEOREM PipelineTypes == Spec => []TypeOK
<1>1. TypeOK /\ [Next]_vars => TypeOK'
  BY TypeOKStep
<1>2. QED
  BY <1>1, TypeOKInit, PTL DEF Spec

-----------------------------------------------------------------------------
\* The provider accepted the request of a handler that has got past its call.
ChargedInv ==
  /\ \A w \in Workers : job[w].pc \in Charged => "provider" \in carried[job[w].tx]
  /\ \A t \in Txs : status[t] = "completed" => "provider" \in carried[t]

\* A handler of a deposit that has got past the second payment has made it,
\* as long as no payment goes through the pool.
SettledInv ==
  /\ ~pooled
  /\ \A w \in Workers :
       job[w].pc \in Settling /\ job[w].tx \in Deposits => "settle" \in carried[job[w].tx]
  /\ \A t \in Deposits : status[t] = "completed" => "settle" \in carried[t]

\* The steps that are not a handler's write no verdict but "pending" and
\* "cancelled", move no money and start handlers only at their beginning.
Around ==
  /\ UNCHANGED carried
  /\ \A t \in Txs : status'[t] \in {status[t], "pending", "cancelled"}
  /\ \A w \in Workers :
       \/ job'[w].tx = job[w].tx /\ job'[w].pc = job[w].pc
       \/ job'[w].pc \in {"idle", "advance"}
  /\ pooled' => pooled \/ PoolAllowed

\* Handlers run on when the channel is lost.
LEMMA ChannelKeeps ==
  ASSUME TypeOK, ChannelLost
  PROVE  \A w \in Workers : job'[w].tx = job[w].tx /\ job'[w].pc = job[w].pc
<1>1. SUFFICES ASSUME NEW w \in Workers, NEW k, k = [job[w] EXCEPT !.held = FALSE]
               PROVE  k.tx = job[w].tx /\ k.pc = job[w].pc
  BY DEF ChannelLost
<1>2. job[w] \in Jobs
  BY DEF TypeOK
<1>3. QED
  BY <1>1, <1>2 DEF Jobs

LEMMA AroundFacts ==
  ASSUME TypeOK, [Next]_vars
  PROVE  Around \/ \E w \in Workers : Handles(w)
<1>1. ASSUME NEW t \in Txs,
             \/ Create(t) \/ Enqueue(t) \/ EnqueueFails(t)
             \/ CancelCheck(t) \/ CancelWrite(t) \/ TimerFires(t) \/ TimerFails(t)
      PROVE  Around
  <2>1. UNCHANGED <<carried, pooled, job>>
    BY <1>1 DEF Create, Enqueue, EnqueueFails, CancelCheck, CancelWrite, TimerFires, TimerFails, money
  <2>2. \/ UNCHANGED status
        \/ status' = [status EXCEPT ![t] = "pending"]
        \/ status' = [status EXCEPT ![t] = "cancelled"]
    BY <1>1 DEF Create, Enqueue, EnqueueFails, CancelCheck, CancelWrite, TimerFires, TimerFails, rows
  <2>3. QED
    BY <2>1, <2>2 DEF Around, TypeOK
<1>2. ASSUME NEW w \in Workers, NEW t \in Txs, Deliver(w, t) PROVE Around
  <2>1. [Idle EXCEPT !.tx = t, !.pc = "advance", !.held = TRUE].pc = "advance"
    BY DEF Idle
  <2>2. QED
    BY <1>2, <2>1 DEF Around, TypeOK, Deliver, rows, money
<1>3. CASE StartPool
  BY <1>3 DEF Around, StartPool, rows
<1>4. CASE ChannelLost
  <2>1. \A w \in Workers : job'[w].tx = job[w].tx /\ job'[w].pc = job[w].pc
    BY <1>4, ChannelKeeps
  <2>2. UNCHANGED <<carried, pooled, status>>
    BY <1>4 DEF ChannelLost, rows, money
  <2>3. QED
    BY <2>1, <2>2 DEF Around
<1>5. CASE Crash
  BY <1>5, IdleFacts DEF Around, Crash, rows
<1>6. ASSUME NEW a \in Admins, Replay(a) PROVE Around
  <2>1. UNCHANGED <<carried, pooled, status, job>>
    BY <1>6 DEF Replay, ReplayRead, ReplayReadStale, ReplayPublish, ReplayPublishFails,
                ReplayMark, ReplayMarkFails, rows, money
  <2>2. QED
    BY <2>1 DEF Around
<1>7. CASE UNCHANGED vars
  BY <1>7 DEF Around, vars
<1>8. QED
  BY <1>1, <1>2, <1>3, <1>4, <1>5, <1>6, <1>7, StepHandles DEF Next

\* A handler's step as the two invariants need it.
LEMMA OthersStay ==
  ASSUME TypeOK, NEW w \in Workers, Moves(w)
  PROVE  \A v \in Workers : v # w => job'[v] = job[v]
  BY DEF Moves, TypeOK

LEMMA ChargedStep ==
  ASSUME TypeOK, ChargedInv, [Next]_vars
  PROVE  ChargedInv'
<1>1. CASE Around
  <2>1. \A w \in Workers : job'[w].pc \in Charged =>
          job'[w].tx = job[w].tx /\ job'[w].pc = job[w].pc
    BY <1>1 DEF Around, Charged
  <2>2. QED
    BY <1>1, <2>1 DEF Around, ChargedInv
<1>2. ASSUME NEW w \in Workers, Handles(w) PROVE ChargedInv'
  <2>1. /\ job[w].tx \in Txs /\ job[w].pc # "idle"
        /\ job'[w].pc # "idle" => job'[w].tx = job[w].tx
        /\ Carries(w) /\ Writes(w)
    BY <1>2 DEF Handles, Moves
  <2>2. \A v \in Workers : v # w => job'[v] = job[v]
    BY <1>2, OthersStay DEF Handles
  <2>3. \A t \in Txs : "provider" \in carried[t] => "provider" \in carried'[t]
    BY <2>1 DEF Carries, TypeOK
  <2>4. job'[w].pc \in Charged => "provider" \in carried'[job[w].tx]
    <3>1. job[w].pc \in Charged => "provider" \in carried[job[w].tx]
      BY DEF ChargedInv
    <3>2. QED
      BY <2>1, <2>3, <3>1 DEF Carries
  <2>5. \A v \in Workers : job'[v].pc \in Charged => "provider" \in carried'[job'[v].tx]
    <3>1. SUFFICES ASSUME NEW v \in Workers, job'[v].pc \in Charged
                   PROVE  "provider" \in carried'[job'[v].tx]
      OBVIOUS
    <3>2. CASE v = w
      BY <2>1, <2>4, <3>1, <3>2 DEF Charged
    <3>3. CASE v # w
      <4>1. job'[v] = job[v] /\ job[v].tx \in Txs /\ "provider" \in carried[job[v].tx]
        BY <2>2, <3>1, <3>3, BusyFacts DEF ChargedInv, Charged
      <4>2. QED
        BY <2>3, <4>1
    <3>4. QED
      BY <3>2, <3>3
  <2>6. \A t \in Txs : status'[t] = "completed" => "provider" \in carried'[t]
    <3>1. job[w].pc = "complete" => "provider" \in carried[job[w].tx]
      BY DEF ChargedInv, Charged
    <3>2. \A t \in Txs : status'[t] = "completed" => "provider" \in carried[t]
      BY <2>1, <3>1 DEF Writes, ChargedInv, TypeOK
    <3>3. QED
      BY <2>3, <3>2
  <2>7. QED
    BY <2>5, <2>6 DEF ChargedInv
<1>3. QED
  BY <1>1, <1>2, AroundFacts

LEMMA SettledStep ==
  ASSUME ~PoolAllowed, TypeOK, SettledInv, [Next]_vars
  PROVE  SettledInv'
<1>1. CASE Around
  <2>1. \A w \in Workers : job'[w].pc \in Settling =>
          job'[w].tx = job[w].tx /\ job'[w].pc = job[w].pc
    BY <1>1 DEF Around, Settling
  <2>2. \A t \in Deposits : t \in Txs
    BY PipelineAssumption
  <2>3. QED
    BY <1>1, <2>1, <2>2 DEF Around, SettledInv
<1>2. ASSUME NEW w \in Workers, Handles(w) PROVE SettledInv'
  <2>1. /\ job[w].tx \in Txs /\ job[w].pc # "idle"
        /\ job'[w].pc # "idle" => job'[w].tx = job[w].tx
        /\ Carries(w) /\ Writes(w) /\ ~pooled /\ ~pooled'
    BY <1>2 DEF Handles, Moves, SettledInv
  <2>2. \A v \in Workers : v # w => job'[v] = job[v]
    BY <1>2, OthersStay DEF Handles
  <2>3. \A t \in Txs : "settle" \in carried[t] => "settle" \in carried'[t]
    BY <2>1 DEF Carries, TypeOK
  <2>4. job'[w].pc \in Settling /\ job[w].tx \in Deposits => "settle" \in carried'[job[w].tx]
    <3>1. job[w].pc \in Settling /\ job[w].tx \in Deposits => "settle" \in carried[job[w].tx]
      BY DEF SettledInv
    <3>2. QED
      BY <2>1, <2>3, <3>1 DEF Carries
  <2>5. \A v \in Workers :
          job'[v].pc \in Settling /\ job'[v].tx \in Deposits => "settle" \in carried'[job'[v].tx]
    <3>1. SUFFICES ASSUME NEW v \in Workers, job'[v].pc \in Settling, job'[v].tx \in Deposits
                   PROVE  "settle" \in carried'[job'[v].tx]
      OBVIOUS
    <3>2. CASE v = w
      BY <2>1, <2>4, <3>1, <3>2 DEF Settling
    <3>3. CASE v # w
      <4>1. job'[v] = job[v] /\ job[v].tx \in Txs /\ "settle" \in carried[job[v].tx]
        BY <2>2, <3>1, <3>3, BusyFacts DEF SettledInv, Settling
      <4>2. QED
        BY <2>3, <4>1
    <3>4. QED
      BY <3>2, <3>3
  <2>6. \A t \in Deposits : status'[t] = "completed" => "settle" \in carried'[t]
    <3>1. job[w].pc = "complete" /\ job[w].tx \in Deposits => "settle" \in carried[job[w].tx]
      BY DEF SettledInv, Settling
    <3>2. \A t \in Deposits : t \in Txs
      BY PipelineAssumption
    <3>3. \A t \in Deposits : status'[t] = "completed" => "settle" \in carried[t]
      BY <2>1, <3>1, <3>2 DEF Writes, SettledInv, TypeOK
    <3>4. QED
      BY <2>3, <3>2, <3>3
  <2>7. QED
    BY <2>1, <2>5, <2>6 DEF SettledInv
<1>3. QED
  BY <1>1, <1>2, AroundFacts

\* No transaction is reported completed before the provider accepted the request
\* (worker.ts:331-412): with or without the pool, whatever is lost, redelivered,
\* restarted, requeued, replayed or cancelled around it.  That an accepted
\* request has moved the money is the provider's word (mtn.ts:220).
CompletedMeansAccepted ==
  \A t \in Txs : status[t] = "completed" => "provider" \in carried[t]

\* It holds in every behaviour, whatever the budget of faults.
THEOREM PipelineAccepted == Spec => []CompletedMeansAccepted
<1>1. Init => ChargedInv
  BY IdleFacts DEF Init, ChargedInv, Charged
<1>2. TypeOK /\ ChargedInv /\ [Next]_vars => ChargedInv'
  BY ChargedStep
<1>3. ChargedInv => CompletedMeansAccepted
  BY DEF ChargedInv, CompletedMeansAccepted
<1>4. QED
  BY <1>1, <1>2, <1>3, PipelineTypes, PTL DEF Spec

\* "Transaction successfully settled and confirmed": without the pool, the
\* payment of every completed deposit that follows the provider's was made on
\* Stellar too, under every fault.
THEOREM PipelinePaid == ~PoolAllowed => (Spec => []CompletedMeansPaid)
<1>1. SUFFICES ASSUME ~PoolAllowed PROVE Spec => []CompletedMeansPaid
  OBVIOUS
<1>2. Init => SettledInv
  BY IdleFacts, PipelineAssumption DEF Init, SettledInv, Settling
<1>3. TypeOK /\ SettledInv /\ [Next]_vars => SettledInv'
  BY <1>1, SettledStep
<1>4. CompletedMeansAccepted /\ SettledInv => CompletedMeansPaid
  BY DEF SettledInv, CompletedMeansAccepted, CompletedMeansPaid
<1>5. QED
  BY <1>2, <1>3, <1>4, PipelineTypes, PipelineAccepted, PTL DEF Spec
-----------------------------------------------------------------------------
\* No fault happens more often than its budget allows.
WithinBudget == \A k \in FaultKinds : faults[k] <= Budget[k]

LEMMA BudgetHolds == Spec => []WithinBudget
<1>1. Init => WithinBudget
  BY PipelineAssumption DEF Init, WithinBudget
<1>2. TypeOK /\ WithinBudget /\ [Next]_vars => WithinBudget'
  <2>1. SUFFICES ASSUME TypeOK, WithinBudget, [Next]_vars, NEW k \in FaultKinds
                 PROVE  faults'[k] <= Budget[k]
    BY DEF WithinBudget
  <2>2. /\ faults[k] \in Nat /\ faults'[k] \in Nat /\ Budget[k] \in Nat
        /\ faults'[k] <= faults[k] /\ faults[k] <= Budget[k]
    BY <2>1, FaultsFall, PipelineAssumption DEF TypeOK, WithinBudget
  <2>3. QED
    BY <2>2
<1>3. QED
  BY <1>1, <1>2, PipelineTypes, PTL DEF Spec

\* A fault without a budget does not happen.
LEMMA NoFault ==
  ASSUME TypeOK, WithinBudget, NEW k \in FaultKinds, Budget[k] = 0
  PROVE  ~Fault(k) /\ faults[k] = 0
  BY DEF TypeOK, WithinBudget, Fault

-----------------------------------------------------------------------------
\* The operators who have read letter i and not published it yet, and those who
\* have published it and still owe the mark.
Readers(i) == {a \in Admins : replay[a].pc = "read" /\ replay[a].entry = i}
Owing(i) == {a \in Admins : replay[a].pc = "published" /\ replay[a].entry = i}

\* A letter that is not marked was published only by those who owe the mark and
\* in excused ways, so there is room for every operator who may still read it.
ReplayInv ==
  \A i \in 1..Len(dlq) :
    /\ dlq[i].published + Cardinality(Readers(i)) <= Cardinality(Admins) + Excuses
    /\ ~dlq[i].replayed => dlq[i].published <= Cardinality(Owing(i)) + Excuses

\* How the excuses grow with the faults.
LEMMA ExcuseFacts ==
  ASSUME TypeOK, WithinBudget
  PROVE  /\ Excuses \in Nat /\ Cardinality(Admins) \in Nat
         /\ UNCHANGED faults => Excuses' = Excuses
         /\ \A k \in FaultKinds : Fault(k) =>
              /\ Excuses' \in Nat /\ Excuses' >= Excuses
              /\ k \in {"lag", "mark"} => Excuses' = Excuses + 1
              /\ k = "crash" => Excuses' = Excuses + Cardinality(Admins)
<1> DEFINE N == Cardinality(Admins)
<1>1. N \in Nat
  BY PipelineAssumption, FS_CardinalityType
<1>2. \A k \in FaultKinds : Used(k) \in Nat
  BY PipelineAssumption DEF TypeOK, WithinBudget, Used
<1>3. "mark" \in FaultKinds /\ "lag" \in FaultKinds /\ "crash" \in FaultKinds
  BY DEF FaultKinds
<1> HIDE DEF N
<1>4. \A m, n \in Nat : m * n \in Nat /\ m * (n + 1) = m * n + m
  OBVIOUS
<1>5. Excuses = Used("mark") + Used("lag") + N * Used("crash")
      /\ Excuses' = Used("mark")' + Used("lag")' + N * Used("crash")'
  BY DEF Excuses, N
<1>6. Excuses \in Nat
  BY <1>1, <1>2, <1>3, <1>4, <1>5
<1>7. ASSUME UNCHANGED faults PROVE Excuses' = Excuses
  BY <1>7 DEF Excuses, Used
<1>8. ASSUME NEW k \in FaultKinds, Fault(k)
      PROVE  /\ Excuses' \in Nat /\ Excuses' >= Excuses
             /\ k \in {"lag", "mark"} => Excuses' = Excuses + 1
             /\ k = "crash" => Excuses' = Excuses + N
  <2>1. \A l \in FaultKinds : Used(l)' = IF l = k THEN Used(l) + 1 ELSE Used(l)
    <3>1. SUFFICES ASSUME NEW l \in FaultKinds
                   PROVE  Used(l)' = IF l = k THEN Used(l) + 1 ELSE Used(l)
      OBVIOUS
    <3>2. faults[l] \in Nat /\ Budget[l] \in Nat
      BY PipelineAssumption DEF TypeOK
    <3>3. faults'[l] = IF l = k THEN faults[l] - 1 ELSE faults[l]
      BY <1>8 DEF TypeOK, Fault
    <3>4. QED
      BY <3>2, <3>3 DEF Used
  <2>2. /\ Used("mark")' = IF k = "mark" THEN Used("mark") + 1 ELSE Used("mark")
        /\ Used("lag")' = IF k = "lag" THEN Used("lag") + 1 ELSE Used("lag")
        /\ N * Used("crash")' = IF k = "crash" THEN N * Used("crash") + N ELSE N * Used("crash")
    BY <1>1, <1>2, <1>3, <1>4, <2>1
  <2>3. Used("mark") \in Nat /\ Used("lag") \in Nat /\ N * Used("crash") \in Nat
    BY <1>1, <1>2, <1>3, <1>4
  <2> DEFINE x == N * Used("crash")
             y == N * Used("crash")'
  <2>4. x \in Nat /\ y = IF k = "crash" THEN x + N ELSE x
    BY <2>2, <2>3
  <2>5. Excuses = Used("mark") + Used("lag") + x /\ Excuses' = Used("mark")' + Used("lag")' + y
    BY <1>5
  <2> HIDE DEF x, y
  <2>6. QED
    BY <1>1, <2>2, <2>3, <2>4, <2>5
<1>9. QED
  BY <1>1, <1>6, <1>7, <1>8 DEF N

\* There are never more readers and debtors than operators.
LEMMA OperatorFacts ==
  ASSUME NEW i
  PROVE  /\ IsFiniteSet(Readers(i)) /\ IsFiniteSet(Owing(i))
         /\ Cardinality(Readers(i)) \in Nat /\ Cardinality(Owing(i)) \in Nat
         /\ Cardinality(Readers(i)) + Cardinality(Owing(i)) <= Cardinality(Admins)
         /\ \A a \in Admins : a \notin Readers(i) /\ a \notin Owing(i) =>
              Cardinality(Readers(i)) + Cardinality(Owing(i)) < Cardinality(Admins)
<1>1. IsFiniteSet(Readers(i)) /\ IsFiniteSet(Owing(i))
  BY PipelineAssumption, FS_Subset DEF Readers, Owing
<1>2. Readers(i) \cup Owing(i) \subseteq Admins /\ Readers(i) \cap Owing(i) = {}
  BY DEF Readers, Owing
<1>3. /\ IsFiniteSet(Readers(i) \cup Owing(i))
      /\ Cardinality(Readers(i) \cup Owing(i)) =
           Cardinality(Readers(i)) + Cardinality(Owing(i)) - Cardinality({})
  BY <1>1, <1>2, FS_Union
<1>4. Cardinality(Readers(i) \cup Owing(i)) <= Cardinality(Admins)
  BY <1>2, PipelineAssumption, FS_Subset
<1>5. Cardinality({}) = 0 /\ Cardinality(Readers(i)) \in Nat /\ Cardinality(Owing(i)) \in Nat
      /\ Cardinality(Admins) \in Nat
  BY <1>1, FS_EmptySet, FS_CardinalityType, PipelineAssumption
<1>6. ASSUME NEW a \in Admins, a \notin Readers(i), a \notin Owing(i)
      PROVE  Cardinality(Readers(i) \cup Owing(i)) < Cardinality(Admins)
  <2>1. Readers(i) \cup Owing(i) \subseteq Admins \ {a}
    BY <1>2, <1>6
  <2>2. IsFiniteSet(Admins \ {a}) /\ Cardinality(Admins \ {a}) = Cardinality(Admins) - 1
    BY PipelineAssumption, FS_RemoveElement
  <2>3. Cardinality(Readers(i) \cup Owing(i)) <= Cardinality(Admins \ {a})
    BY <2>1, <2>2, FS_Subset
  <2>4. Cardinality(Readers(i) \cup Owing(i)) \in Nat
    BY <1>3, FS_CardinalityType
  <2>5. QED
    BY <1>5, <2>2, <2>3, <2>4
<1>7. Cardinality(Readers(i) \cup Owing(i)) = Cardinality(Readers(i)) + Cardinality(Owing(i))
  BY <1>3, <1>5
<1>8. QED
  BY <1>1, <1>4, <1>5, <1>6, <1>7

\* What the steps of one operator do to the two sets.
LEMMA GrownFacts ==
  ASSUME NEW S, IsFiniteSet(S), NEW a
  PROVE  /\ a \notin S => Cardinality(S \cup {a}) = Cardinality(S) + 1
         /\ a \in S => Cardinality(S \ {a}) = Cardinality(S) - 1
         /\ Cardinality(S \ {a}) <= Cardinality(S)
         /\ Cardinality(S \ {a}) \in Nat /\ Cardinality(S) \in Nat
         /\ Cardinality(S) <= Cardinality(S \ {a}) + 1
<1>1. /\ IsFiniteSet(S \ {a}) /\ Cardinality(S) \in Nat /\ Cardinality(S \ {a}) \in Nat
      /\ Cardinality(S \ {a}) = IF a \in S THEN Cardinality(S) - 1 ELSE Cardinality(S)
  BY FS_RemoveElement, FS_CardinalityType
<1>2. a \notin S => Cardinality(S \cup {a}) = Cardinality(S) + 1
  BY FS_AddElement
<1>3. QED
  BY <1>1, <1>2

\* The table and the replays change only by a capture, by a step of an operator
\* or by a restart.
LEMMA TableFacts ==
  ASSUME TypeOK, [Next]_vars
  PROVE  \/ UNCHANGED <<dlq, replay>>
         \/ \E w \in Workers : Handles(w)
         \/ \E a \in Admins : Replay(a)
         \/ Crash
<1>1. ASSUME NEW t \in Txs,
             \/ Create(t) \/ Enqueue(t) \/ EnqueueFails(t)
             \/ CancelCheck(t) \/ CancelWrite(t) \/ TimerFires(t) \/ TimerFails(t)
      PROVE  UNCHANGED <<dlq, replay>>
  BY <1>1 DEF Create, Enqueue, EnqueueFails, CancelCheck, CancelWrite, TimerFires, TimerFails, requests
<1>2. ASSUME NEW w \in Workers, NEW t \in Txs, Deliver(w, t) PROVE UNCHANGED <<dlq, replay>>
  BY <1>2 DEF Deliver, requests
<1>3. CASE StartPool \/ ChannelLost
  BY <1>3 DEF StartPool, ChannelLost, requests
<1>4. CASE UNCHANGED vars
  BY <1>4 DEF vars
<1>5. QED
  BY <1>1, <1>2, <1>3, <1>4, StepHandles DEF Next

\* Publishing and marking, row by row.
LEMMA PublishFacts ==
  ASSUME TypeOK, NEW a \in Admins, ReplayPublish(a)
  PROVE  LET i == replay[a].entry IN
         /\ i \in 1..Len(dlq) /\ dlq[i] \in DeadLetters
         /\ Len(dlq) \in Nat /\ Len(dlq') = Len(dlq)
         /\ \A k \in 1..Len(dlq) : k # i => dlq'[k] = dlq[k]
         /\ dlq'[i].tx = dlq[i].tx /\ dlq'[i].replayed = dlq[i].replayed
         /\ dlq'[i].published = dlq[i].published + 1
         /\ replay'[a].pc = "published" /\ replay'[a].entry = i
         /\ \A b \in Admins : b # a => replay'[b] = replay[b]
         /\ queue' = [queue EXCEPT ![dlq[i].tx] = @ + 1]
<1> DEFINE i == replay[a].entry
           e == [dlq[i] EXCEPT !.published = @ + 1]
<1>1. /\ i \in 1..Len(dlq) /\ dlq[i] \in DeadLetters /\ replay[a] \in Replays
      /\ queue' = [queue EXCEPT ![dlq[i].tx] = @ + 1]
  BY ElementOfSeq DEF ReplayPublish, TypeOK
<1>2. dlq' = [dlq EXCEPT ![i] = e]
  BY <1>1 DEF ReplayPublish, TypeOK
<1>3. /\ e \in DeadLetters /\ e.tx = dlq[i].tx /\ e.replayed = dlq[i].replayed
      /\ e.published = dlq[i].published + 1
  BY <1>1 DEF DeadLetters
<1>4. replay' = [replay EXCEPT ![a] = [replay[a] EXCEPT !.pc = "published"]]
  BY DEF ReplayPublish, TypeOK
<1>5. /\ [replay[a] EXCEPT !.pc = "published"].pc = "published"
      /\ [replay[a] EXCEPT !.pc = "published"].entry = i
  BY <1>1 DEF Replays
<1>6. /\ replay'[a].pc = "published" /\ replay'[a].entry = i
      /\ \A b \in Admins : b # a => replay'[b] = replay[b]
  BY <1>4, <1>5 DEF TypeOK
<1> HIDE DEF e, i
<1>7. /\ Len(dlq) \in Nat /\ Len(dlq') = Len(dlq)
      /\ \A k \in 1..Len(dlq) : dlq'[k] = IF k = i THEN e ELSE dlq[k]
  BY <1>1, <1>2, <1>3, RowFacts DEF TypeOK
<1>8. QED
  BY <1>1, <1>3, <1>6, <1>7 DEF i

LEMMA MarkFacts ==
  ASSUME TypeOK, NEW a \in Admins, ReplayMark(a)
  PROVE  LET i == replay[a].entry IN
         /\ i \in 1..Len(dlq)
         /\ Len(dlq) \in Nat /\ Len(dlq') = Len(dlq)
         /\ \A k \in 1..Len(dlq) : k # i => dlq'[k] = dlq[k]
         /\ dlq'[i].tx = dlq[i].tx /\ dlq'[i].published = dlq[i].published
         /\ dlq'[i].replayed
         /\ replay'[a].pc = "idle"
         /\ \A b \in Admins : b # a => replay'[b] = replay[b]
<1> DEFINE i == replay[a].entry
           e == [dlq[i] EXCEPT !.replayed = TRUE]
<1>1. i \in 1..Len(dlq) /\ dlq[i] \in DeadLetters /\ replay[a] \in Replays
  BY ElementOfSeq DEF ReplayMark, TypeOK
<1>2. dlq' = [dlq EXCEPT ![i] = e]
  BY <1>1 DEF ReplayMark, TypeOK
<1>3. TRUE \in BOOLEAN
  OBVIOUS
<1>4. /\ e \in DeadLetters /\ e.tx = dlq[i].tx /\ e.replayed = TRUE
      /\ e.published = dlq[i].published
  BY <1>1, <1>3 DEF DeadLetters
<1>5. NoReplay.pc = "idle"
  BY DEF NoReplay
<1>6. /\ replay'[a].pc = "idle"
      /\ \A b \in Admins : b # a => replay'[b] = replay[b]
  BY <1>5 DEF ReplayMark, TypeOK
<1> HIDE DEF e, i
<1>7. /\ Len(dlq) \in Nat /\ Len(dlq') = Len(dlq)
      /\ \A k \in 1..Len(dlq) : dlq'[k] = IF k = i THEN e ELSE dlq[k]
  BY <1>1, <1>2, <1>4, RowFacts DEF TypeOK
<1>8. QED
  BY <1>1, <1>4, <1>6, <1>7 DEF i
LEMMA ReplayStep ==
  ASSUME TypeOK, WithinBudget, ReplayInv, [Next]_vars
  PROVE  ReplayInv'
<1> DEFINE N == Cardinality(Admins)
<1>1. /\ Len(dlq) \in Nat /\ \A i \in 1..Len(dlq) : dlq[i].published \in Nat
      /\ N \in Nat /\ Excuses \in Nat /\ Excuses' \in Nat /\ Excuses' >= Excuses
  BY LetterFacts, ExcuseFacts, OneFault
<1>2. /\ \A i : /\ IsFiniteSet(Readers(i)) /\ IsFiniteSet(Owing(i))
                /\ Cardinality(Readers(i)) \in Nat /\ Cardinality(Owing(i)) \in Nat
                /\ Cardinality(Readers(i)) + Cardinality(Owing(i)) <= N
  BY OperatorFacts
<1>3. \A i \in 1..Len(dlq) :
        /\ dlq[i].published + Cardinality(Readers(i)) <= N + Excuses
        /\ ~dlq[i].replayed => dlq[i].published <= Cardinality(Owing(i)) + Excuses
  BY DEF ReplayInv
<1> HIDE DEF N
<1>4. ASSUME NEW i \in 1..Len(dlq), dlq'[i] = dlq[i],
             Cardinality(Readers(i)') = Cardinality(Readers(i)),
             Cardinality(Owing(i)') = Cardinality(Owing(i))
      PROVE  /\ dlq'[i].published + Cardinality(Readers(i)') <= N + Excuses'
             /\ ~dlq'[i].replayed => dlq'[i].published <= Cardinality(Owing(i)') + Excuses'
  BY <1>1, <1>2, <1>3, <1>4
<1>5. ASSUME \A i \in 1..Len(dlq') :
               /\ dlq'[i].published + Cardinality(Readers(i)') <= N + Excuses'
               /\ ~dlq'[i].replayed => dlq'[i].published <= Cardinality(Owing(i)') + Excuses'
      PROVE  ReplayInv'
  BY <1>5 DEF ReplayInv, N
<1>6. CASE UNCHANGED <<dlq, replay>>
  <2>1. \A i : Readers(i)' = Readers(i) /\ Owing(i)' = Owing(i)
    BY <1>6 DEF Readers, Owing
  <2>2. QED
    BY <1>4, <1>5, <1>6, <2>1
<1>7. ASSUME NEW w \in Workers, Handles(w) PROVE ReplayInv'
  <2>1. UNCHANGED replay /\ job[w].tx \in Txs
        /\ (UNCHANGED dlq \/ dlq' = Append(dlq, Letter(job[w].tx)))
    BY <1>7 DEF Handles, Moves, Passes
  <2>2. \A i : Readers(i)' = Readers(i) /\ Owing(i)' = Owing(i)
    BY <2>1 DEF Readers, Owing
  <2>3. CASE dlq' = Append(dlq, Letter(job[w].tx))
    <3>1. /\ Len(dlq') = Len(dlq) + 1
          /\ \A i \in 1..Len(dlq) : dlq'[i] = dlq[i]
          /\ dlq'[Len(dlq) + 1].published = 0
      BY <2>1, <2>3, CaptureFacts DEF TypeOK, Letter
    <3>2. SUFFICES ASSUME NEW i \in 1..Len(dlq')
                   PROVE  /\ dlq'[i].published + Cardinality(Readers(i)') <= N + Excuses'
                          /\ ~dlq'[i].replayed =>
                               dlq'[i].published <= Cardinality(Owing(i)') + Excuses'
      BY <1>5
    <3>3. i \in 1..Len(dlq) \/ dlq'[i].published = 0
      BY <1>1, <3>1
    <3>4. CASE i \in 1..Len(dlq)
      BY <1>4, <2>2, <3>1, <3>4
    <3>5. CASE dlq'[i].published = 0
      BY <1>1, <1>2, <2>2, <3>5
    <3>6. QED
      BY <3>3, <3>4, <3>5
  <2>4. QED
    BY <1>6, <2>1, <2>3
<1>8. ASSUME NEW a \in Admins, NEW i \in 1..Len(dlq), ReplayRead(a, i) \/ ReplayReadStale(a, i)
      PROVE  ReplayInv'
  <2>1. /\ replay[a].pc = "idle" /\ UNCHANGED dlq
        /\ replay' = [replay EXCEPT ![a] = [entry |-> i, pc |-> "read"]]
        /\ ~dlq[i].replayed \/ (dlq[i].replayed /\ Fault("lag"))
    BY <1>8 DEF ReplayRead, ReplayReadStale
  <2>2. /\ replay'[a].pc = "read" /\ replay'[a].entry = i
        /\ \A b \in Admins : b # a => replay'[b] = replay[b]
    BY <2>1 DEF TypeOK
  <2>3. /\ Readers(i)' = Readers(i) \cup {a} /\ a \notin Readers(i)
        /\ \A k : Owing(k)' = Owing(k)
        /\ \A k : k # i => Readers(k)' = Readers(k)
    BY <2>1, <2>2 DEF Readers, Owing
  <2>4. Cardinality(Readers(i)') = Cardinality(Readers(i)) + 1
    BY <1>2, <2>3, GrownFacts
  <2>5. Cardinality(Readers(i)') + Cardinality(Owing(i)) <= N
    <3>1. a \notin Readers(i) /\ a \notin Owing(i)
      BY <2>1 DEF Readers, Owing
    <3>2. Cardinality(Readers(i)) + Cardinality(Owing(i)) < N
      BY <3>1, OperatorFacts DEF N
    <3>3. QED
      BY <1>1, <1>2, <2>4, <3>2
  <2>6. dlq[i].published + Cardinality(Readers(i)') <= N + Excuses'
    <3>1. CASE ~dlq[i].replayed
      <4>1. dlq[i].published <= Cardinality(Owing(i)) + Excuses
        BY <1>3, <3>1
      <4>2. /\ dlq[i].published \in Nat /\ Cardinality(Owing(i)) \in Nat
            /\ Cardinality(Readers(i)') \in Nat
        BY <1>1, <1>2, <2>4
      <4>3. QED
        BY <1>1, <2>5, <4>1, <4>2
    <3>2. CASE Fault("lag")
      <4>1. Excuses' = Excuses + 1
        BY <3>2, ExcuseFacts DEF FaultKinds
      <4>2. dlq[i].published + Cardinality(Readers(i)) <= N + Excuses
        BY <1>3
      <4>3. dlq[i].published \in Nat /\ Cardinality(Readers(i)) \in Nat
        BY <1>1, <1>2
      <4>4. QED
        BY <1>1, <2>4, <4>1, <4>2, <4>3
    <3>3. QED
      BY <2>1, <3>1, <3>2
  <2>7. ~dlq[i].replayed => dlq[i].published <= Cardinality(Owing(i)') + Excuses'
    BY <1>1, <1>2, <1>3, <2>3
  <2>8. QED
    BY <1>4, <1>5, <2>1, <2>3, <2>6, <2>7
<1>9. ASSUME NEW a \in Admins, ReplayPublish(a) PROVE ReplayInv'
  <2>0. PICK i \in 1..Len(dlq) : i = replay[a].entry
    BY <1>9, PublishFacts
  <2>1. /\ i \in 1..Len(dlq) /\ Len(dlq') = Len(dlq)
        /\ \A k \in 1..Len(dlq) : k # i => dlq'[k] = dlq[k]
        /\ dlq'[i].published = dlq[i].published + 1 /\ dlq'[i].replayed = dlq[i].replayed
        /\ replay'[a].pc = "published" /\ replay'[a].entry = i
        /\ \A b \in Admins : b # a => replay'[b] = replay[b]
    BY <1>9, <2>0, PublishFacts
  <2>2. replay[a].pc = "read"
    BY <1>9 DEF ReplayPublish
  <2>3. /\ Readers(i)' = Readers(i) \ {a} /\ a \in Readers(i)
        /\ Owing(i)' = Owing(i) \cup {a} /\ a \notin Owing(i)
        /\ \A k : k # i => Readers(k)' = Readers(k) /\ Owing(k)' = Owing(k)
    BY <2>0, <2>1, <2>2 DEF Readers, Owing
  <2>4. /\ Cardinality(Readers(i)') = Cardinality(Readers(i)) - 1
        /\ Cardinality(Owing(i)') = Cardinality(Owing(i)) + 1
    BY <1>2, <2>3, GrownFacts
  <2>5. /\ dlq[i].published + Cardinality(Readers(i)) <= N + Excuses
        /\ ~dlq[i].replayed => dlq[i].published <= Cardinality(Owing(i)) + Excuses
        /\ dlq[i].published \in Nat /\ Cardinality(Readers(i)) \in Nat
        /\ Cardinality(Owing(i)) \in Nat
    BY <1>1, <1>2, <1>3, <2>1
  <2>6. /\ dlq'[i].published + Cardinality(Readers(i)') <= N + Excuses'
        /\ ~dlq'[i].replayed => dlq'[i].published <= Cardinality(Owing(i)') + Excuses'
    <3>0. dlq'[i].published = dlq[i].published + 1
      BY <2>1
    <3>1. dlq'[i].published + Cardinality(Readers(i)') = dlq[i].published + Cardinality(Readers(i))
      BY <2>4, <2>5, <3>0
    <3>2. dlq[i].published + Cardinality(Readers(i)) <= N + Excuses'
      BY <1>1, <2>5
    <3>3. ASSUME ~dlq'[i].replayed
          PROVE  dlq'[i].published <= Cardinality(Owing(i)') + Excuses'
      <4>1. dlq[i].published <= Cardinality(Owing(i)) + Excuses
        BY <2>1, <2>5, <3>3
      <4>2. QED
        BY <1>1, <2>4, <2>5, <3>0, <4>1
    <3>4. QED
      BY <3>1, <3>2, <3>3
  <2>7. QED
    BY <1>4, <1>5, <2>1, <2>3, <2>6
<1>10. ASSUME NEW a \in Admins, ReplayMark(a) PROVE ReplayInv'
  <2>0. PICK i \in 1..Len(dlq) : i = replay[a].entry
    BY <1>10, MarkFacts
  <2>1. /\ i \in 1..Len(dlq) /\ Len(dlq') = Len(dlq)
        /\ \A k \in 1..Len(dlq) : k # i => dlq'[k] = dlq[k]
        /\ dlq'[i].published = dlq[i].published /\ dlq'[i].replayed
        /\ replay'[a].pc = "idle"
        /\ \A b \in Admins : b # a => replay'[b] = replay[b]
    BY <1>10, <2>0, MarkFacts
  <2>2. replay[a].pc = "published"
    BY <1>10 DEF ReplayMark
  <2>3. /\ \A k : Readers(k)' = Readers(k)
        /\ \A k : k # i => Owing(k)' = Owing(k)
    BY <2>0, <2>1, <2>2 DEF Readers, Owing
  <2>4. /\ dlq[i].published + Cardinality(Readers(i)) <= N + Excuses
        /\ dlq[i].published \in Nat /\ Cardinality(Readers(i)) \in Nat
    BY <1>1, <1>2, <1>3, <2>1
  <2>5. /\ dlq'[i].published + Cardinality(Readers(i)') <= N + Excuses'
        /\ ~dlq'[i].replayed => dlq'[i].published <= Cardinality(Owing(i)') + Excuses'
    BY <1>1, <2>1, <2>3, <2>4
  <2>6. QED
    BY <1>4, <1>5, <2>1, <2>3, <2>5
<1>11. ASSUME NEW a \in Admins, ReplayPublishFails(a) \/ ReplayMarkFails(a) PROVE ReplayInv'
  <2>1. /\ UNCHANGED dlq /\ replay' = [replay EXCEPT ![a] = NoReplay]
        /\ replay[a].pc = "read" \/ (replay[a].pc = "published" /\ Fault("mark"))
    BY <1>11 DEF ReplayPublishFails, ReplayMarkFails
  <2>2. replay'[a].pc = "idle" /\ \A b \in Admins : b # a => replay'[b] = replay[b]
    BY <2>1 DEF TypeOK, NoReplay
  <2>3. \A k : Readers(k)' = Readers(k) \ {a} /\ Owing(k)' = Owing(k) \ {a}
    BY <2>2 DEF Readers, Owing
  <2>4. SUFFICES ASSUME NEW i \in 1..Len(dlq)
                 PROVE  /\ dlq[i].published + Cardinality(Readers(i)') <= N + Excuses'
                        /\ ~dlq[i].replayed =>
                             dlq[i].published <= Cardinality(Owing(i)') + Excuses'
    BY <1>5, <2>1
  <2>5. /\ dlq[i].published + Cardinality(Readers(i)) <= N + Excuses
        /\ ~dlq[i].replayed => dlq[i].published <= Cardinality(Owing(i)) + Excuses
        /\ dlq[i].published \in Nat
    BY <1>1, <1>3
  <2>6. /\ Cardinality(Readers(i)') <= Cardinality(Readers(i))
        /\ Cardinality(Readers(i)') \in Nat /\ Cardinality(Readers(i)) \in Nat
    BY <1>2, <2>3, GrownFacts
  <2>7. Cardinality(Owing(i)') + Excuses' >= Cardinality(Owing(i)) + Excuses
    <3>1. CASE replay[a].pc = "read"
      <4>1. Owing(i) \ {a} = Owing(i)
        BY <3>1 DEF Owing
      <4>2. Cardinality(Owing(i)') = Cardinality(Owing(i)) /\ Cardinality(Owing(i)) \in Nat
        BY <1>2, <2>3, <4>1
      <4>3. QED
        BY <1>1, <4>2
    <3>2. CASE Fault("mark")
      <4>1. Excuses' = Excuses + 1
        BY <3>2, ExcuseFacts DEF FaultKinds
      <4>2. /\ Cardinality(Owing(i)) <= Cardinality(Owing(i)') + 1
            /\ Cardinality(Owing(i)') \in Nat /\ Cardinality(Owing(i)) \in Nat
        BY <1>2, <2>3, GrownFacts
      <4>3. QED
        BY <1>1, <4>1, <4>2
    <3>3. QED
      BY <2>1, <3>1, <3>2
  <2>8. Cardinality(Owing(i)') \in Nat /\ Cardinality(Owing(i)) \in Nat
    BY <1>2, <2>3, GrownFacts
  <2>9. dlq[i].published + Cardinality(Readers(i)') <= N + Excuses'
    BY <1>1, <2>5, <2>6
  <2>10. ASSUME ~dlq[i].replayed PROVE dlq[i].published <= Cardinality(Owing(i)') + Excuses'
    <3>1. dlq[i].published <= Cardinality(Owing(i)) + Excuses
      BY <2>5, <2>10
    <3>2. QED
      BY <1>1, <2>5, <2>7, <2>8, <3>1
  <2>11. QED
    BY <2>9, <2>10
<1>12. CASE Crash
  <2>1. UNCHANGED dlq /\ Excuses' = Excuses + N
    BY <1>12, ExcuseFacts DEF Crash, FaultKinds, N
  <2>2. \A a \in Admins : replay'[a].pc = "idle"
    BY <1>12 DEF Crash, NoReplay
  <2>3. \A k : Readers(k)' = {} /\ Owing(k)' = {}
    BY <2>2 DEF Readers, Owing
  <2>4. SUFFICES ASSUME NEW i \in 1..Len(dlq)
                 PROVE  /\ dlq[i].published + 0 <= N + Excuses'
                        /\ ~dlq[i].replayed => dlq[i].published <= 0 + Excuses'
    BY <1>5, <2>1, <2>3, FS_EmptySet
  <2>5. /\ dlq[i].published + Cardinality(Readers(i)) <= N + Excuses
        /\ ~dlq[i].replayed => dlq[i].published <= Cardinality(Owing(i)) + Excuses
        /\ dlq[i].published \in Nat /\ Cardinality(Readers(i)) \in Nat
        /\ Cardinality(Owing(i)) \in Nat
        /\ Cardinality(Readers(i)) + Cardinality(Owing(i)) <= N
    BY <1>1, <1>2, <1>3
  <2>6. QED
    BY <1>1, <2>1, <2>5
<1>13. QED
  BY <1>6, <1>7, <1>8, <1>9, <1>10, <1>11, <1>12, TableFacts DEF Replay

\* "DLQ entry has already been replayed" (dlq.ts:109), for any number of
\* operators: however often they ask and whatever is lost, redelivered or
\* restarted, a letter is published once per operator who looks before the mark
\* is there, and once more per mark that was not written or not seen.
THEOREM PipelineReplaysAccounted == Spec => []ReplaysAccounted
<1>1. Init => ReplayInv
  BY EmptySeq DEF Init, ReplayInv
<1>2. TypeOK /\ WithinBudget /\ ReplayInv /\ [Next]_vars => ReplayInv'
  BY ReplayStep
<1>3. TypeOK /\ WithinBudget /\ ReplayInv => ReplaysAccounted
  <2>1. SUFFICES ASSUME TypeOK, WithinBudget, ReplayInv, NEW i \in 1..Len(dlq)
                 PROVE  dlq[i].published <= Cardinality(Admins) + Excuses
    BY DEF ReplaysAccounted
  <2>2. /\ dlq[i].published \in Nat /\ Cardinality(Readers(i)) \in Nat
        /\ Cardinality(Admins) \in Nat /\ Excuses \in Nat
        /\ dlq[i].published + Cardinality(Readers(i)) <= Cardinality(Admins) + Excuses
    BY <2>1, LetterFacts, OperatorFacts, ExcuseFacts DEF ReplayInv
  <2>3. QED
    BY <2>2
<1>4. QED
  BY <1>1, <1>2, <1>3, PipelineTypes, BudgetHolds, PTL DEF Spec
-----------------------------------------------------------------------------
\* Counting who has a transaction: the handlers of t at one of the points in
\* PS, and its dead letters that were not published again.
At(t, PS) == {w \in Workers : job[w].tx = t /\ job[w].pc \in PS}
Letters(t) == {i \in 1..Len(dlq) : dlq[i].tx = t /\ dlq[i].published = 0}

\* Those who will still hand it to a handler, a request not yet made included.
Load(t) == (IF api[t] # "done" THEN 1 ELSE 0) + queue[t] + timers[t]

One(b) == IF b THEN 1 ELSE 0

LEMMA CountsAreNat ==
  ASSUME TypeOK, NEW t \in Txs, NEW PS
  PROVE  /\ IsFiniteSet(At(t, PS)) /\ Cardinality(At(t, PS)) \in Nat
         /\ IsFiniteSet(Letters(t)) /\ Cardinality(Letters(t)) \in Nat
         /\ Load(t) \in Nat
<1>1. IsFiniteSet(Workers) /\ At(t, PS) \in SUBSET Workers
  BY PipelineAssumption DEF At
<1>2. IsFiniteSet(1..Len(dlq))
  BY LetterFacts, FS_Interval
<1>3. Letters(t) \in SUBSET (1..Len(dlq))
  BY DEF Letters
<1>4. Load(t) \in Nat
  BY DEF Load, TypeOK
<1>5. QED
  BY <1>1, <1>2, <1>3, <1>4, FS_Subset, FS_CardinalityType

\* One handler moves.
LEMMA AtMoves ==
  ASSUME TypeOK, NEW w \in Workers, NEW t \in Txs, NEW PS,
         job' = [job EXCEPT ![w] = job'[w]]
  PROVE  Cardinality(At(t, PS)') =
           Cardinality(At(t, PS)) - One(job[w].tx = t /\ job[w].pc \in PS)
                                  + One(job'[w].tx = t /\ job'[w].pc \in PS)
<1>1. \A v \in Workers : v # w => job'[v] = job[v]
  BY DEF TypeOK
<1>2. IsFiniteSet(At(t, PS)) /\ Cardinality(At(t, PS)) \in Nat
  BY CountsAreNat
<1>3. /\ w \in At(t, PS) <=> job[w].tx = t /\ job[w].pc \in PS
      /\ w \in At(t, PS)' <=> job'[w].tx = t /\ job'[w].pc \in PS
  BY DEF At
<1>4. CASE w \in At(t, PS)'
  <2>1. At(t, PS)' = At(t, PS) \cup {w}
    BY <1>1, <1>4 DEF At
  <2>2. Cardinality(At(t, PS)') =
          IF w \in At(t, PS) THEN Cardinality(At(t, PS)) ELSE Cardinality(At(t, PS)) + 1
    BY <1>2, <2>1, FS_AddElement
  <2>3. QED
    BY <1>2, <1>3, <1>4, <2>2 DEF One
<1>5. CASE w \notin At(t, PS)'
  <2>1. At(t, PS)' = At(t, PS) \ {w}
    BY <1>1, <1>5 DEF At
  <2>2. Cardinality(At(t, PS)') =
          IF w \in At(t, PS) THEN Cardinality(At(t, PS)) - 1 ELSE Cardinality(At(t, PS))
    BY <1>2, <2>1, FS_RemoveElement
  <2>3. QED
    BY <1>2, <1>3, <1>5, <2>2 DEF One
<1>6. QED
  BY <1>4, <1>5

\* A row is added, or published for the first time.
LEMMA LettersCaptured ==
  ASSUME TypeOK, NEW u \in Txs, dlq' = Append(dlq, Letter(u)), NEW t \in Txs
  PROVE  Cardinality(Letters(t)') = Cardinality(Letters(t)) + One(t = u)
<1>1. /\ Len(dlq) \in Nat /\ Len(dlq') = Len(dlq) + 1
      /\ \A i \in 1..Len(dlq) : dlq'[i] = dlq[i]
      /\ dlq'[Len(dlq) + 1].tx = u /\ dlq'[Len(dlq) + 1].published = 0
  BY CaptureFacts DEF TypeOK, Letter
<1>2. 1..Len(dlq') = (1..Len(dlq)) \cup {Len(dlq) + 1} /\ Len(dlq) + 1 \notin 1..Len(dlq)
  BY <1>1
<1>3. IsFiniteSet(Letters(t)) /\ Cardinality(Letters(t)) \in Nat
  BY CountsAreNat
<1>4. CASE t = u
  <2>1. Letters(t)' = Letters(t) \cup {Len(dlq) + 1} /\ Len(dlq) + 1 \notin Letters(t)
    BY <1>1, <1>2, <1>4 DEF Letters
  <2>2. QED
    BY <1>3, <1>4, <2>1, FS_AddElement DEF One
<1>5. CASE t # u
  <2>1. Letters(t)' = Letters(t)
    BY <1>1, <1>2, <1>5 DEF Letters
  <2>2. QED
    BY <1>3, <1>5, <2>1 DEF One
<1>6. QED
  BY <1>4, <1>5

LEMMA LettersPublished ==
  ASSUME TypeOK, NEW a \in Admins, ReplayPublish(a), NEW t \in Txs
  PROVE  LET i == replay[a].entry IN
         Cardinality(Letters(t)') =
           Cardinality(Letters(t)) - One(t = dlq[i].tx /\ dlq[i].published = 0)
<1>1. PICK i \in 1..Len(dlq) : i = replay[a].entry
  BY PublishFacts
<1> DEFINE u == dlq[i].tx
<1>2. /\ Len(dlq') = Len(dlq)
      /\ \A k \in 1..Len(dlq) : k # i => dlq'[k] = dlq[k]
      /\ dlq'[i].tx = u /\ dlq'[i].published = dlq[i].published + 1
      /\ dlq[i].published \in Nat
  BY <1>1, PublishFacts, LetterFacts
<1>3. IsFiniteSet(Letters(t)) /\ Cardinality(Letters(t)) \in Nat
  BY CountsAreNat
<1>4. dlq'[i].published # 0
  BY <1>2
<1>5. CASE t = u /\ dlq[i].published = 0
  <2>1. Letters(t)' = Letters(t) \ {i} /\ i \in Letters(t)
    BY <1>2, <1>4, <1>5 DEF Letters
  <2>2. Cardinality(Letters(t)') = Cardinality(Letters(t)) - 1
    BY <1>3, <2>1, FS_RemoveElement
  <2>3. QED
    BY <1>1, <1>5, <2>2 DEF One
<1>6. CASE ~(t = u /\ dlq[i].published = 0)
  <2>1. Letters(t)' = Letters(t)
    BY <1>2, <1>4, <1>6 DEF Letters
  <2>2. QED
    BY <1>1, <1>3, <1>6, <2>1 DEF One
<1>7. QED
  BY <1>5, <1>6

\* The rows keep their transaction and their number of publications.
LEMMA LettersStay ==
  ASSUME TypeOK, UNCHANGED dlq \/ \E a \in Admins : ReplayMark(a), NEW t \in Txs
  PROVE  Letters(t)' = Letters(t)
<1>1. CASE UNCHANGED dlq
  BY <1>1 DEF Letters
<1>2. ASSUME NEW a \in Admins, ReplayMark(a)
      PROVE  Letters(t)' = Letters(t)
  <2>1. /\ Len(dlq') = Len(dlq)
        /\ \A k \in 1..Len(dlq) : dlq'[k].tx = dlq[k].tx /\ dlq'[k].published = dlq[k].published
    BY <1>2, MarkFacts
  <2>2. QED
    BY <2>1 DEF Letters
<1>3. QED
  BY <1>1, <1>2

\* The steps that start, stop or publish no handler and read or mark rows:
\* they hand a transaction on, or drop it.
Calm ==
  /\ UNCHANGED <<job, copies>>
  /\ UNCHANGED dlq \/ \E a \in Admins : ReplayMark(a)
  /\ \A t \in Txs : Load(t)' <= Load(t)

LEMMA RequestsCalm ==
  ASSUME TypeOK, NEW u \in Txs,
         \/ Create(u) \/ Enqueue(u) \/ EnqueueFails(u)
         \/ CancelCheck(u) \/ CancelWrite(u) \/ TimerFires(u) \/ TimerFails(u)
  PROVE  Calm
<1>1. UNCHANGED <<job, copies, dlq>>
  BY DEF Create, Enqueue, EnqueueFails, CancelCheck, CancelWrite, TimerFires, TimerFails, money
<1>2. \A t \in Txs : api[t] \in {"new", "created", "done"} /\ queue[t] \in Nat /\ timers[t] \in Nat
  BY DEF TypeOK
<1>3. CASE Create(u)
  BY <1>1, <1>2, <1>3 DEF Calm, Load, Create, TypeOK
<1>4. CASE Enqueue(u)
  BY <1>1, <1>2, <1>4 DEF Calm, Load, Enqueue, TypeOK
<1>5. CASE EnqueueFails(u)
  BY <1>1, <1>2, <1>5 DEF Calm, Load, EnqueueFails, TypeOK
<1>6. CASE CancelCheck(u) \/ CancelWrite(u)
  BY <1>1, <1>2, <1>6 DEF Calm, Load, CancelCheck, CancelWrite
<1>7. CASE TimerFires(u)
  BY <1>1, <1>2, <1>7 DEF Calm, Load, TimerFires, TypeOK, requests
<1>8. CASE TimerFails(u)
  BY <1>1, <1>2, <1>8 DEF Calm, Load, TimerFails, TypeOK, requests
<1>9. QED
  BY <1>3, <1>4, <1>5, <1>6, <1>7, <1>8

\* A transaction moves in six ways.
LEMMA FlowFacts ==
  ASSUME TypeOK, [Next]_vars
  PROVE  \/ Calm
         \/ ChannelLost
         \/ Crash
         \/ \E w \in Workers, t \in Txs : Deliver(w, t)
         \/ \E a \in Admins : ReplayPublish(a)
         \/ \E w \in Workers : Handles(w)
<1>1. \A t \in Txs : Load(t) \in Nat
  BY CountsAreNat
<1>2. ASSUME UNCHANGED <<job, copies, api, queue, timers>>,
             UNCHANGED dlq \/ \E a \in Admins : ReplayMark(a)
      PROVE  Calm
  <2>1. \A t \in Txs : Load(t)' = Load(t)
    BY <1>2 DEF Load
  <2>2. QED
    BY <1>1, <1>2, <2>1 DEF Calm
<1>3. CASE UNCHANGED vars
  BY <1>2, <1>3 DEF vars
<1>4. CASE StartPool
  BY <1>2, <1>4 DEF StartPool, requests
<1>5. ASSUME NEW a \in Admins, Replay(a), ~ReplayPublish(a) PROVE Calm
  BY <1>2, <1>5 DEF Replay, ReplayRead, ReplayReadStale, ReplayPublishFails, ReplayMark,
                    ReplayMarkFails, money
<1>6. QED
  BY <1>3, <1>4, <1>5, RequestsCalm, StepHandles DEF Next

\* What a delivery, a publication and a handler's step do to the counts.
LEMMA DeliverCounts ==
  ASSUME TypeOK, NEW w \in Workers, NEW u \in Txs, Deliver(w, u), NEW t \in Txs,
         NEW PS, "advance" \in PS
  PROVE  /\ Load(t)' = Load(t) - One(t = u)
         /\ Cardinality(At(t, PS)') = Cardinality(At(t, PS)) + One(t = u)
         /\ UNCHANGED <<dlq, copies>>
<1> DEFINE k == [Idle EXCEPT !.tx = u, !.pc = "advance", !.held = TRUE]
<1>1. k.tx = u /\ k.pc = "advance"
  BY DEF Idle
<1>2. /\ job[w].tx = None /\ job' = [job EXCEPT ![w] = k] /\ job'[w] = k
      /\ queue[u] > 0 /\ queue' = [queue EXCEPT ![u] = @ - 1]
      /\ UNCHANGED <<api, timers, dlq, copies>>
  BY DEF Deliver, TypeOK, requests, money
<1> HIDE DEF k
<1>3. None # t /\ job' = [job EXCEPT ![w] = job'[w]]
  BY <1>2, PipelineAssumption
<1>4. Cardinality(At(t, PS)) \in Nat
  BY CountsAreNat
<1>5. Cardinality(At(t, PS)') =
        Cardinality(At(t, PS)) - One(job[w].tx = t /\ job[w].pc \in PS)
                               + One(job'[w].tx = t /\ job'[w].pc \in PS)
  BY <1>3, AtMoves
<1>6. Cardinality(At(t, PS)') = Cardinality(At(t, PS)) + One(t = u)
  BY <1>1, <1>2, <1>3, <1>4, <1>5 DEF One
<1>7. Load(t)' = Load(t) - One(t = u)
  <2>1. queue \in [Txs -> Nat] /\ timers[t] \in Nat
    BY DEF TypeOK
  <2>2. QED
    BY <1>2, <2>1 DEF Load, One
<1>8. QED
  BY <1>2, <1>6, <1>7

LEMMA PublishCounts ==
  ASSUME TypeOK, NEW a \in Admins, ReplayPublish(a), NEW t \in Txs
  PROVE  /\ Load(t)' = Load(t) + One(t = dlq[replay[a].entry].tx)
         /\ copies'[t] = copies[t] + One(t = dlq[replay[a].entry].tx
                                          /\ dlq[replay[a].entry].published # 0)
         /\ UNCHANGED job
<1> DEFINE u == dlq[replay[a].entry].tx
<1>1. /\ u \in Txs /\ queue' = [queue EXCEPT ![u] = @ + 1]
      /\ UNCHANGED <<api, timers, job>>
  BY PublishFacts DEF ReplayPublish, money, DeadLetters
<1>2. queue \in [Txs -> Nat] /\ timers[t] \in Nat
  BY DEF TypeOK
<1> HIDE DEF u
<1>3. Load(t)' = Load(t) + One(t = u)
  BY <1>1, <1>2 DEF Load, One
<1>4. copies'[t] = copies[t] + One(t = u /\ dlq[replay[a].entry].published # 0)
  <2>1. dlq[replay[a].entry].published \in Nat /\ copies \in [Txs -> Nat]
    BY PublishFacts, LetterFacts DEF TypeOK
  <2>2. copies' = [copies EXCEPT ![u] = IF dlq[replay[a].entry].published > 0 THEN @ + 1 ELSE @]
    BY DEF ReplayPublish, u
  <2>3. QED
    BY <1>1, <2>1, <2>2 DEF One
<1>5. QED
  BY <1>1, <1>3, <1>4 DEF u

\* Handlers that have not given the transaction up.
Running == Points \ {"nack"}

\* One who will hand the transaction to a handler, the handler, the letter: a
\* handler's step passes it from one to the other and never to two.
LEMMA HandleCounts ==
  ASSUME TypeOK, NEW w \in Workers, Handles(w), NEW t \in Txs
  PROVE  /\ Load(t)' + Cardinality(At(t, Running)') + Cardinality(Letters(t)')
              <= Load(t) + Cardinality(At(t, Running)) + Cardinality(Letters(t))
         /\ Load(t)' + Cardinality(At(t, Running)') + Cardinality(Letters(t)') \in Int
        
<1> DEFINE u == job[w].tx
<1>1. /\ Passes(w) /\ u \in Txs /\ job[w].pc \in Points /\ job'[w].pc \in Points
      /\ job'[w].pc # "idle" => job'[w].tx = u
      /\ job'[w].pc = "idle" => job'[w].tx # t
      /\ job' = [job EXCEPT ![w] = job'[w]]
      /\ api' = api
  BY BusyFacts, PipelineAssumption DEF Handles, Moves, Jobs
<1>2. /\ Load(t) \in Nat /\ Cardinality(At(t, Running)) \in Nat
      /\ Cardinality(Letters(t)) \in Nat
  BY CountsAreNat
<1>3. Cardinality(At(t, Running)') =
        Cardinality(At(t, Running)) - One(u = t /\ job[w].pc # "nack")
                                    + One(job'[w].tx = t /\ job'[w].pc # "nack")
  <2>1. Cardinality(At(t, Running)') =
          Cardinality(At(t, Running)) - One(job[w].tx = t /\ job[w].pc \in Running)
                                      + One(job'[w].tx = t /\ job'[w].pc \in Running)
    BY <1>1, AtMoves
  <2>2. (job[w].pc \in Running <=> job[w].pc # "nack") /\ (job'[w].pc \in Running <=> job'[w].pc # "nack")
    BY <1>1 DEF Running
  <2>3. QED
    BY <2>1, <2>2
<1> HIDE DEF u
<1>4. ASSUME UNCHANGED <<queue, timers>> PROVE Load(t)' = Load(t)
  BY <1>1, <1>4 DEF Load
<1>5. ASSUME UNCHANGED dlq PROVE Letters(t)' = Letters(t)
  BY <1>5, LettersStay
<1>6. CASE job[w].pc # "nack" /\ job'[w].pc \notin {"idle", "nack"} /\ UNCHANGED <<queue, timers, dlq>>
  <2>1. job'[w].tx = u /\ Load(t)' = Load(t) /\ Letters(t)' = Letters(t)
    BY <1>1, <1>4, <1>5, <1>6
  <2>2. QED
    BY <1>2, <1>3, <1>6, <2>1 DEF One
<1>7. CASE job'[w].pc = "idle" /\ UNCHANGED <<queue, timers, dlq>>
  <2>1. job'[w].tx # t /\ Load(t)' = Load(t) /\ Letters(t)' = Letters(t)
    BY <1>1, <1>4, <1>5, <1>7
  <2>2. QED
    BY <1>2, <1>3, <1>7, <2>1 DEF One
<1>8. CASE /\ job[w].pc = "requeue" /\ job'[w].pc = "idle"
           /\ timers' = [timers EXCEPT ![u] = @ + 1]
           /\ UNCHANGED <<queue, dlq>>
  <2>1. job'[w].tx # t /\ Letters(t)' = Letters(t)
    BY <1>1, <1>5, <1>8
  <2>2. Load(t)' = Load(t) + One(t = u)
    <3>1. timers \in [Txs -> Nat] /\ queue[t] \in Nat
      BY DEF TypeOK
    <3>2. QED
      BY <1>1, <1>8, <3>1 DEF Load, One
  <2>3. QED
    BY <1>2, <1>3, <1>8, <2>1, <2>2 DEF One
<1>9. CASE /\ job[w].pc = "capture" /\ job'[w].pc = "nack"
           /\ dlq' = Append(dlq, Letter(u))
           /\ UNCHANGED <<queue, timers>>
  <2>1. Load(t)' = Load(t)
    BY <1>4, <1>9
  <2>2. Cardinality(Letters(t)') = Cardinality(Letters(t)) + One(t = u)
    BY <1>1, <1>9, LettersCaptured
  <2>3. QED
    BY <1>2, <1>3, <1>9, <2>1, <2>2 DEF One
<1>10. CASE job[w].pc = "capture" /\ job'[w].pc = "nack" /\ UNCHANGED <<queue, timers, dlq>>
  <2>1. Load(t)' = Load(t) /\ Letters(t)' = Letters(t)
    BY <1>4, <1>5, <1>10
  <2>2. QED
    BY <1>2, <1>3, <1>10, <2>1 DEF One
<1>11. QED
  BY <1>1, <1>6, <1>7, <1>8, <1>9, <1>10 DEF Passes, u

\* No more of them at any time than the one and its copies, the request that was
\* not made yet included.
CustodyInv ==
  \A t \in Txs :
    Load(t) + Cardinality(At(t, Running)) + Cardinality(Letters(t)) <= 1 + copies[t]

\* A lost channel returns the unacknowledged messages to the queue; so does a
\* restart, which ends the handlers as well.
LEMMA ReturnCounts ==
  ASSUME TypeOK, ChannelLost \/ Crash, NEW t \in Txs
  PROVE  Load(t)' + Cardinality(At(t, Running)') + Cardinality(Letters(t)') - copies'[t]
           <= Load(t) + Cardinality(At(t, Running)) + Cardinality(Letters(t)) - copies[t]
<1> DEFINE U == Unacked(t)
           C == Captured(t)
           R == At(t, Running)
<1>1. /\ queue[t] \in Nat /\ timers[t] \in Nat /\ copies[t] \in Nat
      /\ Cardinality(U) \in Nat /\ Cardinality(C) \in Nat /\ Cardinality(R) \in Nat
      /\ Cardinality(Letters(t)) \in Nat
  BY ReturnedFacts, CountsAreNat DEF TypeOK
<1>2. Letters(t)' = Letters(t)
  BY LettersStay DEF ChannelLost, Crash
<1>3. CASE ChannelLost
  <2>1. /\ queue'[t] = queue[t] + Cardinality(U) /\ copies'[t] = copies[t] + Cardinality(U)
        /\ UNCHANGED <<api, timers>>
    BY <1>3 DEF ChannelLost, Returned, requests
  <2>2. At(t, Running)' = R
    BY <1>3, ChannelKeeps DEF At
  <2>3. Load(t)' = Load(t) + Cardinality(U)
    BY <1>1, <2>1 DEF Load
  <2>4. Load(t) \in Nat
    BY CountsAreNat
  <2> HIDE DEF U, R
  <2>5. QED
    BY <1>1, <1>2, <2>1, <2>2, <2>3, <2>4 DEF R
<1>4. CASE Crash
  <2>1. /\ queue'[t] = queue[t] + Cardinality(U) /\ copies'[t] = copies[t] + Cardinality(C)
        /\ timers'[t] = 0 /\ api'[t] \in {api[t], "done"}
    BY <1>4 DEF Crash, Returned
  <2>2. At(t, Running)' = {}
    BY <1>4, IdleFacts, PipelineAssumption DEF At, Crash
  <2>3. Cardinality(U) <= Cardinality(R) + Cardinality(C)
    <3>1. U \subseteq R \cup C
      BY DEF Unacked, Captured, At, Running, TypeOK, Jobs
    <3>2. IsFiniteSet(R) /\ IsFiniteSet(C) /\ IsFiniteSet(R \cap C)
      BY PipelineAssumption, FS_Subset DEF At, Captured, Unacked
    <3>3. /\ IsFiniteSet(R \cup C)
          /\ Cardinality(R \cup C) = Cardinality(R) + Cardinality(C) - Cardinality(R \cap C)
      BY <3>2, FS_Union
    <3>4. Cardinality(U) <= Cardinality(R \cup C) /\ Cardinality(R \cap C) \in Nat
          /\ Cardinality(R \cup C) \in Nat
      BY <3>1, <3>2, <3>3, FS_Subset, FS_CardinalityType
    <3> HIDE DEF U, C, R
    <3>5. QED
      BY <1>1, <3>3, <3>4
  <2>4. Load(t)' <= Load(t) + Cardinality(U) /\ Load(t)' \in Nat
    <3> HIDE DEF U
    <3>1. QED
      BY <1>1, <2>1 DEF Load
  <2>5. Load(t) \in Nat
    BY CountsAreNat
  <2>6. Cardinality(At(t, Running)') = 0
    BY <2>2, FS_EmptySet
  <2> HIDE DEF U, C, R
  <2>7. QED
    BY <1>1, <1>2, <2>1, <2>3, <2>4, <2>5, <2>6 DEF R
<1>5. QED
  BY <1>3, <1>4

LEMMA CustodyStep ==
  ASSUME TypeOK, CustodyInv, [Next]_vars, NEW t \in Txs
  PROVE  Load(t)' + Cardinality(At(t, Running)') + Cardinality(Letters(t)') <= 1 + copies'[t]
<1>1. /\ TypeOK' /\ copies[t] \in Nat /\ copies'[t] \in Nat
  BY TypeOKStep DEF TypeOK
<1>2. /\ Load(t) \in Nat /\ Cardinality(At(t, Running)) \in Nat
      /\ Cardinality(Letters(t)) \in Nat
      /\ Load(t) + Cardinality(At(t, Running)) + Cardinality(Letters(t)) <= 1 + copies[t]
  BY CountsAreNat DEF CustodyInv
<1>3. Load(t)' \in Nat
  BY <1>1 DEF TypeOK, Load
<1>4. CASE Calm
  <2>1. Load(t)' <= Load(t) /\ Letters(t)' = Letters(t) /\ copies'[t] = copies[t]
    BY <1>4, LettersStay DEF Calm
  <2>2. At(t, Running)' = At(t, Running)
    BY <1>4 DEF Calm, At
  <2>3. QED
    BY <1>1, <1>2, <1>3, <2>1, <2>2
<1>5. ASSUME NEW w \in Workers, NEW u \in Txs, Deliver(w, u)
      PROVE  Load(t)' + Cardinality(At(t, Running)') + Cardinality(Letters(t)') <= 1 + copies'[t]
  <2>1. "advance" \in Running
    BY DEF Running, Points, Calls
  <2>2. /\ Load(t)' = Load(t) - One(t = u)
        /\ Cardinality(At(t, Running)') = Cardinality(At(t, Running)) + One(t = u)
        /\ UNCHANGED <<dlq, copies>>
    BY <1>5, <2>1, DeliverCounts
  <2>3. Letters(t)' = Letters(t) /\ copies'[t] = copies[t]
    BY <2>2, LettersStay
  <2>4. QED
    BY <1>1, <1>2, <2>2, <2>3 DEF One
<1>6. ASSUME NEW a \in Admins, ReplayPublish(a)
      PROVE  Load(t)' + Cardinality(At(t, Running)') + Cardinality(Letters(t)') <= 1 + copies'[t]
  <2> DEFINE u == dlq[replay[a].entry].tx
             n == dlq[replay[a].entry].published
  <2>1. Cardinality(Letters(t)') = Cardinality(Letters(t)) - One(t = u /\ n = 0)
    BY <1>6, LettersPublished
  <2>2. /\ Load(t)' = Load(t) + One(t = u)
        /\ copies'[t] = copies[t] + One(t = u /\ n # 0)
        /\ UNCHANGED job
    BY <1>6, PublishCounts
  <2>3. At(t, Running)' = At(t, Running)
    BY <2>2 DEF At
  <2> HIDE DEF u, n
  <2>4. QED
    BY <1>1, <1>2, <2>1, <2>2, <2>3 DEF One
<1>7. ASSUME NEW w \in Workers, Handles(w)
      PROVE  Load(t)' + Cardinality(At(t, Running)') + Cardinality(Letters(t)') <= 1 + copies'[t]
  <2>1. /\ Load(t)' + Cardinality(At(t, Running)') + Cardinality(Letters(t)')
              <= Load(t) + Cardinality(At(t, Running)) + Cardinality(Letters(t))
        /\ Load(t)' + Cardinality(At(t, Running)') + Cardinality(Letters(t)') \in Int
    BY <1>7, HandleCounts
  <2>2. copies'[t] = copies[t]
    BY <1>7 DEF Handles, Moves
  <2>3. QED
    BY <1>1, <1>2, <2>1, <2>2
<1>8. CASE ChannelLost \/ Crash
  <2>1. Load(t)' + Cardinality(At(t, Running)') + Cardinality(Letters(t)') - copies'[t]
          <= Load(t) + Cardinality(At(t, Running)) + Cardinality(Letters(t)) - copies[t]
    BY <1>8, ReturnCounts
  <2>2. Cardinality(At(t, Running)') \in Nat /\ Cardinality(Letters(t)') \in Nat
    <3>1. Letters(t)' = Letters(t)
      BY <1>8, LettersStay DEF ChannelLost, Crash
    <3>2. IsFiniteSet(At(t, Running)')
      BY PipelineAssumption, FS_Subset DEF At
    <3>3. QED
      BY <1>2, <3>1, <3>2, FS_CardinalityType
  <2>3. QED
    BY <1>1, <1>2, <1>3, <2>1, <2>2
<1>9. QED
  BY <1>4, <1>5, <1>6, <1>7, <1>8, FlowFacts

LEMMA CustodyInit == Init => CustodyInv
<1>1. SUFFICES ASSUME Init, NEW t \in Txs
               PROVE  Load(t) + Cardinality(At(t, Running)) + Cardinality(Letters(t))
                        <= 1 + copies[t]
  BY DEF CustodyInv
<1>2. Load(t) = 1 /\ copies[t] = 0
  BY <1>1 DEF Init, Load
<1>3. At(t, Running) = {}
  BY <1>1, IdleFacts, PipelineAssumption DEF Init, At
<1>4. Letters(t) = {}
  BY <1>1, EmptySeq DEF Init, Letters
<1>5. QED
  BY <1>2, <1>3, <1>4, FS_EmptySet

\* "an acked message ... will be reprocessed once requeued": whatever fails in
\* the handlers, the provider, the pool, the breaker and the dead-letter table,
\* however many handlers and operators work at once, a transaction is in one
\* pair of hands, but for the redeliveries, restarts and repeated publications
\* that copies counts.
THEOREM PipelineSingleCustody == Spec => []SingleCustody
<1>1. TypeOK /\ CustodyInv /\ [Next]_vars => CustodyInv'
  BY CustodyStep DEF CustodyInv
<1>2. TypeOK /\ CustodyInv => SingleCustody
  <2>1. SUFFICES ASSUME TypeOK, CustodyInv, NEW t \in Txs PROVE Custody(t) <= 1 + copies[t]
    BY DEF SingleCustody
  <2>2. {w \in Workers : job[w].tx = t /\ job[w].pc # "nack"} = At(t, Running)
    BY <2>1 DEF At, Running, TypeOK, Jobs
  <2>3. {i \in 1..Len(dlq) : dlq[i].tx = t /\ dlq[i].published = 0} = Letters(t)
    BY DEF Letters
  <2>4. /\ Cardinality(At(t, Running)) \in Nat /\ Cardinality(Letters(t)) \in Nat
        /\ queue[t] \in Nat /\ timers[t] \in Nat /\ copies[t] \in Nat
        /\ Load(t) + Cardinality(At(t, Running)) + Cardinality(Letters(t)) <= 1 + copies[t]
    BY <2>1, CountsAreNat DEF CustodyInv, TypeOK
  <2>5. Custody(t) = (IF api[t] = "created" THEN 1 ELSE 0) + queue[t] + timers[t]
                     + Cardinality(At(t, Running)) + Cardinality(Letters(t))
    BY <2>2, <2>3 DEF Custody
  <2>6. QED
    BY <2>4, <2>5 DEF Load
<1>3. QED
  BY <1>1, <1>2, CustodyInit, PipelineTypes, PTL DEF Spec
-----------------------------------------------------------------------------
\* Somebody will still take care of the transaction.
Held(t) ==
  \/ api[t] = "created"
  \/ queue[t] > 0
  \/ timers[t] > 0
  \/ \E w \in Workers : job[w].tx = t /\ job[w].pc # "nack"
  \/ \E i \in 1..Len(dlq) : dlq[i].tx = t /\ dlq[i].published = 0

LEMMA CustodyIsHeld == ASSUME TypeOK, NEW t \in Txs PROVE Held(t) => Custody(t) > 0
<1>1. {w \in Workers : job[w].tx = t /\ job[w].pc # "nack"} = At(t, Running)
  BY DEF At, Running, TypeOK, Jobs
<1>2. {i \in 1..Len(dlq) : dlq[i].tx = t /\ dlq[i].published = 0} = Letters(t)
  BY DEF Letters
<1>3. /\ IsFiniteSet(At(t, Running)) /\ Cardinality(At(t, Running)) \in Nat
      /\ IsFiniteSet(Letters(t)) /\ Cardinality(Letters(t)) \in Nat
  BY CountsAreNat
<1>4. /\ At(t, Running) # {} => Cardinality(At(t, Running)) > 0
      /\ Letters(t) # {} => Cardinality(Letters(t)) > 0
  BY <1>3, FS_EmptySet
<1>5. queue[t] \in Nat /\ timers[t] \in Nat
  BY DEF TypeOK
<1>6. Held(t) => \/ api[t] = "created" \/ queue[t] > 0 \/ timers[t] > 0
                 \/ At(t, Running) # {} \/ Letters(t) # {}
  BY <1>1, <1>2 DEF Held
<1>7. Custody(t) = (IF api[t] = "created" THEN 1 ELSE 0) + queue[t] + timers[t]
                   + Cardinality(At(t, Running)) + Cardinality(Letters(t))
  BY <1>1, <1>2 DEF Custody
<1>8. QED
  BY <1>3, <1>4, <1>5, <1>6, <1>7

\* A pending transaction is held.
HeldInv == \A t \in Txs : status[t] = "pending" => Held(t)

\* The verdict "pending" is written once, by the request.
LEMMA PendingFacts ==
  ASSUME TypeOK, [Next]_vars, NEW t \in Txs, status'[t] = "pending"
  PROVE  \/ status[t] = "pending"
         \/ api[t] = "new" /\ Create(t)
<1>1. status \in [Txs -> Statuses \cup {"none"}]
  BY DEF TypeOK
<1>2. ASSUME UNCHANGED status PROVE status[t] = "pending"
  BY <1>2
<1>3. ASSUME NEW u \in Txs,
             \/ Create(u) \/ Enqueue(u) \/ EnqueueFails(u)
             \/ CancelCheck(u) \/ CancelWrite(u) \/ TimerFires(u) \/ TimerFails(u)
      PROVE  status[t] = "pending" \/ (api[t] = "new" /\ Create(t))
  <2>1. CASE Create(u)
    <3>1. api[u] = "new" /\ status' = [status EXCEPT ![u] = "pending"]
      BY <2>1 DEF Create
    <3>2. QED
      BY <1>1, <2>1, <3>1
  <2>2. CASE CancelWrite(u)
    BY <1>1, <2>2 DEF CancelWrite
  <2>3. CASE Enqueue(u) \/ EnqueueFails(u) \/ CancelCheck(u) \/ TimerFires(u) \/ TimerFails(u)
    BY <1>2, <2>3 DEF Enqueue, EnqueueFails, CancelCheck, TimerFires, TimerFails, rows
  <2>4. QED
    BY <1>3, <2>1, <2>2, <2>3
<1>4. ASSUME NEW w \in Workers, Handles(w) PROVE status[t] = "pending"
  BY <1>1, <1>4 DEF Handles, Writes
<1>5. ASSUME NEW w \in Workers, NEW u \in Txs, Deliver(w, u) PROVE status[t] = "pending"
  BY <1>2, <1>5 DEF Deliver, rows
<1>6. ASSUME NEW a \in Admins, Replay(a) PROVE status[t] = "pending"
  BY <1>2, <1>6 DEF Replay, ReplayRead, ReplayReadStale, ReplayPublish, ReplayPublishFails,
                    ReplayMark, ReplayMarkFails, rows
<1>7. CASE StartPool \/ ChannelLost \/ Crash \/ UNCHANGED vars
  BY <1>2, <1>7 DEF StartPool, ChannelLost, Crash, vars, rows
<1>8. QED
  BY <1>3, <1>4, <1>5, <1>6, <1>7, StepHandles DEF Next

\* A handler passes a pending transaction on, unless its letter is lost.
LEMMA HeldHandles ==
  ASSUME TypeOK, faults["capture"] = 0, HeldInv, NEW w \in Workers, Handles(w),
         NEW t \in Txs, status[t] = "pending"
  PROVE  Held(t)'
<1> DEFINE u == job[w].tx
<1>1. /\ u \in Txs /\ Passes(w) /\ UNCHANGED api
      /\ job'[w].pc # "idle" => job'[w].tx = u
      /\ \A v \in Workers : v # w => job'[v] = job[v]
  BY OthersStay DEF Handles, Moves
<1>2. Held(t)
  BY DEF HeldInv
<1>3. queue \in [Txs -> Nat] /\ timers \in [Txs -> Nat]
  BY DEF TypeOK
<1>4. UNCHANGED queue /\ (timers[t] > 0 => timers'[t] > 0)
  BY <1>1, <1>3 DEF Passes
<1>5. /\ \A i \in 1..Len(dlq) : i \in 1..Len(dlq') /\ dlq'[i] = dlq[i]
      /\ dlq' = Append(dlq, Letter(u)) =>
           \E i \in 1..Len(dlq') : dlq'[i].tx = u /\ dlq'[i].published = 0
  <2>1. CASE UNCHANGED dlq
    <3>1. Len(dlq) \in Nat
      BY LetterFacts
    <3>2. dlq' # Append(dlq, Letter(u))
      <4>1. ASSUME dlq' = Append(dlq, Letter(u)) PROVE FALSE
        BY <1>1, <2>1, <3>1, <4>1, CaptureFacts DEF TypeOK
      <4>2. QED
        BY <4>1
    <3>3. QED
      BY <2>1, <3>2
  <2>2. CASE dlq' = Append(dlq, Letter(u))
    <3>1. /\ Len(dlq) \in Nat /\ Len(dlq') = Len(dlq) + 1
          /\ \A i \in 1..Len(dlq) : dlq'[i] = dlq[i]
          /\ dlq'[Len(dlq) + 1].tx = u /\ dlq'[Len(dlq) + 1].published = 0
      BY <1>1, <2>2, CaptureFacts DEF TypeOK, Letter
    <3>2. Len(dlq) + 1 \in 1..Len(dlq') /\ \A i \in 1..Len(dlq) : i \in 1..Len(dlq')
      BY <3>1
    <3>3. QED
      BY <3>1, <3>2
  <2>3. QED
    BY <1>1, <2>1, <2>2 DEF Passes, u
<1> HIDE DEF u
<1>6. ASSUME ~(u = t /\ job[w].pc # "nack") PROVE Held(t)'
  <2>1. ASSUME NEW v \in Workers, job[v].tx = t, job[v].pc # "nack"
        PROVE  job'[v].tx = t /\ job'[v].pc # "nack"
    BY <1>1, <1>6, <2>1 DEF u
  <2>2. QED
    BY <1>1, <1>2, <1>4, <1>5, <2>1 DEF Held
<1>7. ASSUME u = t, job[w].pc # "nack" PROVE Held(t)'
  <2>1. CASE job'[w].pc \notin {"idle", "nack"}
    BY <1>1, <1>7, <2>1 DEF Held
  <2>2. CASE timers' = [timers EXCEPT ![u] = @ + 1]
    BY <1>1, <1>3, <1>7, <2>2 DEF Held
  <2>3. CASE dlq' = Append(dlq, Letter(u))
    BY <1>5, <1>7, <2>3 DEF Held
  <2>4. QED
    BY <1>1, <1>2, <1>7, <2>1, <2>2, <2>3 DEF Passes, u
<1>8. QED
  BY <1>6, <1>7

\* Every publish is accepted, every capture is stored, the process stays up.
NoLoss == Budget["publish"] = 0 /\ Budget["capture"] = 0 /\ Budget["crash"] = 0

LEMMA HeldStep ==
  ASSUME NoLoss, TypeOK, WithinBudget, HeldInv, [Next]_vars, NEW t \in Txs, status'[t] = "pending"
  PROVE  Held(t)'
<1>1. ~Fault("publish") /\ ~Fault("crash") /\ faults["capture"] = 0
  BY NoFault DEF NoLoss, FaultKinds
<1>2. queue \in [Txs -> Nat] /\ timers \in [Txs -> Nat] /\ api \in [Txs -> {"new", "created", "done"}]
  BY DEF TypeOK
<1>3. CASE Create(t)
  BY <1>2, <1>3 DEF Create, Held
<1>4. SUFFICES ASSUME ~Create(t), status[t] = "pending", Held(t) PROVE Held(t)'
  BY <1>3, PendingFacts DEF HeldInv
<1>5. ASSUME UNCHANGED <<job, dlq, timers>>, queue'[t] >= queue[t], queue'[t] \in Nat,
             api[t] = "created" => api'[t] = "created" \/ queue'[t] > 0
      PROVE  Held(t)'
  BY <1>2, <1>4, <1>5 DEF Held
<1>6. ASSUME NEW u \in Txs, Create(u) PROVE Held(t)'
  BY <1>2, <1>4, <1>5, <1>6 DEF Create
<1>7. ASSUME NEW u \in Txs, Enqueue(u) PROVE Held(t)'
  BY <1>2, <1>5, <1>7 DEF Enqueue
<1>8. ASSUME NEW u \in Txs, CancelCheck(u) \/ CancelWrite(u) PROVE Held(t)'
  BY <1>2, <1>5, <1>8 DEF CancelCheck, CancelWrite
<1>9. ASSUME NEW u \in Txs, TimerFires(u) PROVE Held(t)'
  <2>1. /\ timers[u] > 0 /\ timers' = [timers EXCEPT ![u] = @ - 1]
        /\ queue' = [queue EXCEPT ![u] = @ + 1]
        /\ UNCHANGED <<api, job, dlq>>
    BY <1>9 DEF TimerFires, requests
  <2>2. CASE u = t
    BY <1>2, <2>1, <2>2 DEF Held
  <2>3. CASE u # t
    <3>1. queue'[t] = queue[t] /\ timers'[t] = timers[t]
      BY <1>2, <2>1, <2>3
    <3>2. QED
      BY <1>4, <2>1, <3>1 DEF Held
  <2>4. QED
    BY <2>2, <2>3
<1>10. ASSUME NEW w \in Workers, NEW u \in Txs, Deliver(w, u) PROVE Held(t)'
  <2>1. /\ [Idle EXCEPT !.tx = u, !.pc = "advance", !.held = TRUE].tx = u
        /\ [Idle EXCEPT !.tx = u, !.pc = "advance", !.held = TRUE].pc = "advance"
    BY DEF Idle
  <2>2. /\ job[w].tx # t
        /\ queue' = [queue EXCEPT ![u] = @ - 1]
        /\ job'[w].tx = u /\ job'[w].pc = "advance"
        /\ \A v \in Workers : v # w => job'[v] = job[v]
        /\ UNCHANGED <<api, timers, dlq>>
    BY <1>10, <2>1, PipelineAssumption DEF Deliver, requests, TypeOK
  <2>3. CASE u = t
    BY <2>2, <2>3 DEF Held
  <2>4. CASE u # t
    <3>1. queue'[t] = queue[t]
      BY <1>2, <2>2, <2>4
    <3>2. ASSUME NEW v \in Workers, job[v].tx = t, job[v].pc # "nack"
          PROVE  job'[v].tx = t /\ job'[v].pc # "nack"
      BY <2>2, <3>2
    <3>3. QED
      BY <1>4, <2>2, <3>1, <3>2 DEF Held
  <2>5. QED
    BY <2>3, <2>4
<1>11. ASSUME NEW w \in Workers, Handles(w) PROVE Held(t)'
  BY <1>1, <1>4, <1>11, HeldHandles
<1>12. ASSUME NEW a \in Admins, ReplayPublish(a) PROVE Held(t)'
  <2> DEFINE i == replay[a].entry
  <2>1. /\ i \in 1..Len(dlq) /\ Len(dlq') = Len(dlq)
        /\ \A k \in 1..Len(dlq) : k # i => dlq'[k] = dlq[k]
        /\ queue' = [queue EXCEPT ![dlq[i].tx] = @ + 1]
    BY <1>12, PublishFacts
  <2>2. UNCHANGED <<api, timers, job>>
    BY <1>12 DEF ReplayPublish
  <2> HIDE DEF i
  <2>3. CASE dlq[i].tx = t
    BY <1>2, <2>1, <2>3 DEF Held
  <2>4. CASE dlq[i].tx # t
    <3>1. queue'[t] = queue[t]
      BY <1>2, <2>1, <2>4
    <3>2. QED
      BY <1>4, <2>1, <2>2, <2>4, <3>1 DEF Held
  <2>5. QED
    BY <2>3, <2>4
<1>13. ASSUME NEW a \in Admins, ReplayMark(a) PROVE Held(t)'
  <2>1. /\ Len(dlq') = Len(dlq)
        /\ \A k \in 1..Len(dlq) : dlq'[k].tx = dlq[k].tx /\ dlq'[k].published = dlq[k].published
    BY <1>13, MarkFacts
  <2>2. UNCHANGED <<api, queue, timers, job>>
    BY <1>13 DEF ReplayMark
  <2>3. QED
    BY <1>4, <2>1, <2>2 DEF Held
<1>14. ASSUME NEW a \in Admins, Replay(a), ~ReplayPublish(a), ~ReplayMark(a) PROVE Held(t)'
  BY <1>2, <1>5, <1>14 DEF Replay, ReplayRead, ReplayReadStale, ReplayPublishFails, ReplayMarkFails
<1>15. CASE StartPool \/ UNCHANGED vars
  BY <1>2, <1>5, <1>15 DEF StartPool, requests, vars
<1>16. CASE ChannelLost
  <2>1. UNCHANGED <<api, timers, dlq>> /\ queue' = Returned
    BY <1>16 DEF ChannelLost, requests
  <2>2. \A w \in Workers : job'[w].tx = job[w].tx /\ job'[w].pc = job[w].pc
    BY <1>16, ChannelKeeps
  <2>3. queue[t] > 0 => queue'[t] > 0
    BY <1>2, <2>1, ReturnedFacts
  <2>4. QED
    BY <1>4, <2>1, <2>2, <2>3 DEF Held
<1>17. ~Crash /\ \A u \in Txs : ~EnqueueFails(u) /\ ~TimerFails(u)
  BY <1>1 DEF Crash, EnqueueFails, TimerFails
<1>18. QED
  BY <1>6, <1>7, <1>8, <1>9, <1>10, <1>11, <1>12, <1>13, <1>14, <1>15, <1>16, <1>17,
     StepHandles DEF Next

\* Every early return, requeue, failure and replay of the worker leaves a pending
\* transaction in somebody's hands, lost channels and overlapping replays
\* included: it is lost only where a publish is refused, the insert of the dead
\* letter fails, or the process dies.
THEOREM PipelineNothingLost == NoLoss => (Spec => []NothingLost)
<1>1. SUFFICES ASSUME NoLoss PROVE Spec => []NothingLost
  OBVIOUS
<1>2. Init => HeldInv
  BY DEF Init, HeldInv
<1>3. TypeOK /\ WithinBudget /\ HeldInv /\ [Next]_vars => HeldInv'
  BY <1>1, HeldStep DEF HeldInv
<1>4. TypeOK /\ HeldInv => NothingLost
  BY CustodyIsHeld DEF HeldInv, NothingLost
<1>5. QED
  BY <1>1, <1>2, <1>3, <1>4, PipelineTypes, BudgetHolds, PTL DEF Spec
=============================================================================
