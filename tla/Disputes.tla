------------------------------ MODULE Disputes ------------------------------
(***************************************************************************)
(* The dispute workflow on one transaction (src/src/services/dispute.ts,   *)
(* src/src/routes/disputes.ts, src/src/models/dispute.ts), together with   *)
(* refunds, clawbacks and notification retries that run at the same time.  *)
(* A dispute is named by the request that opened it.                       *)
(*                                                                         *)
(* Every dispute operation ends by recording a timeline event through a    *)
(* field the class never defines, so its caller gets an error after all    *)
(* the writes below are done; the writes are what the model keeps.         *)
(***************************************************************************)
EXTENDS Reversal

VARIABLE dispute  \* request that opened it -> disputes.status, None before

vars == <<txn, booked, hasEntries, undone, reversals, clawbacks, lock, record,
          told, pc, op, arg, goal, snap, hurt, dispute>>

Active == {"open", "investigating"}
Closed == {"resolved", "rejected", "reversed", "upheld"}

Ops == {"refund", "clawback", "notify", "open", "status", "assign", "reverse", "uphold"}

ASSUME DisputeAssumption == None \notin Active \cup Closed \cup Ops

\* TRANSITIONS and DISPUTE_TRANSITIONS
Transitions(status) ==
  IF status = "open" THEN {"investigating"} \cup Closed
  ELSE IF status = "investigating" THEN Closed
  ELSE {}

Init == ReversalInit /\ dispute = [d \in Requests |-> None]

-----------------------------------------------------------------------------
\* openDispute(): the transaction must have completed or failed.
OpenDispute(r) ==
  /\ pc[r] = "idle"
  /\ txn \in {"completed", "failed"}
  /\ op' = [op EXCEPT ![r] = "open"]
  /\ pc' = [pc EXCEPT ![r] = "open.active"]
  /\ UNCHANGED <<txn, ledgerVars, lock, record, told, arg, goal, snap, hurt, dispute>>

NoneActive == \A d \in Requests : dispute[d] \notin Active

\* findActiveByTransactionId(); a lagging replica may not show a new dispute.
FindActive(r) ==
  /\ pc[r] = "open.active"
  /\ \/ /\ ReplicaLag \/ NoneActive
        /\ pc' = [pc EXCEPT ![r] = "open.insert"]
     \/ /\ ~NoneActive
        /\ pc' = [pc EXCEPT ![r] = "done"]
  /\ UNCHANGED <<txn, ledgerVars, lock, record, told, op, arg, goal, snap, hurt, dispute>>

\* Faulty variant: disputes has no unique index on the active ones.
InsertUnindexed(r) ==
  /\ pc[r] = "open.insert"
  /\ dispute' = [dispute EXCEPT ![r] = "open"]
  /\ pc' = [pc EXCEPT ![r] = "open.mark"]
  /\ UNCHANGED <<txn, ledgerVars, lock, record, told, op, arg, goal, snap, hurt>>

\* create(): idx_disputes_open_transaction rejects a second active dispute.
InsertDispute(r) ==
  /\ pc[r] = "open.insert"
  /\ IF NoneActive
     THEN /\ dispute' = [dispute EXCEPT ![r] = "open"]
          /\ pc' = [pc EXCEPT ![r] = "open.mark"]
     ELSE pc' = [pc EXCEPT ![r] = "done"] /\ UNCHANGED dispute
  /\ UNCHANGED <<txn, ledgerVars, lock, record, told, op, arg, goal, snap, hurt>>

\* updateStatus(Dispute) of the transaction.
MarkDisputed(r) ==
  /\ pc[r] = "open.mark"
  /\ txn' = Written("dispute")
  /\ pc' = [pc EXCEPT ![r] = "done"]
  /\ UNCHANGED <<ledgerVars, lock, record, told, op, arg, goal, snap, hurt, dispute>>

\* PATCH /:disputeId/status and updateStatus() up to the write: the route and
\* the service check the same table, the service last.
ChangeStatus(r, d, status) ==
  /\ pc[r] = "idle"
  /\ dispute[d] # None
  /\ status \in Transitions(dispute[d])
  /\ op' = [op EXCEPT ![r] = "status"]
  /\ arg' = [arg EXCEPT ![r] = d]
  /\ goal' = [goal EXCEPT ![r] = status]
  /\ pc' = [pc EXCEPT ![r] = "dispute.write"]
  /\ UNCHANGED <<txn, ledgerVars, lock, record, told, snap, hurt, dispute>>

\* assignToAgent(): the check of the status.
Assign(r, d) ==
  /\ pc[r] = "idle"
  /\ dispute[d] \in Active
  /\ op' = [op EXCEPT ![r] = "assign"]
  /\ arg' = [arg EXCEPT ![r] = d]
  /\ pc' = [pc EXCEPT ![r] = "assign.claim"]
  /\ UNCHANGED <<txn, ledgerVars, lock, record, told, goal, snap, hurt, dispute>>

\* assign(): the agent is written, and the status the row then has decides
\* whether the dispute is moved to investigating.
ClaimDispute(r) ==
  /\ pc[r] = "assign.claim"
  /\ pc' = [pc EXCEPT ![r] = IF dispute[arg[r]] = "open" THEN "dispute.write" ELSE "done"]
  /\ UNCHANGED <<txn, ledgerVars, lock, record, told, op, arg, goal, snap, hurt, dispute>>

\* resolvePayment() up to its first write or its call of reverse().
Resolve(r, d, action) ==
  /\ pc[r] = "idle"
  /\ dispute[d] \in Active
  /\ op' = [op EXCEPT ![r] = action]
  /\ arg' = [arg EXCEPT ![r] = d]
  /\ pc' = [pc EXCEPT ![r] = IF action = "reverse" THEN "rev.begin" ELSE "dispute.write"]
  /\ UNCHANGED <<txn, ledgerVars, lock, record, told, goal, snap, hurt, dispute>>

\* reverse() as resolvePayment() calls it, with allowCompleted.
ReverseDisputed(r) ==
  /\ pc[r] = "rev.begin"
  /\ ReverseFrom(r, {"failed", "dispute", "completed"}, "dispute.write")
  /\ UNCHANGED <<txn, ledgerVars, lock, record, told, op, arg, goal, snap, hurt, dispute>>

\* The status a request writes to its dispute.
NewStatus(r) ==
  CASE op[r] = "reverse" -> "reversed"
    [] op[r] = "uphold"  -> "upheld"
    [] op[r] = "assign"  -> "investigating"
    [] OTHER             -> goal[r]

\* update() of the dispute's status, whatever the status has become since it
\* was read; the unique index still refuses a second active dispute.
WriteDispute(r) ==
  /\ pc[r] = "dispute.write"
  /\ IF NewStatus(r) \in Active /\ \E d \in Requests \ {arg[r]} : dispute[d] \in Active
     THEN pc' = [pc EXCEPT ![r] = "done"] /\ UNCHANGED dispute
     ELSE /\ dispute' = [dispute EXCEPT ![arg[r]] = NewStatus(r)]
          /\ pc' = [pc EXCEPT ![r] = IF op[r] = "uphold" THEN "uphold.mark" ELSE "done"]
  /\ UNCHANGED <<txn, ledgerVars, lock, record, told, op, arg, goal, snap, hurt>>

\* resolvePayment(): an upheld transaction is completed again.
MarkUpheld(r) ==
  /\ pc[r] = "uphold.mark"
  /\ txn' = Written("completed")
  /\ pc' = [pc EXCEPT ![r] = "done"]
  /\ UNCHANGED <<ledgerVars, lock, record, told, op, arg, goal, snap, hurt, dispute>>

\* The cleanup job and the retention policy delete an old transaction that
\* completed or failed, whatever requests are under way.
Purge ==
  /\ txn \in {"completed", "failed"}
  /\ txn' = "deleted"
  /\ UNCHANGED <<ledgerVars, lock, record, told, pc, op, arg, goal, snap, hurt, dispute>>

-----------------------------------------------------------------------------
\* A request arrives.
Call(r) ==
  \/ ReversalCall(r) /\ UNCHANGED dispute
  \/ OpenDispute(r)
  \/ \E d \in Requests :
       \/ \E status \in {"investigating"} \cup Closed : ChangeStatus(r, d, status)
       \/ Assign(r, d)
       \/ \E action \in {"reverse", "uphold"} : Resolve(r, d, action)

\* A request under way executes its next statement.
Step(r) ==
  \/ ReversalStep(r) /\ UNCHANGED dispute
  \/ FindActive(r) \/ InsertDispute(r) \/ MarkDisputed(r)
  \/ ClaimDispute(r) \/ ReverseDisputed(r) \/ WriteDispute(r) \/ MarkUpheld(r)

Failure(r) == (Throw(r) \/ Stop(r)) /\ UNCHANGED dispute

Next == Purge \/ \E r \in Requests : Call(r) \/ Step(r) \/ Failure(r)

\* A request under way runs to its end: the event loop resumes it when its
\* statement returns, and PostgreSQL grants a freed lock to a waiter.
Fairness == \A r \in Requests : WF_vars(Step(r))

Spec == Init /\ [][Next]_vars /\ Fairness

-----------------------------------------------------------------------------
Labels == {"idle", "done", "rev.begin", "rev.create", "rev.lock", "rev.read",
           "rev.commit", "rev.mark", "rec.read", "rec.write", "rev.notify",
           "rev.final", "claw.post", "claw.mark", "open.active", "open.insert",
           "open.mark", "assign.claim", "dispute.write", "uphold.mark"}

\* Every variable keeps the shape its table or its local variable has.
TypeOK ==
  /\ txn \in TxnStatuses
  /\ booked \in [Accounts -> Int]
  /\ hasEntries \in BOOLEAN
  /\ undone \in [Accounts -> Int]
  /\ reversals \in Nat
  /\ clawbacks \in Nat
  /\ lock \in Requests \cup {None}
  /\ record \in [Requests -> RecordStatuses \cup {None}]
  /\ told \subseteq Requests
  /\ pc \in [Requests -> Labels]
  /\ op \in [Requests -> Ops \cup {None}]
  /\ arg \in [Requests -> Requests \cup {None}]
  /\ goal \in [Requests -> RecordStatuses \cup Active \cup Closed \cup {None}]
  /\ snap \in [Requests -> [Accounts -> Int]]
  /\ hurt \subseteq Requests
  /\ dispute \in [Requests -> Active \cup Closed \cup {None}]

\* "The deterministic reference and transaction lock make retries idempotent"
\* (ledgerService.ts:226): however many requests reverse the transaction, and
\* whichever of them fail or are killed, REV-<reference> is posted once.
PostedOnce == reversals <= 1

\* "Post the exact inverse of a transaction's ledger entries": once reversed,
\* and if nothing was clawed back, every account is back where it was.
ReversedNetsToZero ==
  reversals > 0 /\ clawbacks = 0 => \A a \in Accounts : booked[a] + undone[a] = 0

\* A transaction marked reversed, and a reversal row marked posted or notified,
\* are backed by a posted reversal in the ledger.
ReversedStatusBacked ==
  (txn = "reversed" \/ \E r \in Requests : record[r] \in {"posted", "notified"})
    => reversals > 0

\* No user is told "has been reversed" unless the ledger was reversed.
ToldOnlyOfPosted == told # {} => reversals > 0

\* "No other active (open / investigating) dispute may exist for the same
\* transaction" (dispute.ts:130), also when two requests open one at once, when
\* a lagging replica hides one and when a closed one is written back to active.
OneActiveDispute ==
  \A c, d \in Requests : dispute[c] \in Active /\ dispute[d] \in Active => c = d

\* A retry completes what a failed reversal left: once a request that made a
\* reversal row and met no failure of its own has ended, a transaction whose
\* ledger is reversed is marked reversed or has been purged, unless a request
\* that opens, upholds or claws back wrote another status around it.  (Needs
\* a database whose status check admits reversed.)
RetryMarksReversed ==
  StatusWidened /\ reversals > 0 =>
    \A r \in Requests :
      pc[r] = "done" /\ record[r] # None /\ r \notin hurt =>
        \/ txn \in {"reversed", "deleted"}
        \/ \E q \in Requests : op[q] \in {"open", "uphold", "clawback"}

\* Every request ends: no failure leaves the advisory lock behind for others
\* to wait on.  A request runs once and an ended one never runs again, so
\* from some point on none is under way.
EveryRequestEnds == <>[](\A r \in Requests : pc[r] \in {"idle", "done"})
=============================================================================
