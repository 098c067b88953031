------------------------------ MODULE Reversal ------------------------------
(***************************************************************************)
(* Reversing and clawing back one transaction: the reversal service        *)
(* (src/src/services/transactionReversalService.ts), the ledger postings   *)
(* it relies on (src/src/services/ledgerService.ts) and the clawback route *)
(* (src/src/routes/admin.ts).                                              *)
(*                                                                         *)
(* A member of Requests is one HTTP request; several run at once and every *)
(* database statement is a step of its own.  The transaction_reversals row *)
(* a request inserts is named by the request.  Disputes.tla adds the       *)
(* dispute workflow, which calls reverse(), and the specification.         *)
(*                                                                         *)
(* queryRead() may go to a lagging replica (config/database.ts).  A late   *)
(* answer to the first read of a request is the same as an early read, so  *)
(* ReplicaLag only appears where a request reads after its own writes.     *)
(*                                                                         *)
(* TransactionModel.updateStatus() ends, once its UPDATE found a row, in a *)
(* ReferenceError: it names a constant that exists nowhere.  So it throws  *)
(* after writing, and returns only when the row has been purged.           *)
(***************************************************************************)
EXTENDS Integers, FiniteSets

CONSTANTS
  Requests,    \* the HTTP requests that arrive
  Amount,      \* transactions.amount
  Fee,         \* the fee taken when the transaction was booked
  ReplicaLag,  \* READ_REPLICA_URL is set and the replica may lag
  StatusWidened, \* the CHECK on transactions.status admits Added (see Written)
  MaxFaults,   \* bound: requests with a failed statement or a killed process
  None

RecordStatuses == {"requested", "posted", "notified", "failed"}

ASSUME ReversalAssumption ==
  /\ Amount \in Nat \ {0}
  /\ Fee \in Nat
  /\ ReplicaLag \in BOOLEAN
  /\ StatusWidened \in BOOLEAN
  /\ MaxFaults \in Nat
  /\ None \notin Requests \cup RecordStatuses

VARIABLES
  txn,        \* transactions.status
  booked,     \* account -> debits less credits under the transaction's reference
  hasEntries, \* ledger_entries holds a row under that reference
  undone,     \* account -> debits less credits under REV-<reference>
  reversals,  \* how many times REV-<reference> was posted
  clawbacks,  \* how many clawbacks were posted
  lock,       \* the request that holds the advisory lock on REV-<reference>
  record,     \* request -> transaction_reversals.status of its row, None before
  told,       \* the rows whose "Transaction Reversed" notice was delivered
  pc,         \* request -> the statement it is about to execute
  op,         \* request -> the endpoint it called
  arg,        \* request -> the dispute or reversal row it was given
  goal,       \* request -> the status it is about to write
  snap,       \* request -> what postReversal() read of the ledger
  hurt        \* the requests a statement of which failed or that were killed

ledgerVars == <<booked, hasEntries, undone, reversals, clawbacks>>

Accounts == {"float", "customer", "fees"}
TxnStatuses == {"completed", "failed", "dispute", "reversed", "clawed_back",
                "deleted"}  \* no row any more

\* The statuses transactions_legacy_status_check refuses.
Added == {"dispute", "reversed", "clawed_back"}

\* The UPDATE of updateStatus(): a purged row stays away, and a database that
\* still has the legacy check refuses the added statuses.
Written(status) ==
  IF txn = "deleted" \/ (~StatusWidened /\ status \in Added) THEN txn ELSE status

Nothing == [a \in Accounts |-> 0]

\* postDeposit(): the float is debited, the customer and the fee are credited.
Deposit == [Nothing EXCEPT !["float"] = Amount, !["customer"] = Fee - Amount,
                           !["fees"] = -Fee]

\* postWithdrawal(): the customer is debited amount and fee.
Withdrawal == [Nothing EXCEPT !["customer"] = Amount + Fee, !["float"] = -Amount,
                              !["fees"] = -Fee]

\* A transaction that ended, booked in the ledger or not.
ReversalInit ==
  /\ txn \in {"completed", "failed"}
  /\ booked \in {Nothing, Deposit, Withdrawal}
  /\ hasEntries = (booked # Nothing)
  /\ undone = Nothing
  /\ reversals = 0
  /\ clawbacks = 0
  /\ lock = None
  /\ record = [r \in Requests |-> None]
  /\ told = {}
  /\ pc = [r \in Requests |-> "idle"]
  /\ op = [r \in Requests |-> None]
  /\ arg = [r \in Requests |-> None]
  /\ goal = [r \in Requests |-> None]
  /\ snap = [r \in Requests |-> Nothing]
  /\ hurt = {}

-----------------------------------------------------------------------------
\* What reverse() does once it has read the transaction's status: a reversed
\* one is reported as such, a missing one or one outside the allowed statuses
\* is refused.
ReverseFrom(r, allowed, return) ==
  pc' = [pc EXCEPT ![r] = IF txn = "reversed" THEN return
                          ELSE IF txn \in allowed THEN "rev.create" ELSE "done"]

\* POST /:id/refund, the refund handler: reverse() of a failed or disputed
\* transaction.
Refund(r) ==
  /\ pc[r] = "idle"
  /\ op' = [op EXCEPT ![r] = "refund"]
  /\ ReverseFrom(r, {"failed", "dispute"}, "done")
  /\ UNCHANGED <<txn, ledgerVars, lock, record, told, arg, goal, snap, hurt>>

\* createReversalRecord()
CreateRecord(r) ==
  /\ pc[r] = "rev.create"
  /\ record' = [record EXCEPT ![r] = "requested"]
  /\ pc' = [pc EXCEPT ![r] = "rev.lock"]
  /\ UNCHANGED <<txn, ledgerVars, lock, told, op, arg, goal, snap, hurt>>

\* Faulty variant: postReversal() does not wait for the advisory lock.
LockUnguarded(r) ==
  /\ pc[r] = "rev.lock"
  /\ lock' = r
  /\ pc' = [pc EXCEPT ![r] = "rev.read"]
  /\ UNCHANGED <<txn, ledgerVars, record, told, op, arg, goal, snap, hurt>>

\* postReversal(): BEGIN and the advisory lock on the reversal's reference.
Lock(r) ==
  /\ pc[r] = "rev.lock"
  /\ lock = None
  /\ lock' = r
  /\ pc' = [pc EXCEPT ![r] = "rev.read"]
  /\ UNCHANGED <<txn, ledgerVars, record, told, op, arg, goal, snap, hurt>>

\* Faulty variant: a transaction without entries counts as reversed.
ReadLedgerLenient(r) ==
  /\ pc[r] = "rev.read"
  /\ IF reversals > 0 \/ ~hasEntries
     THEN /\ lock' = None
          /\ pc' = [pc EXCEPT ![r] = "rev.mark"]
          /\ UNCHANGED snap
     ELSE /\ snap' = [snap EXCEPT ![r] = booked]
          /\ pc' = [pc EXCEPT ![r] = "rev.commit"]
          /\ UNCHANGED lock
  /\ UNCHANGED <<txn, ledgerVars, record, told, op, arg, goal, hurt>>

\* postReversal(): an existing reversal ends it, a transaction without entries
\* makes it throw, otherwise every entry not under REV- is read.
ReadLedger(r) ==
  /\ pc[r] = "rev.read"
  /\ \/ /\ reversals > 0
        /\ lock' = None
        /\ pc' = [pc EXCEPT ![r] = "rev.mark"]
        /\ UNCHANGED <<goal, snap>>
     \/ /\ reversals = 0 /\ ~hasEntries
        /\ lock' = None
        /\ goal' = [goal EXCEPT ![r] = "failed"]
        /\ pc' = [pc EXCEPT ![r] = "rec.read"]
        /\ UNCHANGED snap
     \/ /\ reversals = 0 /\ hasEntries
        /\ snap' = [snap EXCEPT ![r] = booked]
        /\ pc' = [pc EXCEPT ![r] = "rev.commit"]
        /\ UNCHANGED <<lock, goal>>
  /\ UNCHANGED <<txn, ledgerVars, record, told, op, arg, hurt>>

\* Faulty variant: debit and credit of the originals are not exchanged.
InverseUnswapped(entries) == entries

\* The compensating entries: debit and credit change places.
Inverse(entries) == [a \in Accounts |-> -entries[a]]

\* postReversal(): the inverse entries are inserted and committed, which frees
\* the lock.
CommitReversal(r) ==
  /\ pc[r] = "rev.commit"
  /\ undone' = [a \in Accounts |-> undone[a] + Inverse(snap[r])[a]]
  /\ reversals' = reversals + 1
  /\ lock' = None
  /\ pc' = [pc EXCEPT ![r] = "rev.mark"]
  /\ UNCHANGED <<txn, booked, hasEntries, clawbacks, record, told, op, arg, goal, snap, hurt>>

\* Faulty variant: the test before updateStatus() is the wrong way round.
MarkReversedInverted(r) ==
  /\ pc[r] = "rev.mark"
  /\ goal' = [goal EXCEPT ![r] = "posted"]
  /\ pc' = [pc EXCEPT ![r] = "rec.read"]
  /\ UNCHANGED <<txn, ledgerVars, lock, record, told, op, arg, snap, hurt>>

\* updateStatus(Reversed): it returns when the row is gone, otherwise it throws,
\* with the row written or refused, and reverse() records a failure.
MarkReversed(r) ==
  /\ pc[r] = "rev.mark"
  /\ txn' = Written("reversed")
  /\ goal' = [goal EXCEPT ![r] = IF txn = "deleted" THEN "posted" ELSE "failed"]
  /\ pc' = [pc EXCEPT ![r] = "rec.read"]
  /\ UNCHANGED <<ledgerVars, lock, record, told, op, arg, snap, hurt>>

\* The reversal row a request works on.
RecordOf(r) == IF op[r] = "notify" THEN arg[r] ELSE r

\* Where a request goes after its transition().
AfterTransition(r) ==
  IF goal[r] = "posted" THEN "rev.notify"
  ELSE IF goal[r] = "notified" /\ op[r] # "notify" THEN "rev.final"
  ELSE "done"

\* isTerminal()
Terminal(status) == status \in {"notified", "failed"}

\* transition() up to its check of the status it read; a replica that lags
\* still shows a status the row had before.
TransitionRead(r) ==
  /\ pc[r] = "rec.read"
  /\ \/ /\ ReplicaLag \/ ~Terminal(record[RecordOf(r)])
        /\ pc' = [pc EXCEPT ![r] = "rec.write"]
     \/ /\ Terminal(record[RecordOf(r)])
        /\ pc' = [pc EXCEPT ![r] = AfterTransition(r)]
  /\ UNCHANGED <<txn, ledgerVars, lock, record, told, op, arg, goal, snap, hurt>>

\* transition(): the UPDATE.  The audit event is best effort.
TransitionWrite(r) ==
  /\ pc[r] = "rec.write"
  /\ record' = [record EXCEPT ![RecordOf(r)] = goal[r]]
  /\ pc' = [pc EXCEPT ![r] = AfterTransition(r)]
  /\ UNCHANGED <<txn, ledgerVars, lock, told, op, arg, goal, snap, hurt>>

\* Faulty variant: retryNotification() does not look at the row's status.
RetryNotificationAlways(r, q) ==
  /\ pc[r] = "idle"
  /\ record[q] # None
  /\ op' = [op EXCEPT ![r] = "notify"]
  /\ arg' = [arg EXCEPT ![r] = q]
  /\ goal' = [goal EXCEPT ![r] = "notified"]
  /\ pc' = [pc EXCEPT ![r] = "rev.notify"]
  /\ UNCHANGED <<txn, ledgerVars, lock, record, told, snap, hurt>>

\* retryNotification() up to its call of notifyReversal(), which needs the
\* transaction; a lagging replica may still show a purged one.
RetryNotification(r, q) ==
  /\ pc[r] = "idle"
  /\ record[q] \in {"posted", "notified"}
  /\ ReplicaLag \/ txn # "deleted"
  /\ op' = [op EXCEPT ![r] = "notify"]
  /\ arg' = [arg EXCEPT ![r] = q]
  /\ goal' = [goal EXCEPT ![r] = IF record[q] = "posted" THEN "notified" ELSE None]
  /\ pc' = [pc EXCEPT ![r] = "rev.notify"]
  /\ UNCHANGED <<txn, ledgerVars, lock, record, told, snap, hurt>>

\* notifyReversal() delivers and the caller moves the row on; a retry of a row
\* that was notified already leaves the row alone.
Notify(r) ==
  /\ pc[r] = "rev.notify"
  /\ told' = told \cup {RecordOf(r)}
  /\ IF op[r] = "notify" /\ goal[r] = None
     THEN pc' = [pc EXCEPT ![r] = "done"] /\ UNCHANGED goal
     ELSE /\ goal' = [goal EXCEPT ![r] = "notified"]
          /\ pc' = [pc EXCEPT ![r] = "rec.read"]
  /\ UNCHANGED <<txn, ledgerVars, lock, record, op, arg, snap, hurt>>

\* notifyReversal() fails, which it only logs, or the transaction has no user.
NotifyFails(r) ==
  /\ pc[r] = "rev.notify"
  /\ pc' = [pc EXCEPT ![r] = IF op[r] = "notify" THEN "done" ELSE "rev.final"]
  /\ UNCHANGED <<txn, ledgerVars, lock, record, told, op, arg, goal, snap, hurt>>

\* The reads after the last transition; reverse() returns to its caller.
FinalRead(r) ==
  /\ pc[r] = "rev.final"
  /\ pc' = [pc EXCEPT ![r] = IF op[r] = "reverse" THEN "dispute.write" ELSE "done"]
  /\ UNCHANGED <<txn, ledgerVars, lock, record, told, op, arg, goal, snap, hurt>>

-----------------------------------------------------------------------------
\* The clawback route: only a completed transaction.  The clawback on the
\* Stellar network is awaited before anything is posted.
Clawback(r) ==
  /\ pc[r] = "idle"
  /\ txn = "completed"
  /\ op' = [op EXCEPT ![r] = "clawback"]
  /\ pc' = [pc EXCEPT ![r] = "claw.post"]
  /\ UNCHANGED <<txn, ledgerVars, lock, record, told, arg, goal, snap, hurt>>

\* postClawback(), under the transaction's own reference.
PostClawback(r) ==
  /\ pc[r] = "claw.post"
  /\ booked' = [booked EXCEPT !["customer"] = @ + Amount, !["float"] = @ - Amount]
  /\ hasEntries' = TRUE
  /\ clawbacks' = clawbacks + 1
  /\ pc' = [pc EXCEPT ![r] = "claw.mark"]
  /\ UNCHANGED <<txn, undone, reversals, lock, record, told, op, arg, goal, snap, hurt>>

\* updateStatus(ClawedBack)
MarkClawedBack(r) ==
  /\ pc[r] = "claw.mark"
  /\ txn' = Written("clawed_back")
  /\ pc' = [pc EXCEPT ![r] = "done"]
  /\ UNCHANGED <<ledgerVars, lock, record, told, op, arg, goal, snap, hurt>>

-----------------------------------------------------------------------------
\* The statements inside the try block of reverse().
InTry(r) ==
  \/ pc[r] \in {"rev.lock", "rev.read", "rev.commit", "rev.mark", "rev.final"}
  \/ pc[r] \in {"rec.read", "rec.write"} /\ op[r] # "notify" /\ goal[r] # "failed"

\* A failure of r, as far as the bound on failing requests allows.
Hurt(r) ==
  /\ Cardinality(hurt \cup {r}) <= MaxFaults
  /\ hurt' = hurt \cup {r}

\* The database connection of a request that ends or rolls back is released.
Unlock(r) == lock' = IF lock = r THEN None ELSE lock

\* Faulty variant: the connection goes back to the pool without a ROLLBACK.
ThrowKeepingLock(r) ==
  /\ InTry(r)
  /\ Hurt(r)
  /\ goal' = [goal EXCEPT ![r] = "failed"]
  /\ pc' = [pc EXCEPT ![r] = "rec.read"]
  /\ UNCHANGED <<txn, ledgerVars, lock, record, told, op, arg, snap>>

\* A statement inside the try block throws: ROLLBACK if in postReversal(), and
\* the catch block moves the row to failed.
Throw(r) ==
  /\ InTry(r)
  /\ Hurt(r)
  /\ Unlock(r)
  /\ goal' = [goal EXCEPT ![r] = "failed"]
  /\ pc' = [pc EXCEPT ![r] = "rec.read"]
  /\ UNCHANGED <<txn, ledgerVars, record, told, op, arg, snap>>

\* A statement outside the try block throws, or the process is killed.
Stop(r) ==
  /\ pc[r] \notin {"idle", "done"}
  /\ Hurt(r)
  /\ Unlock(r)
  /\ pc' = [pc EXCEPT ![r] = "done"]
  /\ UNCHANGED <<txn, ledgerVars, record, told, op, arg, goal, snap>>

\* A step of a request that is under way.
ReversalStep(r) ==
  \/ CreateRecord(r) \/ Lock(r) \/ ReadLedger(r) \/ CommitReversal(r)
  \/ MarkReversed(r) \/ TransitionRead(r) \/ TransitionWrite(r)
  \/ Notify(r) \/ NotifyFails(r) \/ FinalRead(r)
  \/ PostClawback(r) \/ MarkClawedBack(r)

\* A request that arrives.
ReversalCall(r) ==
  \/ Refund(r)
  \/ Clawback(r)
  \/ \E q \in Requests : RetryNotification(r, q)
=============================================================================
