--------------------------- MODULE DisputesProofs ---------------------------
(***************************************************************************)
(* Proofs about Disputes: for every number of concurrent requests, every   *)
(* amount and fee, any number of failures and any replica lag, a           *)
(* transaction is reversed in the ledger at most once and exactly, and     *)
(* nothing says it was reversed before it is.                              *)
(***************************************************************************)
EXTENDS Disputes, TLAPS

\* The advisory lock is held by the request inside postReversal(), and by
\* nobody when there is none: what makes its check and its insert one step.
HolderInv ==
  \A r \in Requests : pc[r] \in {"rev.read", "rev.commit"} <=> lock = r

\* A request about to commit has seen no reversal and still knows the entries.
LedgerInv ==
  /\ reversals \in {0, 1}
  /\ reversals = 0 => undone = Nothing
  /\ \A r \in Requests : pc[r] = "rev.commit" =>
       reversals = 0 /\ (clawbacks = 0 => snap[r] = booked)
  /\ ReversedNetsToZero

\* A request past postReversal() has a posted reversal behind it, and so has
\* everything such a request writes.
BackedInv ==
  /\ ReversedStatusBacked
  /\ ToldOnlyOfPosted
  /\ \A r \in Requests : pc[r] \in {"rev.mark", "rev.notify"} => reversals > 0
  /\ \A r \in Requests : pc[r] \in {"rec.read", "rec.write"} =>
       goal[r] = "failed" \/ reversals > 0

\* A request that is about to write knows which row and which status.
ArgInv ==
  /\ \A r \in Requests : op[r] \in {"notify", "status", "assign", "reverse", "uphold"} =>
       arg[r] \in Requests
  /\ \A r \in Requests : pc[r] \in {"rec.read", "rec.write"} =>
       goal[r] \in {"posted", "notified", "failed"}
  /\ \A r \in Requests : pc[r] = "dispute.write" =>
       /\ op[r] \in {"status", "assign", "reverse", "uphold"}
       /\ op[r] = "status" => goal[r] \in Active \cup Closed
  /\ \A r \in Requests : pc[r] = "rev.begin" => op[r] = "reverse"
  /\ \A r \in Requests : pc[r] = "assign.claim" => op[r] = "assign"

\* The inductive invariant.
DisputeInv ==
  TypeOK /\ HolderInv /\ LedgerInv /\ BackedInv /\ ArgInv /\ OneActiveDispute

-----------------------------------------------------------------------------
\* Nothing has been reversed, told or disputed at first.
LEMMA DisputeInvInit == Init => DisputeInv
<1>1. SUFFICES ASSUME Init PROVE DisputeInv
  OBVIOUS
<1> USE ReversalAssumption, DisputeAssumption DEF Init, ReversalInit
<1>2. /\ Nothing \in [Accounts -> Int]
      /\ Deposit \in [Accounts -> Int]
      /\ Withdrawal \in [Accounts -> Int]
  BY DEF Nothing, Deposit, Withdrawal, Accounts
<1>3. hasEntries \in BOOLEAN
  BY <1>1, Zenon
<1>4. TypeOK
  BY <1>1, <1>2, <1>3
  DEF TypeOK, TxnStatuses, RecordStatuses, Labels, Ops, Active, Closed
<1>5. HolderInv
  BY <1>1 DEF HolderInv
<1>6. LedgerInv
  BY <1>1 DEF LedgerInv, ReversedNetsToZero
<1>7. BackedInv
  BY <1>1 DEF BackedInv, ReversedStatusBacked, ToldOnlyOfPosted, RecordStatuses
<1>8. ArgInv
  BY <1>1 DEF ArgInv, Ops
<1>9. OneActiveDispute
  BY <1>1 DEF OneActiveDispute
<1>10. QED
  BY <1>4, <1>5, <1>6, <1>7, <1>8, <1>9 DEF DisputeInv

\* A refund that starts has nothing to show yet.
LEMMA RefundStep ==
  ASSUME DisputeInv, NEW r \in Requests, Refund(r), UNCHANGED dispute
  PROVE  DisputeInv'
<1> USE ReversalAssumption DEF DisputeInv, ledgerVars, ReverseFrom
<1>1. TypeOK'
  BY DEF Refund, TypeOK, TxnStatuses, RecordStatuses, Labels, Ops, Active, Closed
<1>2. HolderInv'
  BY DEF Refund, HolderInv, TypeOK
<1>3. LedgerInv'
  BY DEF Refund, LedgerInv, ReversedNetsToZero, TypeOK
<1>4. BackedInv'
  BY DEF Refund, BackedInv, ReversedStatusBacked, ToldOnlyOfPosted, TypeOK
<1>5. ArgInv'
  BY DEF Refund, ArgInv, TypeOK
<1>6. OneActiveDispute'
  BY DEF Refund, OneActiveDispute, TypeOK
<1>7. QED
  BY <1>1, <1>2, <1>3, <1>4, <1>5, <1>6

\* A new reversal row claims nothing.
LEMMA CreateRecordStep ==
  ASSUME DisputeInv, NEW r \in Requests, CreateRecord(r), UNCHANGED dispute
  PROVE  DisputeInv'
<1> USE ReversalAssumption DEF DisputeInv, ledgerVars
<1>1. TypeOK'
  BY DEF CreateRecord, TypeOK, TxnStatuses, RecordStatuses, Labels, Ops, Active, Closed
<1>2. HolderInv'
  BY DEF CreateRecord, HolderInv, TypeOK
<1>3. LedgerInv'
  BY DEF CreateRecord, LedgerInv, ReversedNetsToZero, TypeOK
<1>4. BackedInv'
  BY DEF CreateRecord, BackedInv, ReversedStatusBacked, ToldOnlyOfPosted, TypeOK
<1>5. ArgInv'
  BY DEF CreateRecord, ArgInv, TypeOK
<1>6. OneActiveDispute'
  BY DEF CreateRecord, OneActiveDispute, TypeOK
<1>7. QED
  BY <1>1, <1>2, <1>3, <1>4, <1>5, <1>6

\* The lock goes to a request that enters postReversal().
LEMMA LockStep ==
  ASSUME DisputeInv, NEW r \in Requests, Lock(r), UNCHANGED dispute
  PROVE  DisputeInv'
<1> USE ReversalAssumption DEF DisputeInv, ledgerVars
<1>1. TypeOK'
  BY DEF Lock, TypeOK, TxnStatuses, RecordStatuses, Labels, Ops, Active, Closed
<1>2. HolderInv'
  BY DEF Lock, HolderInv, TypeOK
<1>3. LedgerInv'
  BY DEF Lock, LedgerInv, ReversedNetsToZero, TypeOK
<1>4. BackedInv'
  BY DEF Lock, BackedInv, ReversedStatusBacked, ToldOnlyOfPosted, TypeOK
<1>5. ArgInv'
  BY DEF Lock, ArgInv, TypeOK
<1>6. OneActiveDispute'
  BY DEF Lock, OneActiveDispute, TypeOK
<1>7. QED
  BY <1>1, <1>2, <1>3, <1>4, <1>5, <1>6

\* What the lock holder reads stays true until it commits.
LEMMA ReadLedgerStep ==
  ASSUME DisputeInv, NEW r \in Requests, ReadLedger(r), UNCHANGED dispute
  PROVE  DisputeInv'
<1> USE ReversalAssumption DEF DisputeInv, ledgerVars
<1>1. TypeOK'
  <2>1. lock' \in Requests \cup {None} /\ snap' \in [Requests -> [Accounts -> Int]]
    BY DEF ReadLedger, TypeOK
  <2>2. /\ pc' \in [Requests -> Labels]
        /\ goal' \in [Requests -> RecordStatuses \cup Active \cup Closed \cup {None}]
    <3>1. PICK l \in {"rev.mark", "rec.read", "rev.commit"} : pc' = [pc EXCEPT ![r] = l]
      BY DEF ReadLedger
    <3>2. goal' = goal \/ goal' = [goal EXCEPT ![r] = "failed"]
      BY DEF ReadLedger
    <3>3. QED
      BY <3>1, <3>2 DEF TypeOK, Labels, RecordStatuses
  <2>3. UNCHANGED <<txn, booked, hasEntries, undone, reversals, clawbacks, record, told,
                    op, arg, hurt, dispute>>
    BY DEF ReadLedger
  <2>4. QED
    BY <2>1, <2>2, <2>3 DEF TypeOK
<1>2. HolderInv'
  BY DEF ReadLedger, HolderInv, TypeOK
<1>3. LedgerInv'
  BY DEF ReadLedger, LedgerInv, ReversedNetsToZero, TypeOK
<1>4. BackedInv'
  BY DEF ReadLedger, BackedInv, ReversedStatusBacked, ToldOnlyOfPosted, TypeOK
<1>5. ArgInv'
  BY DEF ReadLedger, ArgInv, TypeOK
<1>6. OneActiveDispute'
  BY DEF ReadLedger, OneActiveDispute, TypeOK
<1>7. QED
  BY <1>1, <1>2, <1>3, <1>4, <1>5, <1>6

\* The inverse of what was read brings every account back.
LEMMA CommitReversalStep ==
  ASSUME DisputeInv, NEW r \in Requests, CommitReversal(r), UNCHANGED dispute
  PROVE  DisputeInv'
<1> USE ReversalAssumption DEF DisputeInv, ledgerVars
<1>1. TypeOK'
  <2>1. undone' \in [Accounts -> Int] /\ reversals' \in Nat
    BY DEF CommitReversal, Inverse, TypeOK
  <2>2. lock' \in Requests \cup {None} /\ pc' \in [Requests -> Labels]
    BY DEF CommitReversal, TypeOK, Labels
  <2>3. UNCHANGED <<txn, booked, hasEntries, clawbacks, record, told, op, arg, goal,
                    snap, hurt, dispute>>
    BY DEF CommitReversal
  <2>4. QED
    BY <2>1, <2>2, <2>3 DEF TypeOK
<1>2. HolderInv'
  BY DEF CommitReversal, HolderInv, TypeOK
<1>3. LedgerInv'
  <2>1. pc[r] = "rev.commit" /\ reversals = 0 /\ undone = Nothing
    BY DEF CommitReversal, LedgerInv
  <2>2. reversals' = 1
    BY <2>1 DEF CommitReversal
  <2>3. \A q \in Requests : pc'[q] # "rev.commit"
    BY DEF CommitReversal, HolderInv, TypeOK
  <2>4. ASSUME clawbacks' = 0, NEW a \in Accounts PROVE booked'[a] + undone'[a] = 0
    <3>1. snap[r] = booked /\ booked' = booked /\ booked[a] \in Int
      BY <2>1, <2>4 DEF CommitReversal, LedgerInv, TypeOK
    <3>2. undone'[a] = 0 + (-booked[a])
      BY <2>1, <3>1 DEF CommitReversal, Inverse, Nothing
    <3>3. QED
      BY <3>1, <3>2
  <2>5. QED
    BY <2>2, <2>3, <2>4 DEF LedgerInv, ReversedNetsToZero
<1>4. BackedInv'
  BY DEF CommitReversal, BackedInv, ReversedStatusBacked, ToldOnlyOfPosted, TypeOK
<1>5. ArgInv'
  BY DEF CommitReversal, ArgInv, TypeOK
<1>6. OneActiveDispute'
  BY DEF CommitReversal, OneActiveDispute, TypeOK
<1>7. QED
  BY <1>1, <1>2, <1>3, <1>4, <1>5, <1>6

\* A transaction is marked after its reversal is posted.
LEMMA MarkReversedStep ==
  ASSUME DisputeInv, NEW r \in Requests, MarkReversed(r), UNCHANGED dispute
  PROVE  DisputeInv'
<1> USE ReversalAssumption DEF DisputeInv, ledgerVars, Written
<1>1. TypeOK'
  <2>1. txn' \in TxnStatuses /\ pc' \in [Requests -> Labels]
    BY DEF MarkReversed, TypeOK, TxnStatuses, Labels
  <2>2. goal' \in [Requests -> RecordStatuses \cup Active \cup Closed \cup {None}]
    BY DEF MarkReversed, TypeOK, RecordStatuses
  <2>3. UNCHANGED <<booked, hasEntries, undone, reversals, clawbacks, lock, record, told,
                    op, arg, snap, hurt, dispute>>
    BY DEF MarkReversed
  <2>4. QED
    BY <2>1, <2>2, <2>3 DEF TypeOK
<1>2. HolderInv'
  BY DEF MarkReversed, HolderInv, TypeOK
<1>3. LedgerInv'
  BY DEF MarkReversed, LedgerInv, ReversedNetsToZero, TypeOK
<1>4. BackedInv'
  BY DEF MarkReversed, BackedInv, ReversedStatusBacked, ToldOnlyOfPosted, TypeOK
<1>5. ArgInv'
  BY DEF MarkReversed, ArgInv, TypeOK
<1>6. OneActiveDispute'
  BY DEF MarkReversed, OneActiveDispute, TypeOK
<1>7. QED
  BY <1>1, <1>2, <1>3, <1>4, <1>5, <1>6

\* transition() decides.
LEMMA TransitionReadStep ==
  ASSUME DisputeInv, NEW r \in Requests, TransitionRead(r), UNCHANGED dispute
  PROVE  DisputeInv'
<1> USE ReversalAssumption DEF DisputeInv, ledgerVars, AfterTransition
<1>1. TypeOK'
  BY DEF TransitionRead, TypeOK, TxnStatuses, RecordStatuses, Labels, Ops, Active, Closed
<1>2. HolderInv'
  BY DEF TransitionRead, HolderInv, TypeOK
<1>3. LedgerInv'
  BY DEF TransitionRead, LedgerInv, ReversedNetsToZero, TypeOK
<1>4. BackedInv'
  BY DEF TransitionRead, BackedInv, ReversedStatusBacked, ToldOnlyOfPosted, TypeOK
<1>5. ArgInv'
  BY DEF TransitionRead, ArgInv, TypeOK
<1>6. OneActiveDispute'
  BY DEF TransitionRead, OneActiveDispute, TypeOK
<1>7. QED
  BY <1>1, <1>2, <1>3, <1>4, <1>5, <1>6

\* transition() writes.
LEMMA TransitionWriteStep ==
  ASSUME DisputeInv, NEW r \in Requests, TransitionWrite(r), UNCHANGED dispute
  PROVE  DisputeInv'
<1> USE ReversalAssumption DEF DisputeInv, ledgerVars, AfterTransition, RecordOf
<1>1. TypeOK'
  <2>1. RecordOf(r) \in Requests /\ goal[r] \in RecordStatuses
    BY DEF TransitionWrite, ArgInv, RecordStatuses
  <2>2. record' \in [Requests -> RecordStatuses \cup {None}]
    BY <2>1 DEF TransitionWrite, TypeOK
  <2>3. pc' \in [Requests -> Labels]
    BY DEF TransitionWrite, TypeOK, Labels
  <2>4. UNCHANGED <<txn, booked, hasEntries, undone, reversals, clawbacks, lock, told,
                    op, arg, goal, snap, hurt, dispute>>
    BY DEF TransitionWrite
  <2>5. QED
    BY <2>2, <2>3, <2>4 DEF TypeOK
<1>2. HolderInv'
  BY DEF TransitionWrite, HolderInv, TypeOK
<1>3. LedgerInv'
  BY DEF TransitionWrite, LedgerInv, ReversedNetsToZero, TypeOK
<1>4. BackedInv'
  BY DEF TransitionWrite, BackedInv, ReversedStatusBacked, ToldOnlyOfPosted, TypeOK
<1>5. ArgInv'
  BY DEF TransitionWrite, ArgInv, TypeOK
<1>6. OneActiveDispute'
  BY DEF TransitionWrite, OneActiveDispute, TypeOK
<1>7. QED
  BY <1>1, <1>2, <1>3, <1>4, <1>5, <1>6

\* A retry only starts from a row that was posted.
LEMMA RetryNotificationStep ==
  ASSUME DisputeInv, NEW r \in Requests, NEW q \in Requests, RetryNotification(r, q), UNCHANGED dispute
  PROVE  DisputeInv'
<1> USE ReversalAssumption DEF DisputeInv, ledgerVars
<1>1. TypeOK'
  BY DEF RetryNotification, TypeOK, TxnStatuses, RecordStatuses, Labels, Ops, Active, Closed
<1>2. HolderInv'
  BY DEF RetryNotification, HolderInv, TypeOK
<1>3. LedgerInv'
  BY DEF RetryNotification, LedgerInv, ReversedNetsToZero, TypeOK
<1>4. BackedInv'
  BY DEF RetryNotification, BackedInv, ReversedStatusBacked, ToldOnlyOfPosted, TypeOK
<1>5. ArgInv'
  BY DEF RetryNotification, ArgInv, TypeOK
<1>6. OneActiveDispute'
  BY DEF RetryNotification, OneActiveDispute, TypeOK
<1>7. QED
  BY <1>1, <1>2, <1>3, <1>4, <1>5, <1>6

\* A notice is delivered for a posted reversal.
LEMMA NotifyStep ==
  ASSUME DisputeInv, NEW r \in Requests, Notify(r), UNCHANGED dispute
  PROVE  DisputeInv'
<1> USE ReversalAssumption DEF DisputeInv, ledgerVars, RecordOf
<1>1. TypeOK'
  <2>1. told' \subseteq Requests
    BY DEF Notify, TypeOK, ArgInv
  <2>2. /\ pc' \in [Requests -> Labels]
        /\ goal' \in [Requests -> RecordStatuses \cup Active \cup Closed \cup {None}]
    BY DEF Notify, TypeOK, Labels, RecordStatuses
  <2>3. UNCHANGED <<txn, booked, hasEntries, undone, reversals, clawbacks, lock, record,
                    op, arg, snap, hurt, dispute>>
    BY DEF Notify
  <2>4. QED
    BY <2>1, <2>2, <2>3 DEF TypeOK
<1>2. HolderInv'
  BY DEF Notify, HolderInv, TypeOK
<1>3. LedgerInv'
  BY DEF Notify, LedgerInv, ReversedNetsToZero, TypeOK
<1>4. BackedInv'
  BY DEF Notify, BackedInv, ReversedStatusBacked, ToldOnlyOfPosted, TypeOK
<1>5. ArgInv'
  BY DEF Notify, ArgInv, TypeOK
<1>6. OneActiveDispute'
  BY DEF Notify, OneActiveDispute, TypeOK
<1>7. QED
  BY <1>1, <1>2, <1>3, <1>4, <1>5, <1>6

\* A notice that fails changes nothing.
LEMMA NotifyFailsStep ==
  ASSUME DisputeInv, NEW r \in Requests, NotifyFails(r), UNCHANGED dispute
  PROVE  DisputeInv'
<1> USE ReversalAssumption DEF DisputeInv, ledgerVars
<1>1. TypeOK'
  BY DEF NotifyFails, TypeOK, TxnStatuses, RecordStatuses, Labels, Ops, Active, Closed
<1>2. HolderInv'
  BY DEF NotifyFails, HolderInv, TypeOK
<1>3. LedgerInv'
  BY DEF NotifyFails, LedgerInv, ReversedNetsToZero, TypeOK
<1>4. BackedInv'
  BY DEF NotifyFails, BackedInv, ReversedStatusBacked, ToldOnlyOfPosted, TypeOK
<1>5. ArgInv'
  BY DEF NotifyFails, ArgInv, TypeOK
<1>6. OneActiveDispute'
  BY DEF NotifyFails, OneActiveDispute, TypeOK
<1>7. QED
  BY <1>1, <1>2, <1>3, <1>4, <1>5, <1>6

\* reverse() returns.
LEMMA FinalReadStep ==
  ASSUME DisputeInv, NEW r \in Requests, FinalRead(r), UNCHANGED dispute
  PROVE  DisputeInv'
<1> USE ReversalAssumption DEF DisputeInv, ledgerVars
<1>1. TypeOK'
  BY DEF FinalRead, TypeOK, TxnStatuses, RecordStatuses, Labels, Ops, Active, Closed
<1>2. HolderInv'
  BY DEF FinalRead, HolderInv, TypeOK
<1>3. LedgerInv'
  BY DEF FinalRead, LedgerInv, ReversedNetsToZero, TypeOK
<1>4. BackedInv'
  BY DEF FinalRead, BackedInv, ReversedStatusBacked, ToldOnlyOfPosted, TypeOK
<1>5. ArgInv'
  BY DEF FinalRead, ArgInv, TypeOK
<1>6. OneActiveDispute'
  BY DEF FinalRead, OneActiveDispute, TypeOK
<1>7. QED
  BY <1>1, <1>2, <1>3, <1>4, <1>5, <1>6

\* A clawback that starts.
LEMMA ClawbackStep ==
  ASSUME DisputeInv, NEW r \in Requests, Clawback(r), UNCHANGED dispute
  PROVE  DisputeInv'
<1> USE ReversalAssumption DEF DisputeInv, ledgerVars
<1>1. TypeOK'
  BY DEF Clawback, TypeOK, TxnStatuses, RecordStatuses, Labels, Ops, Active, Closed
<1>2. HolderInv'
  BY DEF Clawback, HolderInv, TypeOK
<1>3. LedgerInv'
  BY DEF Clawback, LedgerInv, ReversedNetsToZero, TypeOK
<1>4. BackedInv'
  BY DEF Clawback, BackedInv, ReversedStatusBacked, ToldOnlyOfPosted, TypeOK
<1>5. ArgInv'
  BY DEF Clawback, ArgInv, TypeOK
<1>6. OneActiveDispute'
  BY DEF Clawback, OneActiveDispute, TypeOK
<1>7. QED
  BY <1>1, <1>2, <1>3, <1>4, <1>5, <1>6

\* A clawback is posted.
LEMMA PostClawbackStep ==
  ASSUME DisputeInv, NEW r \in Requests, PostClawback(r), UNCHANGED dispute
  PROVE  DisputeInv'
<1> USE ReversalAssumption DEF DisputeInv, ledgerVars
<1>1. TypeOK'
  <2>1. booked' \in [Accounts -> Int] /\ clawbacks' \in Nat
    BY DEF PostClawback, TypeOK, Accounts
  <2>2. hasEntries' \in BOOLEAN
    BY Zenon DEF PostClawback
  <2>3. pc' \in [Requests -> Labels]
    BY DEF PostClawback, TypeOK, Labels
  <2>4. UNCHANGED <<txn, undone, reversals, lock, record, told, op, arg, goal, snap,
                    hurt, dispute>>
    BY DEF PostClawback
  <2>5. QED
    BY <2>1, <2>2, <2>3, <2>4 DEF TypeOK
<1>2. HolderInv'
  BY DEF PostClawback, HolderInv, TypeOK
<1>3. LedgerInv'
  BY DEF PostClawback, LedgerInv, ReversedNetsToZero, TypeOK
<1>4. BackedInv'
  BY DEF PostClawback, BackedInv, ReversedStatusBacked, ToldOnlyOfPosted, TypeOK
<1>5. ArgInv'
  BY DEF PostClawback, ArgInv, TypeOK
<1>6. OneActiveDispute'
  BY DEF PostClawback, OneActiveDispute, TypeOK
<1>7. QED
  BY <1>1, <1>2, <1>3, <1>4, <1>5, <1>6

\* A clawback is marked.
LEMMA MarkClawedBackStep ==
  ASSUME DisputeInv, NEW r \in Requests, MarkClawedBack(r), UNCHANGED dispute
  PROVE  DisputeInv'
<1> USE ReversalAssumption DEF DisputeInv, ledgerVars, Written
<1>1. TypeOK'
  BY DEF MarkClawedBack, TypeOK, TxnStatuses, RecordStatuses, Labels, Ops, Active, Closed
<1>2. HolderInv'
  BY DEF MarkClawedBack, HolderInv, TypeOK
<1>3. LedgerInv'
  BY DEF MarkClawedBack, LedgerInv, ReversedNetsToZero, TypeOK
<1>4. BackedInv'
  BY DEF MarkClawedBack, BackedInv, ReversedStatusBacked, ToldOnlyOfPosted, TypeOK
<1>5. ArgInv'
  BY DEF MarkClawedBack, ArgInv, TypeOK
<1>6. OneActiveDispute'
  BY DEF MarkClawedBack, OneActiveDispute, TypeOK
<1>7. QED
  BY <1>1, <1>2, <1>3, <1>4, <1>5, <1>6

\* A failed statement frees the lock and leads to the catch block.
LEMMA ThrowStep ==
  ASSUME DisputeInv, NEW r \in Requests, Throw(r), UNCHANGED dispute
  PROVE  DisputeInv'
<1> USE ReversalAssumption DEF DisputeInv, ledgerVars, InTry, Unlock, Hurt
<1>1. TypeOK'
  BY DEF Throw, TypeOK, TxnStatuses, RecordStatuses, Labels, Ops, Active, Closed
<1>2. HolderInv'
  BY DEF Throw, HolderInv, TypeOK
<1>3. LedgerInv'
  BY DEF Throw, LedgerInv, ReversedNetsToZero, TypeOK
<1>4. BackedInv'
  BY DEF Throw, BackedInv, ReversedStatusBacked, ToldOnlyOfPosted, TypeOK
<1>5. ArgInv'
  BY DEF Throw, ArgInv, TypeOK
<1>6. OneActiveDispute'
  BY DEF Throw, OneActiveDispute, TypeOK
<1>7. QED
  BY <1>1, <1>2, <1>3, <1>4, <1>5, <1>6

\* A request that dies frees the lock.
LEMMA StopStep ==
  ASSUME DisputeInv, NEW r \in Requests, Stop(r), UNCHANGED dispute
  PROVE  DisputeInv'
<1> USE ReversalAssumption DEF DisputeInv, ledgerVars, Unlock, Hurt
<1>1. TypeOK'
  BY DEF Stop, TypeOK, TxnStatuses, RecordStatuses, Labels, Ops, Active, Closed
<1>2. HolderInv'
  BY DEF Stop, HolderInv, TypeOK
<1>3. LedgerInv'
  BY DEF Stop, LedgerInv, ReversedNetsToZero, TypeOK
<1>4. BackedInv'
  BY DEF Stop, BackedInv, ReversedStatusBacked, ToldOnlyOfPosted, TypeOK
<1>5. ArgInv'
  BY DEF Stop, ArgInv, TypeOK
<1>6. OneActiveDispute'
  BY DEF Stop, OneActiveDispute, TypeOK
<1>7. QED
  BY <1>1, <1>2, <1>3, <1>4, <1>5, <1>6

\* openDispute() starts.
LEMMA OpenDisputeStep ==
  ASSUME DisputeInv, NEW r \in Requests, OpenDispute(r)
  PROVE  DisputeInv'
<1> USE ReversalAssumption DEF DisputeInv, ledgerVars
<1>1. TypeOK'
  BY DEF OpenDispute, TypeOK, TxnStatuses, RecordStatuses, Labels, Ops, Active, Closed
<1>2. HolderInv'
  BY DEF OpenDispute, HolderInv, TypeOK
<1>3. LedgerInv'
  BY DEF OpenDispute, LedgerInv, ReversedNetsToZero, TypeOK
<1>4. BackedInv'
  BY DEF OpenDispute, BackedInv, ReversedStatusBacked, ToldOnlyOfPosted, TypeOK
<1>5. ArgInv'
  BY DEF OpenDispute, ArgInv, TypeOK
<1>6. OneActiveDispute'
  BY DEF OpenDispute, OneActiveDispute, TypeOK
<1>7. QED
  BY <1>1, <1>2, <1>3, <1>4, <1>5, <1>6

\* openDispute() looks for an active dispute.
LEMMA FindActiveStep ==
  ASSUME DisputeInv, NEW r \in Requests, FindActive(r)
  PROVE  DisputeInv'
<1> USE ReversalAssumption DEF DisputeInv, ledgerVars, NoneActive
<1>1. TypeOK'
  BY DEF FindActive, TypeOK, TxnStatuses, RecordStatuses, Labels, Ops, Active, Closed
<1>2. HolderInv'
  BY DEF FindActive, HolderInv, TypeOK
<1>3. LedgerInv'
  BY DEF FindActive, LedgerInv, ReversedNetsToZero, TypeOK
<1>4. BackedInv'
  BY DEF FindActive, BackedInv, ReversedStatusBacked, ToldOnlyOfPosted, TypeOK
<1>5. ArgInv'
  BY DEF FindActive, ArgInv, TypeOK
<1>6. OneActiveDispute'
  BY DEF FindActive, OneActiveDispute, TypeOK
<1>7. QED
  BY <1>1, <1>2, <1>3, <1>4, <1>5, <1>6

\* A dispute is inserted when no other is active.
LEMMA InsertDisputeStep ==
  ASSUME DisputeInv, NEW r \in Requests, InsertDispute(r)
  PROVE  DisputeInv'
<1> USE ReversalAssumption DEF DisputeInv, ledgerVars, NoneActive
<1>1. TypeOK'
  BY DEF InsertDispute, TypeOK, TxnStatuses, RecordStatuses, Labels, Ops, Active, Closed
<1>2. HolderInv'
  BY DEF InsertDispute, HolderInv, TypeOK
<1>3. LedgerInv'
  BY DEF InsertDispute, LedgerInv, ReversedNetsToZero, TypeOK
<1>4. BackedInv'
  BY DEF InsertDispute, BackedInv, ReversedStatusBacked, ToldOnlyOfPosted, TypeOK
<1>5. ArgInv'
  BY DEF InsertDispute, ArgInv, TypeOK
<1>6. OneActiveDispute'
  BY DEF InsertDispute, OneActiveDispute, TypeOK
<1>7. QED
  BY <1>1, <1>2, <1>3, <1>4, <1>5, <1>6

\* The transaction is marked disputed.
LEMMA MarkDisputedStep ==
  ASSUME DisputeInv, NEW r \in Requests, MarkDisputed(r)
  PROVE  DisputeInv'
<1> USE ReversalAssumption DEF DisputeInv, ledgerVars, Written
<1>1. TypeOK'
  BY DEF MarkDisputed, TypeOK, TxnStatuses, RecordStatuses, Labels, Ops, Active, Closed
<1>2. HolderInv'
  BY DEF MarkDisputed, HolderInv, TypeOK
<1>3. LedgerInv'
  BY DEF MarkDisputed, LedgerInv, ReversedNetsToZero, TypeOK
<1>4. BackedInv'
  BY DEF MarkDisputed, BackedInv, ReversedStatusBacked, ToldOnlyOfPosted, TypeOK
<1>5. ArgInv'
  BY DEF MarkDisputed, ArgInv, TypeOK
<1>6. OneActiveDispute'
  BY DEF MarkDisputed, OneActiveDispute, TypeOK
<1>7. QED
  BY <1>1, <1>2, <1>3, <1>4, <1>5, <1>6

\* updateStatus() starts.
LEMMA ChangeStatusStep ==
  ASSUME DisputeInv, NEW r \in Requests, NEW d \in Requests, NEW status \in {"investigating"} \cup Closed, ChangeStatus(r, d, status)
  PROVE  DisputeInv'
<1> USE ReversalAssumption DEF DisputeInv, ledgerVars, Transitions
<1>1. TypeOK'
  BY DEF ChangeStatus, TypeOK, TxnStatuses, RecordStatuses, Labels, Ops, Active, Closed
<1>2. HolderInv'
  BY DEF ChangeStatus, HolderInv, TypeOK
<1>3. LedgerInv'
  BY DEF ChangeStatus, LedgerInv, ReversedNetsToZero, TypeOK
<1>4. BackedInv'
  BY DEF ChangeStatus, BackedInv, ReversedStatusBacked, ToldOnlyOfPosted, TypeOK
<1>5. ArgInv'
  BY DEF ChangeStatus, ArgInv, TypeOK, Active
<1>6. OneActiveDispute'
  BY DEF ChangeStatus, OneActiveDispute, TypeOK
<1>7. QED
  BY <1>1, <1>2, <1>3, <1>4, <1>5, <1>6

\* assignToAgent() starts.
LEMMA AssignStep ==
  ASSUME DisputeInv, NEW r \in Requests, NEW d \in Requests, Assign(r, d)
  PROVE  DisputeInv'
<1> USE ReversalAssumption DEF DisputeInv, ledgerVars
<1>1. TypeOK'
  BY DEF Assign, TypeOK, TxnStatuses, RecordStatuses, Labels, Ops, Active, Closed
<1>2. HolderInv'
  BY DEF Assign, HolderInv, TypeOK
<1>3. LedgerInv'
  BY DEF Assign, LedgerInv, ReversedNetsToZero, TypeOK
<1>4. BackedInv'
  BY DEF Assign, BackedInv, ReversedStatusBacked, ToldOnlyOfPosted, TypeOK
<1>5. ArgInv'
  BY DEF Assign, ArgInv, TypeOK
<1>6. OneActiveDispute'
  BY DEF Assign, OneActiveDispute, TypeOK
<1>7. QED
  BY <1>1, <1>2, <1>3, <1>4, <1>5, <1>6

\* An agent is written.
LEMMA ClaimDisputeStep ==
  ASSUME DisputeInv, NEW r \in Requests, ClaimDispute(r)
  PROVE  DisputeInv'
<1> USE ReversalAssumption DEF DisputeInv, ledgerVars
<1>1. TypeOK'
  BY DEF ClaimDispute, TypeOK, TxnStatuses, RecordStatuses, Labels, Ops, Active, Closed
<1>2. HolderInv'
  BY DEF ClaimDispute, HolderInv, TypeOK
<1>3. LedgerInv'
  BY DEF ClaimDispute, LedgerInv, ReversedNetsToZero, TypeOK
<1>4. BackedInv'
  BY DEF ClaimDispute, BackedInv, ReversedStatusBacked, ToldOnlyOfPosted, TypeOK
<1>5. ArgInv'
  BY DEF ClaimDispute, ArgInv, TypeOK
<1>6. OneActiveDispute'
  BY DEF ClaimDispute, OneActiveDispute, TypeOK
<1>7. QED
  BY <1>1, <1>2, <1>3, <1>4, <1>5, <1>6

\* resolvePayment() starts.
LEMMA ResolveStep ==
  ASSUME DisputeInv, NEW r \in Requests, NEW d \in Requests, NEW action \in {"reverse", "uphold"}, Resolve(r, d, action)
  PROVE  DisputeInv'
<1> USE ReversalAssumption DEF DisputeInv, ledgerVars
<1>1. TypeOK'
  BY DEF Resolve, TypeOK, TxnStatuses, RecordStatuses, Labels, Ops, Active, Closed
<1>2. HolderInv'
  BY DEF Resolve, HolderInv, TypeOK
<1>3. LedgerInv'
  BY DEF Resolve, LedgerInv, ReversedNetsToZero, TypeOK
<1>4. BackedInv'
  BY DEF Resolve, BackedInv, ReversedStatusBacked, ToldOnlyOfPosted, TypeOK
<1>5. ArgInv'
  BY DEF Resolve, ArgInv, TypeOK
<1>6. OneActiveDispute'
  BY DEF Resolve, OneActiveDispute, TypeOK
<1>7. QED
  BY <1>1, <1>2, <1>3, <1>4, <1>5, <1>6

\* resolvePayment() calls reverse().
LEMMA ReverseDisputedStep ==
  ASSUME DisputeInv, NEW r \in Requests, ReverseDisputed(r)
  PROVE  DisputeInv'
<1> USE ReversalAssumption DEF DisputeInv, ledgerVars, ReverseFrom
<1>1. TypeOK'
  BY DEF ReverseDisputed, TypeOK, TxnStatuses, RecordStatuses, Labels, Ops, Active, Closed
<1>2. HolderInv'
  BY DEF ReverseDisputed, HolderInv, TypeOK
<1>3. LedgerInv'
  BY DEF ReverseDisputed, LedgerInv, ReversedNetsToZero, TypeOK
<1>4. BackedInv'
  BY DEF ReverseDisputed, BackedInv, ReversedStatusBacked, ToldOnlyOfPosted, TypeOK
<1>5. ArgInv'
  BY DEF ReverseDisputed, ArgInv, TypeOK
<1>6. OneActiveDispute'
  BY DEF ReverseDisputed, OneActiveDispute, TypeOK
<1>7. QED
  BY <1>1, <1>2, <1>3, <1>4, <1>5, <1>6

\* A dispute's status is written under the unique index.
LEMMA WriteDisputeStep ==
  ASSUME DisputeInv, NEW r \in Requests, WriteDispute(r)
  PROVE  DisputeInv'
<1> USE ReversalAssumption DEF DisputeInv, ledgerVars, NewStatus
<1>1. TypeOK'
  <2>1. arg[r] \in Requests /\ NewStatus(r) \in Active \cup Closed
    BY DEF WriteDispute, ArgInv, Active, Closed
  <2>2. dispute' \in [Requests -> Active \cup Closed \cup {None}]
    BY <2>1 DEF WriteDispute, TypeOK
  <2>3. pc' \in [Requests -> Labels]
    <3>1. PICK l \in {"done", "uphold.mark"} : pc' = [pc EXCEPT ![r] = l]
      <4>1. \/ pc' = [pc EXCEPT ![r] = "done"]
            \/ pc' = [pc EXCEPT ![r] = IF op[r] = "uphold" THEN "uphold.mark" ELSE "done"]
        BY Zenon DEF WriteDispute
      <4>2. QED
        BY <4>1
    <3>2. QED
      BY <3>1 DEF TypeOK, Labels
  <2>4. UNCHANGED <<txn, booked, hasEntries, undone, reversals, clawbacks, lock, record,
                    told, op, arg, goal, snap, hurt>>
    BY DEF WriteDispute
  <2>5. QED
    BY <2>2, <2>3, <2>4 DEF TypeOK
<1>2. HolderInv'
  BY DEF WriteDispute, HolderInv, TypeOK
<1>3. LedgerInv'
  BY DEF WriteDispute, LedgerInv, ReversedNetsToZero, TypeOK
<1>4. BackedInv'
  BY DEF WriteDispute, BackedInv, ReversedStatusBacked, ToldOnlyOfPosted, TypeOK
<1>5. ArgInv'
  BY DEF WriteDispute, ArgInv, TypeOK
<1>6. OneActiveDispute'
  <2>1. dispute \in [Requests -> Active \cup Closed \cup {None}]
    BY DEF TypeOK
  <2>2. \/ dispute' = dispute
        \/ /\ dispute' = [dispute EXCEPT ![arg[r]] = NewStatus(r)]
           /\ ~(NewStatus(r) \in Active /\ \E d \in Requests \ {arg[r]} : dispute[d] \in Active)
    BY Zenon DEF WriteDispute
  <2> HIDE DEF NewStatus
  <2>3. QED
    BY <2>1, <2>2 DEF OneActiveDispute
<1>7. QED
  BY <1>1, <1>2, <1>3, <1>4, <1>5, <1>6

\* An upheld transaction is completed.
LEMMA MarkUpheldStep ==
  ASSUME DisputeInv, NEW r \in Requests, MarkUpheld(r)
  PROVE  DisputeInv'
<1> USE ReversalAssumption DEF DisputeInv, ledgerVars, Written
<1>1. TypeOK'
  BY DEF MarkUpheld, TypeOK, TxnStatuses, RecordStatuses, Labels, Ops, Active, Closed
<1>2. HolderInv'
  BY DEF MarkUpheld, HolderInv, TypeOK
<1>3. LedgerInv'
  BY DEF MarkUpheld, LedgerInv, ReversedNetsToZero, TypeOK
<1>4. BackedInv'
  BY DEF MarkUpheld, BackedInv, ReversedStatusBacked, ToldOnlyOfPosted, TypeOK
<1>5. ArgInv'
  BY DEF MarkUpheld, ArgInv, TypeOK
<1>6. OneActiveDispute'
  BY DEF MarkUpheld, OneActiveDispute, TypeOK
<1>7. QED
  BY <1>1, <1>2, <1>3, <1>4, <1>5, <1>6

\* A purged transaction claims nothing.
LEMMA PurgeStep ==
  ASSUME DisputeInv, Purge
  PROVE  DisputeInv'
<1> USE ReversalAssumption DEF DisputeInv, ledgerVars
<1>1. TypeOK'
  BY DEF Purge, TypeOK, TxnStatuses
<1>2. HolderInv'
  BY DEF Purge, HolderInv
<1>3. LedgerInv'
  BY DEF Purge, LedgerInv, ReversedNetsToZero
<1>4. BackedInv'
  BY DEF Purge, BackedInv, ReversedStatusBacked, ToldOnlyOfPosted
<1>5. ArgInv'
  BY DEF Purge, ArgInv
<1>6. OneActiveDispute'
  BY DEF Purge, OneActiveDispute
<1>7. QED
  BY <1>1, <1>2, <1>3, <1>4, <1>5, <1>6

\* Every step preserves the invariant.
LEMMA DisputeInvStep ==
  ASSUME DisputeInv, [Next]_vars
  PROVE  DisputeInv'
<1>1. ASSUME NEW r \in Requests, Call(r) PROVE DisputeInv'
  <2>1. CASE ReversalCall(r) /\ UNCHANGED dispute
    BY <2>1, RefundStep, ClawbackStep, RetryNotificationStep DEF ReversalCall
  <2>2. CASE OpenDispute(r)
    BY <2>2, OpenDisputeStep
  <2>3. ASSUME NEW d \in Requests, NEW status \in {"investigating"} \cup Closed,
               ChangeStatus(r, d, status)
        PROVE  DisputeInv'
    BY <2>3, ChangeStatusStep
  <2>4. ASSUME NEW d \in Requests, Assign(r, d) PROVE DisputeInv'
    BY <2>4, AssignStep
  <2>5. ASSUME NEW d \in Requests, NEW action \in {"reverse", "uphold"},
               Resolve(r, d, action)
        PROVE  DisputeInv'
    BY <2>5, ResolveStep
  <2>6. QED
    BY <1>1, <2>1, <2>2, <2>3, <2>4, <2>5 DEF Call
<1>2. ASSUME NEW r \in Requests, Step(r) PROVE DisputeInv'
  <2>1. CASE ReversalStep(r) /\ UNCHANGED dispute
    BY <2>1, CreateRecordStep, LockStep, ReadLedgerStep, CommitReversalStep,
       MarkReversedStep, TransitionReadStep, TransitionWriteStep, NotifyStep,
       NotifyFailsStep, FinalReadStep, PostClawbackStep, MarkClawedBackStep
    DEF ReversalStep
  <2>2. QED
    BY <1>2, <2>1, FindActiveStep, InsertDisputeStep, MarkDisputedStep, ClaimDisputeStep,
       ReverseDisputedStep, WriteDisputeStep, MarkUpheldStep DEF Step
<1>3. ASSUME NEW r \in Requests, Failure(r) PROVE DisputeInv'
  BY <1>3, ThrowStep, StopStep DEF Failure
<1>4. CASE UNCHANGED vars
  BY <1>4 DEF vars, DisputeInv, TypeOK, HolderInv, LedgerInv, BackedInv, ArgInv,
              OneActiveDispute, ReversedNetsToZero, ReversedStatusBacked, ToldOnlyOfPosted
<1>5. QED
  BY <1>1, <1>2, <1>3, <1>4, PurgeStep DEF Next

\* The invariant holds for ever, whatever fails and whichever requests race.
THEOREM DisputeInvariant == Spec => []DisputeInv
<1>1. Init => DisputeInv
  BY DisputeInvInit
<1>2. DisputeInv /\ [Next]_vars => DisputeInv'
  BY DisputeInvStep
<1>3. QED
  BY <1>1, <1>2, PTL DEF Spec

\* Every table keeps its shape (the CHECK constraints of transactions, disputes
\* and transaction_reversals are never met with another status).
THEOREM DisputeTypes == Spec => []TypeOK
<1>1. DisputeInv => TypeOK
  BY DEF DisputeInv
<1>2. QED
  BY <1>1, DisputeInvariant, PTL

\* REV-<reference> is posted at most once (ledgerService.ts:228-298), for any
\* number of concurrent reversals, retries, crashes and clawbacks.
THEOREM ReversalPostedOnce == Spec => []PostedOnce
<1>1. DisputeInv => PostedOnce
  BY DEF DisputeInv, LedgerInv, PostedOnce
<1>2. QED
  BY <1>1, DisputeInvariant, PTL

\* A posted reversal is the exact inverse of what was booked, for every amount
\* and fee (ledgerService.ts:225).
THEOREM ReversalExact == Spec => []ReversedNetsToZero
<1>1. DisputeInv => ReversedNetsToZero
  BY DEF DisputeInv, LedgerInv
<1>2. QED
  BY <1>1, DisputeInvariant, PTL

\* A reversed transaction and a posted or notified reversal row are backed by
\* the ledger (transactionReversalService.ts:149-171).
THEOREM ReversalBacked == Spec => []ReversedStatusBacked
<1>1. DisputeInv => ReversedStatusBacked
  BY DEF DisputeInv, BackedInv
<1>2. QED
  BY <1>1, DisputeInvariant, PTL

\* No notice of a reversal precedes the reversal
\* (transactionReversalService.ts:417-484).
THEOREM NoticeIsTrue == Spec => []ToldOnlyOfPosted
<1>1. DisputeInv => ToldOnlyOfPosted
  BY DEF DisputeInv, BackedInv
<1>2. QED
  BY <1>1, DisputeInvariant, PTL

\* At most one dispute on the transaction is active (dispute.ts:130).
THEOREM DisputeUnique == Spec => []OneActiveDispute
<1>1. DisputeInv => OneActiveDispute
  BY DEF DisputeInv
<1>2. QED
  BY <1>1, DisputeInvariant, PTL

-----------------------------------------------------------------------------
\* The requests that may still come to reverse the transaction and to mark it,
\* and those that have a reversal row.
Before == {"idle", "rev.begin", "rev.create", "rev.lock", "rev.read", "rev.commit", "rev.mark"}
Rowed == {"rev.lock", "rev.read", "rev.commit", "rev.mark", "rec.read", "rec.write",
          "rev.notify", "rev.final"}

\* A request is at the statements of the endpoint it called.
OpInv ==
  \A r \in Requests :
    /\ pc[r] = "idle" => op[r] = None
    /\ pc[r] \in {"open.active", "open.insert", "open.mark"} => op[r] = "open"
    /\ pc[r] = "uphold.mark" => op[r] = "uphold"
    /\ pc[r] \in {"claw.post", "claw.mark"} => op[r] = "clawback"

\* A request that has not called reverse() has no row, one in it has one, and a
\* notice is retried for a row that exists.
RowInv ==
  \A r \in Requests :
    /\ pc[r] \in {"idle", "rev.begin", "rev.create"} => record[r] = None
    /\ pc[r] \in Rowed /\ op[r] # "notify" => record[r] # None
    /\ op[r] = "notify" => record[arg[r]] # None

\* Only what is booked can be reversed.
EntriesInv ==
  reversals > 0 \/ (\E r \in Requests : pc[r] = "rev.commit") => hasEntries

\* The transaction is marked or gone, or another kind of request writes the
\* status as well, or there is nothing to reverse.
Marked ==
  \/ txn \in {"reversed", "deleted"}
  \/ \E q \in Requests : op[q] \in {"open", "uphold", "clawback"}
  \/ ~hasEntries

\* A request with a row that is past its mark has left the transaction marked.
MarkedInv ==
  StatusWidened => \A r \in Requests :
    pc[r] \notin Before /\ record[r] # None /\ r \notin hurt => Marked

RetryInv == OpInv /\ RowInv /\ EntriesInv /\ MarkedInv

\* A statement of a request that keeps what it has found.
LEMMA Moved ==
  ASSUME DisputeInv, RetryInv, NEW r \in Requests, NEW l \in Labels,
         pc[r] # "idle", l # "idle",
         pc' = [pc EXCEPT ![r] = l], UNCHANGED <<op, arg>>,
         \A q \in Requests : q # r => (record'[q] = None <=> record[q] = None),
         record'[r] = None => record[r] = None,
         l \in {"rev.begin", "rev.create"} => record'[r] = None,
         l \in Rowed /\ op[r] # "notify" => record'[r] # None,
         l \in {"open.active", "open.insert", "open.mark"} => op[r] = "open",
         l = "uphold.mark" => op[r] = "uphold",
         l \in {"claw.post", "claw.mark"} => op[r] = "clawback",
         hurt \subseteq hurt', EntriesInv',
         StatusWidened /\ Marked => Marked',
         StatusWidened /\ l \notin Before /\ record'[r] # None /\ r \notin hurt'
           /\ (pc[r] \in Before \/ record[r] = None) => Marked'
  PROVE  RetryInv'
<1>1. pc \in [Requests -> Labels] /\ arg \in [Requests -> Requests \cup {None}]
  BY DEF DisputeInv, TypeOK
<1>2. pc'[r] = l /\ \A q \in Requests : q # r => pc'[q] = pc[q]
  BY <1>1
<1>3. OpInv'
  BY <1>2 DEF RetryInv, OpInv
<1>4. RowInv'
  <2>1. \A q \in Requests : record[q] # None => record'[q] # None
    OBVIOUS
  <2>2. \A q \in Requests : op[q] = "notify" => arg[q] \in Requests
    BY DEF DisputeInv, ArgInv
  <2>3. QED
    BY <1>2, <2>1, <2>2 DEF RetryInv, RowInv
<1>5. MarkedInv'
  <2>1. SUFFICES ASSUME StatusWidened, NEW q \in Requests,
                        pc'[q] \notin Before, record'[q] # None, q \notin hurt'
                 PROVE  Marked'
    BY DEF MarkedInv
  <2>2. CASE q # r
    BY <1>2, <2>1, <2>2 DEF RetryInv, MarkedInv
  <2>3. CASE q = r
    BY <1>2, <2>1, <2>3 DEF RetryInv, MarkedInv
  <2>4. QED
    BY <2>2, <2>3
<1>6. QED
  BY <1>3, <1>4, <1>5 DEF RetryInv

\* A statement that leaves the status, the ledger and the rows alone.
LEMMA Passed ==
  ASSUME DisputeInv, RetryInv, NEW r \in Requests, NEW l \in Labels,
         pc[r] # "idle", l \notin {"idle", "rev.commit"},
         pc' = [pc EXCEPT ![r] = l],
         UNCHANGED <<op, arg, txn, hasEntries, reversals>>,
         \A q \in Requests : record'[q] = None <=> record[q] = None,
         l \in {"rev.begin", "rev.create"} => record[r] = None,
         l \in Rowed /\ op[r] # "notify" => record[r] # None,
         l \in {"open.active", "open.insert", "open.mark"} => op[r] = "open",
         l = "uphold.mark" => op[r] = "uphold",
         l \in {"claw.post", "claw.mark"} => op[r] = "clawback",
         hurt \subseteq hurt',
         l \notin Before /\ pc[r] \in Before => r \in hurt' \/ record[r] = None
  PROVE  RetryInv'
<1>1. pc \in [Requests -> Labels]
  BY DEF DisputeInv, TypeOK
<1>2. pc'[r] = l /\ \A q \in Requests : q # r => pc'[q] = pc[q]
  BY <1>1
<1>3. EntriesInv'
  BY <1>2 DEF RetryInv, EntriesInv
<1>4. Marked' <=> Marked
  BY DEF Marked
<1>5. QED
  BY <1>3, <1>4, Moved
\* A request that arrives.
LEMMA Arrived ==
  ASSUME DisputeInv, RetryInv, NEW r \in Requests, pc[r] = "idle",
         NEW l \in Labels, NEW o \in Ops,
         pc' = [pc EXCEPT ![r] = l], op' = [op EXCEPT ![r] = o],
         \A q \in Requests : q # r => arg'[q] = arg[q],
         UNCHANGED <<txn, hasEntries, reversals, record, hurt>>,
         l \notin {"idle", "rev.commit", "uphold.mark"},
         l \in Rowed => o = "notify",
         o = "notify" => record[arg'[r]] # None,
         l \in {"open.active", "open.insert", "open.mark"} => o = "open",
         l \in {"claw.post", "claw.mark"} => o = "clawback"
  PROVE  RetryInv'
<1>1. pc \in [Requests -> Labels] /\ op \in [Requests -> Ops \cup {None}]
  BY DEF DisputeInv, TypeOK
<1>2. /\ pc'[r] = l /\ op'[r] = o
      /\ \A q \in Requests : q # r => pc'[q] = pc[q] /\ op'[q] = op[q]
  BY <1>1
<1>3. OpInv'
  BY <1>2 DEF RetryInv, OpInv
<1>4. op[r] = None /\ op[r] \notin Ops /\ record[r] = None
  BY DisputeAssumption DEF RetryInv, OpInv, RowInv
<1>5. RowInv'
  BY <1>2, <1>4 DEF RetryInv, RowInv
<1>6. EntriesInv'
  BY <1>2 DEF RetryInv, EntriesInv
<1>7. MarkedInv'
  <2>1. Marked => Marked'
    <3>1. \A q \in Requests : op[q] \in Ops => op'[q] = op[q]
      BY <1>2, <1>4
    <3>2. QED
      BY <3>1 DEF Marked, Ops
  <2>2. QED
    BY <1>2, <1>4, <2>1 DEF RetryInv, MarkedInv
<1>8. QED
  BY <1>3, <1>5, <1>6, <1>7 DEF RetryInv

\* The requests that arrive, one by one.
LEMMA CallRetry ==
  ASSUME DisputeInv, RetryInv, NEW r \in Requests, Call(r)
  PROVE  RetryInv'
<1> USE DEF ledgerVars
<1>1. CASE Refund(r)
  <2> DEFINE l == IF txn = "reversed" THEN "done"
                  ELSE IF txn \in {"failed", "dispute"} THEN "rev.create" ELSE "done"
  <2>1. /\ pc[r] = "idle" /\ pc' = [pc EXCEPT ![r] = l] /\ op' = [op EXCEPT ![r] = "refund"]
        /\ UNCHANGED <<txn, hasEntries, reversals, record, hurt, arg>>
    BY <1>1 DEF Refund, ReverseFrom
  <2>2. l \in {"done", "rev.create"} /\ "refund" \in Ops
    BY DEF Ops
  <2> HIDE DEF l
  <2>3. QED
    BY <2>1, <2>2, Arrived DEF Labels, Rowed
<1>2. CASE Clawback(r)
  BY <1>2, Arrived DEF Clawback, Labels, Ops, Rowed
<1>3. ASSUME NEW q \in Requests, RetryNotification(r, q) PROVE RetryInv'
  <2>1. /\ pc[r] = "idle" /\ record[q] # None
        /\ pc' = [pc EXCEPT ![r] = "rev.notify"] /\ op' = [op EXCEPT ![r] = "notify"]
        /\ UNCHANGED <<txn, hasEntries, reversals, record, hurt>>
    BY <1>3, ReversalAssumption DEF RetryNotification, RecordStatuses
  <2>2. arg'[r] = q /\ \A p \in Requests : p # r => arg'[p] = arg[p]
    BY <1>3 DEF RetryNotification, DisputeInv, TypeOK
  <2>3. "rev.notify" \in Labels /\ "notify" \in Ops
    BY DEF Labels, Ops
  <2>4. QED
    BY <2>1, <2>2, <2>3, Arrived
<1>4. CASE OpenDispute(r)
  BY <1>4, Arrived DEF OpenDispute, Labels, Ops, Rowed
<1>5. ASSUME NEW d \in Requests, NEW status \in {"investigating"} \cup Closed,
             ChangeStatus(r, d, status)
      PROVE  RetryInv'
  <2>1. /\ pc[r] = "idle"
        /\ pc' = [pc EXCEPT ![r] = "dispute.write"] /\ op' = [op EXCEPT ![r] = "status"]
        /\ UNCHANGED <<txn, hasEntries, reversals, record, hurt>>
    BY <1>5 DEF ChangeStatus
  <2>2. \A p \in Requests : p # r => arg'[p] = arg[p]
    BY <1>5 DEF ChangeStatus, DisputeInv, TypeOK
  <2>3. QED
    BY <2>1, <2>2, Arrived DEF Labels, Ops, Rowed
<1>6. ASSUME NEW d \in Requests, Assign(r, d) PROVE RetryInv'
  <2>1. /\ pc[r] = "idle"
        /\ pc' = [pc EXCEPT ![r] = "assign.claim"] /\ op' = [op EXCEPT ![r] = "assign"]
        /\ UNCHANGED <<txn, hasEntries, reversals, record, hurt>>
    BY <1>6 DEF Assign
  <2>2. \A p \in Requests : p # r => arg'[p] = arg[p]
    BY <1>6 DEF Assign, DisputeInv, TypeOK
  <2>3. QED
    BY <2>1, <2>2, Arrived DEF Labels, Ops, Rowed
<1>7. ASSUME NEW d \in Requests, NEW action \in {"reverse", "uphold"}, Resolve(r, d, action)
      PROVE  RetryInv'
  <2> DEFINE l == IF action = "reverse" THEN "rev.begin" ELSE "dispute.write"
  <2>1. /\ pc[r] = "idle"
        /\ pc' = [pc EXCEPT ![r] = l] /\ op' = [op EXCEPT ![r] = action]
        /\ UNCHANGED <<txn, hasEntries, reversals, record, hurt>>
    BY <1>7 DEF Resolve
  <2>2. \A p \in Requests : p # r => arg'[p] = arg[p]
    BY <1>7 DEF Resolve, DisputeInv, TypeOK
  <2>3. l \in {"rev.begin", "dispute.write"} /\ action \in Ops /\ action # "notify"
    BY DEF Ops
  <2> HIDE DEF l
  <2>4. QED
    BY <2>1, <2>2, <2>3, Arrived DEF Labels, Rowed
<1>8. QED
  BY <1>1, <1>2, <1>3, <1>4, <1>5, <1>6, <1>7 DEF Call, ReversalCall

\* Failures: the request counts as hurt from then on.
LEMMA FailureRetry ==
  ASSUME DisputeInv, RetryInv, NEW r \in Requests, Failure(r)
  PROVE  RetryInv'
<1> USE DEF ledgerVars
<1>1. CASE Throw(r)
  <2>1. /\ pc[r] # "idle" /\ pc[r] \in Rowed
        /\ pc' = [pc EXCEPT ![r] = "rec.read"]
        /\ UNCHANGED <<op, arg, txn, hasEntries, reversals, record>>
        /\ hurt' = hurt \cup {r}
    BY <1>1 DEF Throw, InTry, Rowed, Hurt
  <2>2. op[r] # "notify" => record[r] # None
    BY <2>1 DEF RetryInv, RowInv
  <2>3. QED
    BY <2>1, <2>2, Passed DEF Labels
<1>2. CASE Stop(r)
  <2>1. /\ pc[r] # "idle" /\ pc' = [pc EXCEPT ![r] = "done"]
        /\ UNCHANGED <<op, arg, txn, hasEntries, reversals, record>>
        /\ hurt' = hurt \cup {r}
    BY <1>2 DEF Stop, Hurt
  <2>2. QED
    BY <2>1, Passed DEF Labels, Rowed
<1>3. QED
  BY <1>1, <1>2 DEF Failure
\* The statements that leave the status and the ledger alone.
LEMMA PassiveRetry ==
  ASSUME DisputeInv, RetryInv, NEW r \in Requests,
         \/ Lock(r) \/ TransitionRead(r) \/ TransitionWrite(r) \/ Notify(r)
         \/ NotifyFails(r) \/ FinalRead(r) \/ FindActive(r) \/ InsertDispute(r)
         \/ ClaimDispute(r) \/ ReverseDisputed(r) \/ WriteDispute(r)
  PROVE  RetryInv'
<1> USE DEF ledgerVars
<1>1. CASE Lock(r)
  <2>1. /\ pc[r] = "rev.lock" /\ pc' = [pc EXCEPT ![r] = "rev.read"]
        /\ UNCHANGED <<op, arg, txn, hasEntries, reversals, record, hurt>>
    BY <1>1 DEF Lock
  <2>2. op[r] # "notify" => record[r] # None
    BY <2>1 DEF RetryInv, RowInv, Rowed
  <2>3. QED
    BY <2>1, <2>2, Passed DEF Labels, Rowed, Before
<1>2. ASSUME NEW l \in {"rec.write", "rev.notify", "rev.final", "done"},
             pc[r] \in {"rec.read", "rec.write", "rev.notify"},
             pc' = [pc EXCEPT ![r] = l],
             UNCHANGED <<op, arg, txn, hasEntries, reversals, hurt>>,
             \A q \in Requests : record'[q] = None <=> record[q] = None
      PROVE  RetryInv'
  <2>1. op[r] # "notify" => record[r] # None
    BY <1>2 DEF RetryInv, RowInv, Rowed
  <2>2. l \in Labels /\ l \notin {"idle", "rev.commit"} /\ pc[r] # "idle" /\ pc[r] \notin Before
    BY <1>2 DEF Labels, Before
  <2>3. QED
    BY <1>2, <2>1, <2>2, Passed
<1>3. AfterTransition(r) \in {"rev.notify", "rev.final", "done"}
  BY DEF AfterTransition
<1>4. CASE TransitionRead(r)
  <2>1. PICK l \in {"rec.write", "rev.notify", "rev.final", "done"} : pc' = [pc EXCEPT ![r] = l]
    BY <1>3, <1>4 DEF TransitionRead
  <2>2. pc[r] = "rec.read" /\ UNCHANGED <<op, arg, txn, hasEntries, reversals, hurt, record>>
    BY <1>4 DEF TransitionRead
  <2>3. QED
    BY <1>2, <2>1, <2>2
<1>5. CASE TransitionWrite(r)
  <2>1. /\ pc[r] = "rec.write" /\ pc' = [pc EXCEPT ![r] = AfterTransition(r)]
        /\ record' = [record EXCEPT ![RecordOf(r)] = goal[r]]
        /\ UNCHANGED <<op, arg, txn, hasEntries, reversals, hurt>>
    BY <1>5 DEF TransitionWrite
  <2>2. record[RecordOf(r)] # None /\ goal[r] # None
    <3>1. goal[r] # None
      BY <2>1, ReversalAssumption DEF DisputeInv, ArgInv, RecordStatuses
    <3>2. record[RecordOf(r)] # None
      BY <2>1 DEF RetryInv, RowInv, Rowed, RecordOf
    <3>3. QED
      BY <3>1, <3>2
  <2>3. record \in [Requests -> RecordStatuses \cup {None}]
    BY DEF DisputeInv, TypeOK
  <2>4. \A q \in Requests : record'[q] = None <=> record[q] = None
    BY <2>1, <2>2, <2>3
  <2>5. QED
    BY <1>2, <1>3, <2>1, <2>4
<1>6. CASE Notify(r)
  <2>1. /\ pc[r] = "rev.notify"
        /\ \/ pc' = [pc EXCEPT ![r] = "done"]
           \/ pc' = [pc EXCEPT ![r] = "rec.read"]
        /\ UNCHANGED <<op, arg, txn, hasEntries, reversals, hurt, record>>
    BY <1>6 DEF Notify
  <2>2. op[r] # "notify" => record[r] # None
    BY <2>1 DEF RetryInv, RowInv, Rowed
  <2>3. CASE pc' = [pc EXCEPT ![r] = "done"]
    BY <1>2, <2>1, <2>3
  <2>4. CASE pc' = [pc EXCEPT ![r] = "rec.read"]
    BY <2>1, <2>2, <2>4, Passed DEF Labels, Before
  <2>5. QED
    BY <2>1, <2>3, <2>4
<1>7. CASE NotifyFails(r)
  <2>1. PICK l \in {"rec.write", "rev.notify", "rev.final", "done"} : pc' = [pc EXCEPT ![r] = l]
    BY <1>7 DEF NotifyFails
  <2>2. pc[r] = "rev.notify" /\ UNCHANGED <<op, arg, txn, hasEntries, reversals, hurt, record>>
    BY <1>7 DEF NotifyFails
  <2>3. QED
    BY <1>2, <2>1, <2>2
<1>8. ASSUME NEW l \in {"dispute.write", "open.insert", "open.mark", "uphold.mark", "done"},
             pc[r] \in {"rev.final", "open.active", "open.insert", "assign.claim", "dispute.write"},
             l \in {"open.insert", "open.mark"} => pc[r] \in {"open.active", "open.insert"},
             l = "uphold.mark" => op[r] = "uphold",
             pc' = [pc EXCEPT ![r] = l],
             UNCHANGED <<op, arg, txn, hasEntries, reversals, hurt, record>>
      PROVE  RetryInv'
  <2>1. l \in Labels /\ l \notin Rowed /\ l \notin {"idle", "rev.begin", "rev.create", "rev.commit"}
    BY DEF Labels, Rowed
  <2>2. pc[r] # "idle" /\ pc[r] \notin Before
    BY <1>8 DEF Before
  <2>3. l \in {"open.insert", "open.mark"} => op[r] = "open"
    BY <1>8 DEF RetryInv, OpInv
  <2>4. QED
    BY <1>8, <2>1, <2>2, <2>3, Passed
<1>9. CASE FinalRead(r)
  <2>1. PICK l \in {"dispute.write", "done"} : pc' = [pc EXCEPT ![r] = l]
    BY <1>9 DEF FinalRead
  <2>2. pc[r] = "rev.final" /\ UNCHANGED <<op, arg, txn, hasEntries, reversals, hurt, record>>
    BY <1>9 DEF FinalRead
  <2>3. QED
    BY <1>8, <2>1, <2>2
<1>10. CASE FindActive(r)
  BY <1>8, <1>10 DEF FindActive
<1>11. CASE InsertDispute(r)
  BY <1>8, <1>11 DEF InsertDispute
<1>12. CASE ClaimDispute(r)
  <2>1. PICK l \in {"dispute.write", "done"} : pc' = [pc EXCEPT ![r] = l]
    BY <1>12 DEF ClaimDispute
  <2>2. pc[r] = "assign.claim" /\ UNCHANGED <<op, arg, txn, hasEntries, reversals, hurt, record>>
    BY <1>12 DEF ClaimDispute
  <2>3. QED
    BY <1>8, <2>1, <2>2
<1>13. CASE WriteDispute(r)
  <2>1. pc[r] = "dispute.write" /\ UNCHANGED <<op, arg, txn, hasEntries, reversals, hurt, record>>
    BY <1>13 DEF WriteDispute
  <2>2. \/ pc' = [pc EXCEPT ![r] = "done"]
        \/ pc' = [pc EXCEPT ![r] = IF op[r] = "uphold" THEN "uphold.mark" ELSE "done"]
    BY <1>13, Zenon DEF WriteDispute
  <2>3. QED
    BY <1>8, <2>1, <2>2
<1>14. CASE ReverseDisputed(r)
  <2>1. PICK l \in {"rev.create", "dispute.write", "done"} : pc' = [pc EXCEPT ![r] = l]
    BY <1>14 DEF ReverseDisputed, ReverseFrom
  <2>2. /\ pc[r] = "rev.begin"
        /\ UNCHANGED <<op, arg, txn, hasEntries, reversals, hurt, record>>
    BY <1>14 DEF ReverseDisputed
  <2>3. record[r] = None
    BY <2>2 DEF RetryInv, RowInv
  <2>4. QED
    BY <2>1, <2>2, <2>3, Passed DEF Labels, Rowed
<1>15. QED
  BY <1>1, <1>4, <1>5, <1>6, <1>7, <1>9, <1>10, <1>11, <1>12, <1>13, <1>14

\* The statements of reverse() and of the clawback that write the row, the
\* ledger or the status.
LEMMA ActiveRetry ==
  ASSUME DisputeInv, RetryInv, NEW r \in Requests,
         \/ CreateRecord(r) \/ ReadLedger(r) \/ CommitReversal(r)
         \/ MarkReversed(r) \/ PostClawback(r)
  PROVE  RetryInv'
<1> USE DEF ledgerVars
<1>1. CASE CreateRecord(r)
  <2>1. /\ pc[r] = "rev.create" /\ pc' = [pc EXCEPT ![r] = "rev.lock"]
        /\ UNCHANGED <<op, arg, txn, hasEntries, reversals, hurt>>
    BY <1>1 DEF CreateRecord
  <2>2. record'[r] = "requested" /\ \A q \in Requests : q # r => record'[q] = record[q]
    BY <1>1 DEF CreateRecord, DisputeInv, TypeOK
  <2>3. "requested" # None
    BY ReversalAssumption DEF RecordStatuses
  <2>4. EntriesInv'
    BY <2>1 DEF RetryInv, EntriesInv, DisputeInv, TypeOK
  <2>5. Marked => Marked'
    BY <2>1 DEF Marked
  <2>6. QED
    BY <2>1, <2>2, <2>3, <2>4, <2>5, Moved DEF Labels, Before
<1>2. CASE ReadLedger(r)
  <2>1. pc[r] = "rev.read" /\ UNCHANGED <<op, arg, txn, hasEntries, reversals, hurt, record>>
    BY <1>2 DEF ReadLedger
  <2>2. op[r] # "notify" => record[r] # None
    BY <2>1 DEF RetryInv, RowInv, Rowed
  <2>3. CASE pc' = [pc EXCEPT ![r] = "rev.mark"]
    BY <2>1, <2>2, <2>3, Passed DEF Labels, Before
  <2>4. CASE pc' = [pc EXCEPT ![r] = "rec.read"] /\ ~hasEntries
    <3>1. EntriesInv'
      BY <2>1, <2>4 DEF RetryInv, EntriesInv, DisputeInv, TypeOK
    <3>2. Marked'
      BY <2>1, <2>4 DEF Marked
    <3>3. QED
      BY <2>1, <2>2, <2>4, <3>1, <3>2, Moved DEF Labels
  <2>5. CASE pc' = [pc EXCEPT ![r] = "rev.commit"] /\ hasEntries
    <3>1. EntriesInv'
      BY <2>1, <2>5 DEF EntriesInv
    <3>2. Marked => Marked'
      BY <2>1 DEF Marked
    <3>3. QED
      BY <2>1, <2>2, <2>5, <3>1, <3>2, Moved DEF Labels, Before
  <2>6. QED
    BY <1>2, <2>3, <2>4, <2>5 DEF ReadLedger
<1>3. CASE CommitReversal(r)
  <2>1. /\ pc[r] = "rev.commit" /\ pc' = [pc EXCEPT ![r] = "rev.mark"]
        /\ UNCHANGED <<op, arg, txn, hasEntries, hurt, record>>
    BY <1>3 DEF CommitReversal
  <2>2. op[r] # "notify" => record[r] # None
    BY <2>1 DEF RetryInv, RowInv, Rowed
  <2>3. EntriesInv'
    BY <2>1 DEF RetryInv, EntriesInv
  <2>4. Marked => Marked'
    BY <2>1 DEF Marked
  <2>5. QED
    BY <2>1, <2>2, <2>3, <2>4, Moved DEF Labels, Before
<1>4. CASE MarkReversed(r)
  <2>1. /\ pc[r] = "rev.mark" /\ pc' = [pc EXCEPT ![r] = "rec.read"]
        /\ UNCHANGED <<op, arg, hasEntries, reversals, hurt, record>>
    BY <1>4 DEF MarkReversed
  <2>2. op[r] # "notify" => record[r] # None
    BY <2>1 DEF RetryInv, RowInv, Rowed
  <2>3. EntriesInv'
    BY <2>1 DEF RetryInv, EntriesInv, DisputeInv, TypeOK
  <2>4. StatusWidened => Marked'
    BY <1>4 DEF MarkReversed, Written, Marked
  <2>5. QED
    BY <2>1, <2>2, <2>3, <2>4, Moved DEF Labels
<1>5. CASE PostClawback(r)
  <2>1. /\ pc[r] = "claw.post" /\ pc' = [pc EXCEPT ![r] = "claw.mark"]
        /\ hasEntries'
        /\ UNCHANGED <<op, arg, hurt, record>>
    BY <1>5 DEF PostClawback
  <2>2. op[r] = "clawback"
    BY <2>1 DEF RetryInv, OpInv
  <2>3. EntriesInv'
    BY <2>1 DEF EntriesInv
  <2>4. Marked'
    BY <2>1, <2>2 DEF Marked
  <2>5. QED
    BY <2>1, <2>2, <2>3, <2>4, Moved DEF Labels, Rowed
<1>6. QED
  BY <1>1, <1>2, <1>3, <1>4, <1>5

\* The other requests that write the transaction's status.
LEMMA StatusRetry ==
  ASSUME DisputeInv, RetryInv, NEW r \in Requests,
         MarkClawedBack(r) \/ MarkDisputed(r) \/ MarkUpheld(r)
  PROVE  RetryInv'
<1> USE DEF ledgerVars
<1>1. /\ pc[r] \in {"claw.mark", "open.mark", "uphold.mark"}
      /\ pc' = [pc EXCEPT ![r] = "done"]
      /\ UNCHANGED <<op, arg, hasEntries, reversals, hurt, record>>
  BY DEF MarkClawedBack, MarkDisputed, MarkUpheld
<1>2. op[r] \in {"open", "uphold", "clawback"}
  BY <1>1 DEF RetryInv, OpInv
<1>3. EntriesInv'
  BY <1>1 DEF RetryInv, EntriesInv, DisputeInv, TypeOK
<1>4. Marked'
  BY <1>1, <1>2 DEF Marked
<1>5. QED
  BY <1>1, <1>3, <1>4, Moved DEF Labels, Rowed

\* A purge hides a status, never a mark.
LEMMA PurgeRetry ==
  ASSUME DisputeInv, RetryInv, Purge
  PROVE  RetryInv'
<1>1. UNCHANGED <<hasEntries, reversals, record, pc, op, arg, hurt>> /\ txn' = "deleted"
  BY DEF Purge, ledgerVars
<1>2. OpInv' /\ RowInv' /\ EntriesInv'
  BY <1>1 DEF RetryInv, OpInv, RowInv, EntriesInv
<1>3. MarkedInv'
  BY <1>1 DEF MarkedInv, Marked
<1>4. QED
  BY <1>2, <1>3 DEF RetryInv

\* Every step preserves the invariant.
LEMMA RetryStep == DisputeInv /\ RetryInv /\ [Next]_vars => RetryInv'
<1>1. SUFFICES ASSUME DisputeInv, RetryInv, [Next]_vars PROVE RetryInv'
  OBVIOUS
<1>2. ASSUME NEW r \in Requests, Step(r) PROVE RetryInv'
  BY <1>1, <1>2, PassiveRetry, ActiveRetry, StatusRetry DEF Step, ReversalStep
<1>3. CASE UNCHANGED vars
  BY <1>1, <1>3 DEF vars, RetryInv, OpInv, RowInv, EntriesInv, MarkedInv, Marked
<1>4. QED
  BY <1>1, <1>2, <1>3, CallRetry, FailureRetry, PurgeRetry DEF Next

\* A reversal retried without a failure of its own leaves the transaction marked
\* reversed, however many reversals failed before it or race with it
\* (transactionReversalService.ts:141-201, transaction.ts:434-516).
THEOREM RetriedReversalMarks == Spec => []RetryMarksReversed
<1>1. Init => RetryInv
  <2>1. SUFFICES ASSUME Init PROVE RetryInv
    OBVIOUS
  <2>2. /\ \A r \in Requests : pc[r] = "idle" /\ op[r] = None /\ record[r] = None
        /\ reversals = 0
    BY <2>1 DEF Init, ReversalInit
  <2>3. None # "notify"
    BY DisputeAssumption DEF Ops
  <2>4. QED
    BY <2>2, <2>3 DEF RetryInv, OpInv, RowInv, Rowed, EntriesInv, MarkedInv, Before
<1>2. DisputeInv /\ RetryInv => RetryMarksReversed
  <2>1. SUFFICES ASSUME RetryInv, StatusWidened, reversals > 0, NEW r \in Requests,
                        pc[r] = "done", record[r] # None, r \notin hurt
                 PROVE  \/ txn \in {"reversed", "deleted"}
                        \/ \E q \in Requests : op[q] \in {"open", "uphold", "clawback"}
    BY DEF RetryMarksReversed
  <2>2. hasEntries /\ Marked
    BY <2>1 DEF RetryInv, EntriesInv, MarkedInv, Before
  <2>3. QED
    BY <2>2 DEF Marked
<1>3. QED
  BY <1>1, <1>2, RetryStep, DisputeInvariant, PTL DEF Spec
=============================================================================
