---------------------------- MODULE EscrowProofs ----------------------------
(***************************************************************************)
(* Proofs about Escrow for every set of accounts, every amount, fee rate,  *)
(* lock and unlock time, and every history of the ledger.                  *)
(***************************************************************************)
EXTENDS Escrow, TLAPS

\* The inductive invariant: `released` and the contract's account agree only
\* because the types hold, and the types (no negative balance) only because
\* the two agree.
EscrowInv == TypeOK /\ Solvent

\* split(): the fee never exceeds the amount, nothing is lost between fee and
\* net, and the fee is rounded down.
LEMMA SplitBounds ==
  ASSUME NEW e \in EscrowState, e.fee_bps <= BpsScale
  PROVE  /\ Fee(e) \in 0..e.amount
         /\ Net(e) \in Nat
         /\ Fee(e) + Net(e) = e.amount
         /\ Net(e) * BpsScale >= e.amount * (BpsScale - e.fee_bps)
<1> DEFINE x == e.amount * e.fee_bps
<1>1. e.amount \in Nat /\ e.fee_bps \in Nat
  BY DEF EscrowState
<1>2. x \in Nat /\ x <= e.amount * 10000
  <2>1. e.amount * (10000 - e.fee_bps) >= 0
    BY <1>1 DEF BpsScale
  <2>2. QED
    BY <1>1, <2>1
<1>3. (x \div 10000) \in Nat /\ 10000 * (x \div 10000) <= x
  BY <1>2
<1> DEFINE q == x \div 10000
<1> HIDE DEF x, q
<1>4. q <= e.amount
  BY <1>1, <1>2, <1>3 DEF q
<1>5. e.amount * (10000 - e.fee_bps) = e.amount * 10000 - x
  BY <1>1 DEF x
<1>6. QED
  BY <1>1, <1>2, <1>3, <1>4, <1>5 DEF Fee, Net, FeeProduct, BpsScale
-----------------------------------------------------------------------------
\* Paying one account out of the contract.
LEMMA TransferFacts ==
  ASSUME NEW b \in [Accounts \cup {Contract} -> Nat], NEW a \in Accounts,
         NEW x \in Nat, b[Contract] >= x
  PROVE  /\ Transfer(b, Contract, a, x) \in [Accounts \cup {Contract} -> Nat]
         /\ Transfer(b, Contract, a, x)[Contract] = b[Contract] - x
  BY EscrowAssumption DEF Transfer

\* Setting `released` keeps everything else about the stored escrow.
LEMMA MarkReleased ==
  ASSUME NEW e, WellFormed(e)
  PROVE  /\ WellFormed([e EXCEPT !.released = TRUE])
         /\ [e EXCEPT !.released = TRUE].released
  BY DEF WellFormed, EscrowState

\* What the invariant says of an escrow that holds its deposit.
LEMMA HoldingFacts ==
  ASSUME EscrowInv, Holding
  PROVE  /\ WellFormed(escrow)
         /\ balance \in [Accounts \cup {Contract} -> Nat]
         /\ receipts \in [Accounts -> Nat] /\ sequence \in Nat /\ time \in Nat
         /\ balance[Contract] = escrow.amount
         /\ escrow.amount \in Nat /\ escrow.depositor \in Accounts
         /\ escrow.beneficiary \in Accounts /\ escrow.fee_recipient \in Accounts
  BY DEF EscrowInv, TypeOK, Solvent, Holding, WellFormed, EscrowState

\* An escrow marked as released, with nothing left in it, satisfies the
\* invariant.
LEMMA PaidOut ==
  ASSUME WellFormed(escrow'), escrow'.released,
         balance' \in [Accounts \cup {Contract} -> Nat], balance'[Contract] = 0,
         receipts' \in [Accounts -> Nat], sequence' \in Nat, time' \in Nat
  PROVE  EscrowInv' /\ escrow' # None
<1>1. escrow' # None
  BY StorageAssumption DEF WellFormed
<1>2. TypeOK'
  BY DEF TypeOK
<1>3. Solvent'
  BY DEF Solvent, Holding
<1>4. QED
  BY <1>1, <1>2, <1>3 DEF EscrowInv

\* The three refunds return exactly the deposit.
LEMMA ReturnDepositStep ==
  ASSUME EscrowInv, Holding, ReturnDeposit
  PROVE  EscrowInv' /\ escrow'.released /\ balance'[Contract] = 0
         /\ escrow' # None
<1>1. WellFormed(escrow') /\ escrow'.released
  BY HoldingFacts, MarkReleased DEF ReturnDeposit
<1>2. balance' \in [Accounts \cup {Contract} -> Nat] /\ balance'[Contract] = 0
  <2>1. escrow.amount \in Nat /\ balance[Contract] = escrow.amount
    BY HoldingFacts
  <2>2. balance[Contract] >= escrow.amount
    BY <2>1
  <2>3. /\ balance' \in [Accounts \cup {Contract} -> Nat]
        /\ balance'[Contract] = balance[Contract] - escrow.amount
    BY <2>2, HoldingFacts, TransferFacts, Zenon DEF ReturnDeposit
  <2>4. QED
    BY <2>1, <2>3
<1>3. receipts' \in [Accounts -> Nat]
  BY HoldingFacts DEF ReturnDeposit, Credit
<1>4. sequence' \in Nat /\ time' \in Nat
  BY HoldingFacts DEF ReturnDeposit
<1>5. QED
  BY <1>1, <1>2, <1>3, <1>4, PaidOut

\* release() pays fee and net out of the deposit and leaves nothing.
LEMMA ReleaseStep ==
  ASSUME EscrowInv, NEW c \in Accounts, Release(c)
  PROVE  EscrowInv' /\ escrow'.released /\ balance'[Contract] = 0
         /\ escrow' # None
<1>0. Holding
  BY DEF Release
<1>1. WellFormed(escrow') /\ escrow'.released
  BY <1>0, HoldingFacts, MarkReleased DEF Release
<1>2. Fee(escrow) \in Nat /\ Net(escrow) \in Nat /\ Fee(escrow) + Net(escrow) = escrow.amount
  BY <1>0, HoldingFacts, SplitBounds DEF WellFormed
<1>3. balance' \in [Accounts \cup {Contract} -> Nat] /\ balance'[Contract] = 0
  <2> DEFINE Paid == Transfer(balance, Contract, escrow.fee_recipient, Fee(escrow))
             Rest == IF Fee(escrow) > 0 THEN Paid ELSE balance
  <2>1. balance[Contract] = escrow.amount /\ escrow.amount \in Nat
    BY <1>0, HoldingFacts
  <2>2. balance[Contract] >= Fee(escrow)
    BY <1>2, <2>1
  <2>3. /\ Paid \in [Accounts \cup {Contract} -> Nat]
        /\ Paid[Contract] = balance[Contract] - Fee(escrow)
    BY <1>0, <1>2, <2>2, HoldingFacts, TransferFacts, Zenon
  <2>4. balance' = Transfer(Rest, Contract, escrow.beneficiary, Net(escrow))
    BY Zenon DEF Release
  <2> HIDE DEF Paid
  <2>5. Rest \in [Accounts \cup {Contract} -> Nat] /\ Rest[Contract] = Net(escrow)
    <3>1. balance \in [Accounts \cup {Contract} -> Nat]
      BY <1>0, HoldingFacts
    <3>2. QED
      BY <1>2, <2>1, <2>3, <3>1
  <2> HIDE DEF Rest
  <2>6. Rest[Contract] >= Net(escrow)
    BY <1>2, <2>5
  <2>7. /\ balance' \in [Accounts \cup {Contract} -> Nat]
        /\ balance'[Contract] = Rest[Contract] - Net(escrow)
    BY <1>0, <1>2, <2>4, <2>5, <2>6, HoldingFacts, TransferFacts, Zenon
  <2>8. QED
    BY <1>2, <2>5, <2>7
<1>4. receipts' \in [Accounts -> Nat]
  BY <1>0, <1>2, HoldingFacts DEF Release, Credit
<1>5. sequence' \in Nat /\ time' \in Nat
  BY <1>0, HoldingFacts DEF Release
<1>6. QED
  BY <1>1, <1>3, <1>4, <1>5, PaidOut

\* initialize() puts exactly the recorded amount into the contract.
LEMMA InitializeStep ==
  ASSUME EscrowInv,
         NEW d \in Accounts, NEW b \in Accounts, NEW a \in Accounts, NEW f \in Accounts,
         NEW x \in Amounts, NEW u \in Unlocks, NEW l \in Locks, NEW r \in FeeRates,
         Initialize(d, b, a, x, u, l, r, f)
  PROVE  EscrowInv' /\ escrow = None /\ escrow' # None /\ ~escrow'.released
         /\ balance'[Contract] \in Nat \ {0}
<1>1. /\ x \in Nat \ {0} /\ u \in Nat /\ l \in Nat /\ r \in Nat /\ r <= BpsScale
      /\ escrow = None /\ balance[Contract] = 0 /\ balance[d] >= x
      /\ balance \in [Accounts \cup {Contract} -> Nat]
      /\ receipts \in [Accounts -> Nat] /\ sequence \in Nat /\ time \in Nat
  BY EscrowAssumption DEF EscrowInv, TypeOK, Solvent, Holding, Initialize
<1>2. WellFormed(escrow') /\ ~escrow'.released /\ escrow'.amount = x
  BY <1>1 DEF Initialize, WellFormed, EscrowState
<1>3. balance' \in [Accounts \cup {Contract} -> Nat] /\ balance'[Contract] = x
  BY <1>1, EscrowAssumption DEF Initialize, Transfer
<1>4. escrow' # None
  BY <1>2, StorageAssumption DEF WellFormed
<1>5. QED
  BY <1>1, <1>2, <1>3, <1>4 DEF EscrowInv, TypeOK, Solvent, Holding, Initialize

\* The initial state: nothing stored, nothing held.
LEMMA EscrowInvInit == Init => EscrowInv
  BY EscrowAssumption DEF Init, EscrowInv, TypeOK, Solvent, Holding

\* Every step preserves the invariant.
LEMMA EscrowInvStep == EscrowInv /\ [Next]_vars => EscrowInv'
<1> SUFFICES ASSUME EscrowInv, [Next]_vars PROVE EscrowInv'
  OBVIOUS
<1>1. ASSUME NEW d \in Accounts, NEW b \in Accounts, NEW a \in Accounts, NEW f \in Accounts,
             NEW x \in Amounts, NEW u \in Unlocks, NEW l \in Locks, NEW r \in FeeRates,
             Initialize(d, b, a, x, u, l, r, f)
      PROVE  EscrowInv'
  BY <1>1, InitializeStep
<1>2. ASSUME NEW c \in Accounts, Release(c) PROVE EscrowInv'
  BY <1>2, ReleaseStep
<1>3. ASSUME NEW c \in Accounts, Refund(c) \/ EmergencyRefund(c) \/ SelfRefund(c)
      PROVE  EscrowInv'
  BY <1>3, ReturnDepositStep DEF Refund, EmergencyRefund, SelfRefund
<1>4. CASE CloseLedger
  BY <1>4, EscrowAssumption DEF CloseLedger, EscrowInv, TypeOK, Solvent, Holding
<1>5. CASE UNCHANGED vars
  BY <1>5 DEF vars, EscrowInv, TypeOK, Solvent, Holding
<1>6. QED
  BY <1>1, <1>2, <1>3, <1>4, <1>5 DEF Next

\* Types hold and the contract always holds exactly the undisbursed deposit,
\* for every escrow lib.rs can initialise.
THEOREM EscrowInvariant == Spec => []EscrowInv
  BY EscrowInvInit, EscrowInvStep, PTL DEF Spec

\* The flag `released` and the money in the contract's account agree for ever.
THEOREM EscrowSolvent == Spec => []Solvent
  BY EscrowInvariant, PTL DEF EscrowInv

\* After the lock has run out nothing reaches the beneficiary (lib.rs:163-168):
\* release() is the only operation that credits one, and its guard is closed.
THEOREM LockProtects == Spec => LockProtectsDepositor
<1>1. EscrowInv /\ [Next]_vars =>
        [escrow # None /\ LockExpired =>
           receipts'[escrow.beneficiary] = receipts[escrow.beneficiary]]_vars
  <2> SUFFICES ASSUME EscrowInv, Next, escrow # None, LockExpired
               PROVE  receipts'[escrow.beneficiary] = receipts[escrow.beneficiary]
    BY DEF vars
  <2>1. CASE CloseLedger
    BY <2>1 DEF CloseLedger
  <2>2. ASSUME NEW c \in Accounts, Release(c) PROVE FALSE
    BY <2>2 DEF Release
  <2>3. ASSUME NEW c \in Accounts, Refund(c) \/ EmergencyRefund(c) \/ SelfRefund(c)
        PROVE  receipts'[escrow.beneficiary] = receipts[escrow.beneficiary]
    <3>1. Holding /\ ReturnDeposit
      BY <2>3 DEF Refund, EmergencyRefund, SelfRefund
    <3>2. escrow.depositor # escrow.beneficiary
      BY <3>1, HoldingFacts DEF WellFormed
    <3>3. QED
      BY <3>1, <3>2, HoldingFacts DEF ReturnDeposit, Credit
  <2>4. ASSUME NEW d \in Accounts, NEW b \in Accounts, NEW a \in Accounts, NEW f \in Accounts,
               NEW x \in Amounts, NEW u \in Unlocks, NEW l \in Locks, NEW r \in FeeRates,
               Initialize(d, b, a, x, u, l, r, f)
        PROVE  FALSE
    BY <2>4 DEF Initialize
  <2>5. QED
    BY <2>1, <2>2, <2>3, <2>4 DEF Next
<1>2. QED
  BY EscrowInvariant, <1>1, PTL DEF Spec, LockProtectsDepositor

\* The escrow implements the vault: initialize() is its deposit, release() and
\* the three refunds are its payout, everything else leaves it alone.
THEOREM EscrowImplementsVault == Spec => IsVault
<1>1. Init => VaultView!Init
  BY EscrowAssumption DEF Init, VaultView!Init, Stage
<1>2. EscrowInv /\ [Next]_vars => [VaultView!Next]_VaultView!vaultVars
  <2> SUFFICES ASSUME EscrowInv, [Next]_vars PROVE [VaultView!Next]_VaultView!vaultVars
    OBVIOUS
  <2>1. ASSUME NEW d \in Accounts, NEW b \in Accounts, NEW a \in Accounts, NEW f \in Accounts,
               NEW x \in Amounts, NEW u \in Unlocks, NEW l \in Locks, NEW r \in FeeRates,
               Initialize(d, b, a, x, u, l, r, f)
        PROVE  VaultView!Deposit
    BY <2>1, InitializeStep DEF VaultView!Deposit, Stage
  <2>2. ASSUME NEW c \in Accounts, Release(c) PROVE VaultView!PayOut
    <3>1. Holding
      BY <2>2 DEF Release
    <3>2. QED
      BY <2>2, <3>1, ReleaseStep DEF VaultView!PayOut, Stage, Holding
  <2>3. ASSUME NEW c \in Accounts, Refund(c) \/ EmergencyRefund(c) \/ SelfRefund(c)
        PROVE  VaultView!PayOut
    <3>1. Holding /\ ReturnDeposit
      BY <2>3 DEF Refund, EmergencyRefund, SelfRefund
    <3>2. QED
      BY <3>1, ReturnDepositStep DEF VaultView!PayOut, Stage, Holding
  <2>4. CASE CloseLedger \/ UNCHANGED vars
    BY <2>4 DEF CloseLedger, vars, VaultView!vaultVars, Stage
  <2>5. QED
    BY <2>1, <2>2, <2>3, <2>4 DEF Next, VaultView!Next
<1>3. QED
  BY EscrowInvariant, <1>1, <1>2, PTL DEF Spec, IsVault, VaultView!Spec

\* The contract's storage and every account keep their types, and no account
\* falls below zero.
THEOREM EscrowTypes == Spec => []TypeOK
  BY EscrowInvariant, PTL DEF EscrowInv

\* Nobody has received anything before the deposit is released, and then the
\* beneficiary's share or the whole deposit went out.
ShareInv ==
  /\ ~(escrow # None /\ escrow.released) => \A a \in Accounts : receipts[a] = 0
  /\ BeneficiaryShare

\* release() pays the beneficiary the amount less the fee rounded down.
LEMMA ReleaseShare ==
  ASSUME EscrowInv, ShareInv, NEW c \in Accounts, Release(c)
  PROVE  ShareInv'
<1>1. /\ escrow \in EscrowState /\ escrow.fee_bps <= BpsScale /\ ~escrow.released
      /\ receipts \in [Accounts -> Nat]
  BY DEF EscrowInv, TypeOK, WellFormed, Release, Holding
<1>2. /\ Fee(escrow) \in Nat /\ Net(escrow) \in Nat
      /\ Net(escrow) * BpsScale >= escrow.amount * (BpsScale - escrow.fee_bps)
  BY <1>1, SplitBounds DEF EscrowState
<1>3. escrow' = [escrow EXCEPT !.released = TRUE]
  BY DEF Release
<1>4. /\ escrow'.released /\ escrow'.beneficiary = escrow.beneficiary
      /\ escrow'.amount = escrow.amount /\ escrow'.fee_bps = escrow.fee_bps
      /\ escrow.beneficiary \in Accounts /\ escrow.fee_recipient \in Accounts
      /\ escrow.amount \in Nat /\ escrow.fee_bps \in Nat
      /\ escrow' \in EscrowState
  BY <1>1, <1>3 DEF EscrowState
<1>5. receipts'[escrow.beneficiary] >= Net(escrow) /\ receipts'[escrow.beneficiary] \in Nat
  BY <1>1, <1>2, <1>4 DEF Release, Credit
<1>6. receipts'[escrow.beneficiary] * BpsScale >= Net(escrow) * BpsScale
  BY <1>2, <1>5 DEF BpsScale
<1>7. receipts'[escrow.beneficiary] * BpsScale >= escrow.amount * (BpsScale - escrow.fee_bps)
  <2>1. /\ receipts'[escrow.beneficiary] * BpsScale \in Int /\ Net(escrow) * BpsScale \in Int
        /\ escrow.amount * (BpsScale - escrow.fee_bps) \in Int
    BY <1>2, <1>4, <1>5 DEF BpsScale
  <2>2. QED
    BY <1>2, <1>6, <2>1
<1>8. QED
  BY <1>4, <1>7, StorageAssumption DEF ShareInv, BeneficiaryShare

\* The three refunds pay the depositor the whole amount.
LEMMA RefundShare ==
  ASSUME EscrowInv, ShareInv, Holding, ReturnDeposit
  PROVE  ShareInv'
<1>1. escrow \in EscrowState /\ ~escrow.released /\ receipts \in [Accounts -> Nat]
  BY DEF EscrowInv, TypeOK, WellFormed, Holding
<1>2. escrow' = [escrow EXCEPT !.released = TRUE]
  BY DEF ReturnDeposit
<1>3. /\ escrow'.released /\ escrow'.depositor = escrow.depositor
      /\ escrow'.amount = escrow.amount /\ escrow.depositor \in Accounts
      /\ escrow.amount \in Nat
  BY <1>1, <1>2 DEF EscrowState
<1>4. receipts[escrow.depositor] = 0
  BY <1>1, <1>3 DEF ShareInv
<1>5. receipts'[escrow.depositor] = escrow.amount
  BY <1>1, <1>3, <1>4 DEF ReturnDeposit, Credit
<1>6. escrow' \in EscrowState
  BY <1>1, <1>2 DEF EscrowState
<1>7. QED
  BY <1>3, <1>5, <1>6, StorageAssumption DEF ShareInv, BeneficiaryShare

\* The fee is never rounded against the beneficiary (lib.rs:68-72): whoever is
\* paid gets the exact share or the whole deposit, for every amount and rate.
THEOREM EscrowShare == Spec => []BeneficiaryShare
<1>1. Init => ShareInv
  BY DEF Init, ShareInv, BeneficiaryShare
<1>2. EscrowInv /\ ShareInv /\ [Next]_vars => ShareInv'
  <2> SUFFICES ASSUME EscrowInv, ShareInv, [Next]_vars PROVE ShareInv'
    OBVIOUS
  <2>1. ASSUME NEW d \in Accounts, NEW b \in Accounts, NEW a \in Accounts, NEW f \in Accounts,
               NEW x \in Amounts, NEW u \in Unlocks, NEW l \in Locks, NEW r \in FeeRates,
               Initialize(d, b, a, x, u, l, r, f)
        PROVE  ShareInv'
    <3>1. escrow = None /\ ~escrow'.released /\ receipts' = receipts
      BY <2>1, InitializeStep DEF Initialize
    <3>2. QED
      BY <3>1 DEF ShareInv, BeneficiaryShare
  <2>2. ASSUME NEW c \in Accounts, Release(c) PROVE ShareInv'
    BY <2>2, ReleaseShare
  <2>3. ASSUME NEW c \in Accounts, Refund(c) \/ EmergencyRefund(c) \/ SelfRefund(c)
        PROVE  ShareInv'
    BY <2>3, RefundShare DEF Refund, EmergencyRefund, SelfRefund
  <2>4. CASE CloseLedger \/ UNCHANGED vars
    BY <2>4 DEF CloseLedger, vars, ShareInv, BeneficiaryShare
  <2>5. QED
    BY <2>1, <2>2, <2>3, <2>4 DEF Next
<1>3. ShareInv => BeneficiaryShare
  BY DEF ShareInv
<1>4. QED
  BY <1>1, <1>2, <1>3, EscrowInvariant, PTL DEF Spec

-----------------------------------------------------------------------------
\* Nobody has received anything before the deposit is released, and then it
\* went to the depositor, or to fee recipient and beneficiary.
PaidInv ==
  /\ ~(escrow # None /\ escrow.released) => receipts = [a \in Accounts |-> 0]
  /\ PaidInFull

\* release() divides the deposit between fee recipient and beneficiary, also
\* when they are the same account.
LEMMA ReleasePays ==
  ASSUME EscrowInv, PaidInv, NEW c \in Accounts, Release(c)
  PROVE  PaidInv'
<1>1. /\ escrow \in EscrowState /\ escrow.fee_bps <= BpsScale /\ ~escrow.released
      /\ escrow' = [escrow EXCEPT !.released = TRUE]
      /\ receipts = [a \in Accounts |-> 0]
  BY DEF EscrowInv, TypeOK, WellFormed, Release, Holding, PaidInv
<1>2. /\ escrow'.released /\ escrow'.amount = escrow.amount
      /\ escrow'.depositor = escrow.depositor /\ escrow'.beneficiary = escrow.beneficiary
      /\ escrow'.fee_recipient = escrow.fee_recipient
      /\ escrow.beneficiary \in Accounts /\ escrow.fee_recipient \in Accounts
      /\ escrow.amount \in Nat /\ escrow.depositor # escrow.beneficiary
  BY <1>1 DEF EscrowState, EscrowInv, TypeOK, WellFormed, Release, Holding
<1> DEFINE fee == Fee(escrow)
           net == Net(escrow)
<1>3. fee \in 0..escrow.amount /\ net = escrow.amount - fee
  BY <1>1, SplitBounds DEF EscrowState, Net
<1> DEFINE mid == Credit(receipts, escrow.fee_recipient, fee)
<1>4. receipts' = Credit(mid, escrow.beneficiary, net)
  BY DEF Release
<1> HIDE DEF fee, net
<1>5. receipts' = [a \in Accounts |->
                     (IF a = escrow.beneficiary THEN escrow.amount - fee ELSE 0)
                     + (IF a = escrow.fee_recipient THEN fee ELSE 0)]
  <2>1. mid = [a \in Accounts |-> IF a = escrow.fee_recipient THEN fee ELSE 0]
    BY <1>1, <1>2, <1>3 DEF Credit
  <2> HIDE DEF mid
  <2>2. mid \in [Accounts -> Nat]
    BY <1>2, <1>3, <2>1
  <2>3. /\ receipts' \in [Accounts -> Nat]
        /\ \A a \in Accounts :
             receipts'[a] = IF a = escrow.beneficiary THEN mid[a] + net ELSE mid[a]
    BY <1>2, <1>3, <1>4, <2>2 DEF Credit
  <2>4. \A a \in Accounts :
          receipts'[a] = (IF a = escrow.beneficiary THEN escrow.amount - fee ELSE 0)
                         + (IF a = escrow.fee_recipient THEN fee ELSE 0)
    BY <1>2, <1>3, <2>1, <2>3
  <2>5. QED
    BY <2>3, <2>4
<1>6. escrow' # None
  BY <1>1, StorageAssumption DEF EscrowState
<1>7. PaidInFull'
  BY <1>2, <1>3, <1>5 DEF PaidInFull
<1>8. QED
  BY <1>2, <1>6, <1>7 DEF PaidInv

\* The three refunds give the depositor all of it.
LEMMA RefundPays ==
  ASSUME EscrowInv, PaidInv, Holding, ReturnDeposit
  PROVE  PaidInv'
<1>1. /\ escrow \in EscrowState /\ ~escrow.released
      /\ escrow' = [escrow EXCEPT !.released = TRUE]
      /\ receipts = [a \in Accounts |-> 0]
  BY DEF EscrowInv, TypeOK, WellFormed, ReturnDeposit, Holding, PaidInv
<1>2. /\ escrow'.released /\ escrow'.amount = escrow.amount
      /\ escrow'.depositor = escrow.depositor
      /\ escrow'.fee_recipient = escrow.fee_recipient
      /\ escrow.depositor \in Accounts /\ escrow.amount \in Nat
  BY <1>1 DEF EscrowState
<1>3. receipts' = Credit(receipts, escrow.depositor, escrow.amount)
  BY DEF ReturnDeposit
<1>4. receipts' = [a \in Accounts |->
                     (IF a = escrow.depositor THEN escrow.amount - 0 ELSE 0)
                     + (IF a = escrow.fee_recipient THEN 0 ELSE 0)]
  BY <1>1, <1>2, <1>3 DEF Credit
<1>5. 0 \in 0..escrow.amount
  BY <1>2
<1>6. escrow' # None
  BY <1>1, StorageAssumption DEF EscrowState
<1>7. PaidInFull'
  BY <1>2, <1>4, <1>5 DEF PaidInFull
<1>8. QED
  BY <1>2, <1>6, <1>7 DEF PaidInv

\* Whatever order the four operations are invoked in and whoever signs them,
\* the deposit leaves the contract once, whole, and only to those lib.rs pays.
THEOREM EscrowPaidInFull == Spec => []PaidInFull
<1>1. Init => PaidInv
  BY DEF Init, PaidInv, PaidInFull
<1>2. EscrowInv /\ PaidInv /\ [Next]_vars => PaidInv'
  <2> SUFFICES ASSUME EscrowInv, PaidInv, [Next]_vars PROVE PaidInv'
    OBVIOUS
  <2>1. ASSUME NEW d \in Accounts, NEW b \in Accounts, NEW a \in Accounts, NEW f \in Accounts,
               NEW x \in Amounts, NEW u \in Unlocks, NEW l \in Locks, NEW r \in FeeRates,
               Initialize(d, b, a, x, u, l, r, f)
        PROVE  PaidInv'
    <3>1. escrow = None /\ ~escrow'.released /\ receipts' = receipts
      BY <2>1, InitializeStep DEF Initialize
    <3>2. QED
      BY <3>1 DEF PaidInv, PaidInFull
  <2>2. ASSUME NEW c \in Accounts, Release(c) PROVE PaidInv'
    BY <2>2, ReleasePays
  <2>3. ASSUME NEW c \in Accounts, Refund(c) \/ EmergencyRefund(c) \/ SelfRefund(c)
        PROVE  PaidInv'
    BY <2>3, RefundPays DEF Refund, EmergencyRefund, SelfRefund
  <2>4. CASE CloseLedger \/ UNCHANGED vars
    BY <2>4 DEF CloseLedger, vars, PaidInv, PaidInFull
  <2>5. QED
    BY <2>1, <2>2, <2>3, <2>4 DEF Next
<1>3. PaidInv => PaidInFull
  BY DEF PaidInv
<1>4. QED
  BY <1>1, <1>2, <1>3, EscrowInvariant, PTL DEF Spec
=============================================================================
