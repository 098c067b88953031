------------------------------- MODULE Escrow -------------------------------
(***************************************************************************)
(* The Soroban escrow contract (src/contracts/escrow/src/lib.rs): one      *)
(* instance, the token it holds, and the ledger whose sequence number and  *)
(* close time its guards read.  An invocation that fails is rolled back by *)
(* the host, so only successful ones are steps.  initialize() does not     *)
(* refuse the contract's own address as beneficiary or fee recipient; that *)
(* misuse, a payout that stays in the contract, is left out.               *)
(***************************************************************************)
EXTENDS Integers, FiniteSets

CONSTANTS
  Accounts,     \* addresses that hold tokens and sign invocations
  Contract,     \* env.current_contract_address()
  Balances,     \* the token balances before the escrow exists
  Amounts,      \* amounts tried by initialize
  FeeRates,     \* fee_bps tried by initialize
  Unlocks,      \* emergency_unlock_timestamps tried by initialize
  Locks,        \* lock_until_ledgers tried by initialize; 0 disables the lock
  MaxI128,      \* the largest i128
  MaxSequence,  \* bound: the last ledger that closes
  MaxStep,      \* bound: the longest time between two ledger closes
  None          \* the instance storage before initialize

ASSUME EscrowAssumption ==
  /\ IsFiniteSet(Accounts)
  /\ Contract \notin Accounts
  /\ Balances \in [Accounts -> Nat]
  /\ Amounts \subseteq Int
  /\ FeeRates \subseteq Nat
  /\ Unlocks \subseteq Nat
  /\ Locks \subseteq Nat
  /\ MaxI128 \in Nat
  /\ MaxSequence \in Nat
  /\ MaxStep \in Nat \ {0}

VARIABLES
  escrow,    \* the EscrowState in instance storage, or None
  balance,   \* token balances
  sequence,  \* env.ledger().sequence()
  time,      \* env.ledger().timestamp()
  receipts   \* history: what each account has been paid out of the contract

vars == <<escrow, balance, sequence, time, receipts>>

BpsScale == 10000

EscrowState ==
  [depositor: Accounts, beneficiary: Accounts, arbiter: Accounts,
   amount: Nat, emergency_unlock_timestamp: Nat, lock_until_ledger: Nat,
   fee_bps: Nat, fee_recipient: Accounts, released: BOOLEAN]

ASSUME StorageAssumption == None \notin EscrowState

Init ==
  /\ escrow = None
  /\ balance = [a \in Accounts \cup {Contract} |->
                  IF a = Contract THEN 0 ELSE Balances[a]]
  /\ sequence = 0
  /\ time = 0
  /\ receipts = [a \in Accounts |-> 0]

-----------------------------------------------------------------------------
\* split(): the product is computed first, in i128, and then divided.
FeeProduct(e) == e.amount * e.fee_bps

\* Faulty variant: the fee is rounded up.
FeeRoundedUp(e) == (FeeProduct(e) + BpsScale - 1) \div BpsScale

Fee(e) == FeeProduct(e) \div BpsScale
Net(e) == e.amount - Fee(e)

\* token::Client::transfer.
Transfer(b, from, to, amount) ==
  [b EXCEPT ![from] = @ - amount, ![to] = @ + amount]

\* The history of payments, one more of them.
Credit(paid, to, amount) == [paid EXCEPT ![to] = @ + amount]

\* The arbiter's window: "only while the lock is still active".
LockExpired == escrow.lock_until_ledger > 0 /\ sequence > escrow.lock_until_ledger

Holding == escrow # None /\ ~escrow.released

\* initialize().
Initialize(depositor, beneficiary, arbiter, amount, unlock, lock, bps, feeRecipient) ==
  /\ amount > 0
  /\ escrow = None
  /\ unlock > time
  /\ bps <= BpsScale
  /\ depositor # beneficiary
  /\ arbiter # depositor /\ arbiter # beneficiary
  /\ balance[depositor] >= amount
  /\ balance' = Transfer(balance, depositor, Contract, amount)
  /\ escrow' = [depositor |-> depositor, beneficiary |-> beneficiary,
                arbiter |-> arbiter, amount |-> amount,
                emergency_unlock_timestamp |-> unlock,
                lock_until_ledger |-> lock, fee_bps |-> bps,
                fee_recipient |-> feeRecipient, released |-> FALSE]
  /\ UNCHANGED <<sequence, time, receipts>>

\* Faulty variant: the fee transfer is left out and stays in the contract.
ReleaseNetOnly(caller) ==
  /\ Holding
  /\ caller = escrow.arbiter
  /\ ~LockExpired
  /\ FeeProduct(escrow) <= MaxI128
  /\ balance[Contract] >= escrow.amount
  /\ balance' = Transfer(balance, Contract, escrow.beneficiary, Net(escrow))
  /\ receipts' = Credit(receipts, escrow.beneficiary, Net(escrow))
  /\ escrow' = [escrow EXCEPT !.released = TRUE]
  /\ UNCHANGED <<sequence, time>>

\* Faulty variant: release() without the lock check.
ReleaseAnyTime(caller) ==
  /\ Holding
  /\ caller = escrow.arbiter
  /\ FeeProduct(escrow) <= MaxI128
  /\ balance[Contract] >= escrow.amount
  /\ LET afterFee == IF Fee(escrow) > 0
                     THEN Transfer(balance, Contract, escrow.fee_recipient, Fee(escrow))
                     ELSE balance
     IN balance' = Transfer(afterFee, Contract, escrow.beneficiary, Net(escrow))
  /\ receipts' = Credit(Credit(receipts, escrow.fee_recipient, Fee(escrow)),
                        escrow.beneficiary, Net(escrow))
  /\ escrow' = [escrow EXCEPT !.released = TRUE]
  /\ UNCHANGED <<sequence, time>>

\* release() signed by caller: the fee, when there is one, and the rest.  The
\* build checks overflow, so a product beyond i128 aborts the invocation.
Release(caller) ==
  /\ Holding
  /\ caller = escrow.arbiter
  /\ ~LockExpired
  /\ FeeProduct(escrow) <= MaxI128
  /\ balance[Contract] >= escrow.amount
  /\ LET afterFee == IF Fee(escrow) > 0
                     THEN Transfer(balance, Contract, escrow.fee_recipient, Fee(escrow))
                     ELSE balance
     IN balance' = Transfer(afterFee, Contract, escrow.beneficiary, Net(escrow))
  /\ receipts' = Credit(Credit(receipts, escrow.fee_recipient, Fee(escrow)),
                        escrow.beneficiary, Net(escrow))
  /\ escrow' = [escrow EXCEPT !.released = TRUE]
  /\ UNCHANGED <<sequence, time>>

\* Faulty variant: a refund that forgets to set `released`.
ReturnDepositUnmarked ==
  /\ balance[Contract] >= escrow.amount
  /\ balance' = Transfer(balance, Contract, escrow.depositor, escrow.amount)
  /\ receipts' = Credit(receipts, escrow.depositor, escrow.amount)
  /\ UNCHANGED <<escrow, sequence, time>>

\* What the three refunds share: the whole amount goes back.
ReturnDeposit ==
  /\ balance[Contract] >= escrow.amount
  /\ balance' = Transfer(balance, Contract, escrow.depositor, escrow.amount)
  /\ receipts' = Credit(receipts, escrow.depositor, escrow.amount)
  /\ escrow' = [escrow EXCEPT !.released = TRUE]
  /\ UNCHANGED <<sequence, time>>

\* refund() signed by caller.
Refund(caller) ==
  /\ Holding
  /\ caller = escrow.arbiter
  /\ ~LockExpired
  /\ ReturnDeposit

\* Faulty variant: the emergency exit closes when the lock is disabled.
EmergencyRefundIfLocked(caller) ==
  /\ Holding
  /\ caller = escrow.depositor
  /\ escrow.lock_until_ledger > 0
  /\ time >= escrow.emergency_unlock_timestamp
  /\ ReturnDeposit

\* emergency_refund() signed by caller.
EmergencyRefund(caller) ==
  /\ Holding
  /\ caller = escrow.depositor
  /\ time >= escrow.emergency_unlock_timestamp
  /\ ReturnDeposit

\* self_refund() signed by caller.
SelfRefund(caller) ==
  /\ Holding
  /\ caller = escrow.depositor
  /\ LockExpired
  /\ ReturnDeposit

\* A ledger closes, later than the one before.
CloseLedger ==
  /\ sequence < MaxSequence
  /\ sequence' = sequence + 1
  /\ \E step \in 1..MaxStep : time' = time + step
  /\ UNCHANGED <<escrow, balance, receipts>>

Next ==
  \/ \E d, b, a, f \in Accounts, x \in Amounts, u \in Unlocks, l \in Locks, r \in FeeRates :
       Initialize(d, b, a, x, u, l, r, f)
  \/ \E c \in Accounts :
       Release(c) \/ Refund(c) \/ EmergencyRefund(c) \/ SelfRefund(c)
  \/ CloseLedger

\* Ledgers keep closing, and a depositor who may take the deposit back does.
Fairness ==
  /\ WF_vars(CloseLedger)
  /\ WF_vars(\E c \in Accounts : EmergencyRefund(c))

Spec == Init /\ [][Next]_vars /\ Fairness

-----------------------------------------------------------------------------
\* A stored escrow passed the assertions of initialize().
WellFormed(e) ==
  e \in EscrowState /\ e.fee_bps <= BpsScale /\ e.depositor # e.beneficiary

\* Storage, balances and ledger keep the types lib.rs gives them; in
\* particular no balance goes negative and no fee rate exceeds 100%.
TypeOK ==
  /\ escrow = None \/ WellFormed(escrow)
  /\ balance \in [Accounts \cup {Contract} -> Nat]
  /\ sequence \in Nat
  /\ time \in Nat
  /\ receipts \in [Accounts -> Nat]

\* The flag and the money agree: the contract's account holds exactly the
\* deposit while `released` is false and nothing before or after, so no
\* operation can ever pay twice, short, or from an empty account.
Solvent ==
  balance[Contract] = IF Holding THEN escrow.amount ELSE 0

\* What left the contract is the whole deposit once released, nothing before:
\* all of it went back to the depositor, or it was divided between fee
\* recipient and beneficiary, and nobody else got anything.
PaidInFull ==
  escrow # None =>
    IF ~escrow.released THEN receipts = [a \in Accounts |-> 0]
    ELSE \E payee \in {escrow.depositor, escrow.beneficiary}, fee \in 0..escrow.amount :
           /\ payee = escrow.depositor => fee = 0
           /\ receipts = [a \in Accounts |->
                            (IF a = payee THEN escrow.amount - fee ELSE 0)
                            + (IF a = escrow.fee_recipient THEN fee ELSE 0)]

\* Rounding is in the beneficiary's favour: a beneficiary who is paid gets at
\* least the exact share 1 - fee_bps/10000 of the deposit, and a depositor who
\* is paid as depositor gets all of it.
BeneficiaryShare ==
  escrow # None /\ escrow.released =>
    \/ receipts[escrow.beneficiary] * BpsScale
         >= escrow.amount * (BpsScale - escrow.fee_bps)
    \/ receipts[escrow.depositor] = escrow.amount

\* "Arbiter cannot release after the lock has expired" (lib.rs:163): once a
\* lock has run out nothing more reaches the beneficiary, by any operation.
LockProtectsDepositor ==
  [][escrow # None /\ LockExpired =>
       receipts'[escrow.beneficiary] = receipts[escrow.beneficiary]]_vars

\* The escrow is a vault: one deposit, then one payout of all of it.
Stage ==
  IF escrow = None THEN "empty" ELSE IF escrow.released THEN "paid" ELSE "holding"
VaultView == INSTANCE Vault WITH stage <- Stage, held <- balance[Contract]
IsVault == VaultView!Spec

\* "Allows source wallets to recover funds during an extended bridge outage":
\* whatever the arbiter does or fails to do, a deposit does not stay locked.
DepositNotStranded == Holding ~> ~Holding
=============================================================================
