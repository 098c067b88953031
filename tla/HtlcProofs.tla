----------------------------- MODULE HtlcProofs -----------------------------
(***************************************************************************)
(* Proofs about Htlc for every set of accounts, every amount, timelock and *)
(* vector of approved signers.                                             *)
(***************************************************************************)
EXTENDS Htlc, TLAPS

\* The inductive invariant: a balance stays natural only because the contract
\* holds what it is about to pay, and that only because the flags are right.
HtlcInv == TypeOK /\ Solvent

\* What the invariant says of a contract that holds its deposit.
LEMMA HoldingFacts ==
  ASSUME HtlcInv, Holding
  PROVE  /\ WellFormed(htlc)
         /\ balance \in [Accounts \cup {Contract} -> Nat] /\ time \in Nat
         /\ balance[Contract] = htlc.amount
         /\ htlc.amount \in Nat /\ htlc.sender \in Accounts /\ htlc.receiver \in Accounts
  BY DEF HtlcInv, TypeOK, Solvent, Holding, WellFormed, HtlcState

\* Setting one of the flags of an open contract settles it.
LEMMA MarkSettled ==
  ASSUME NEW h, WellFormed(h), ~h.claimed, ~h.refunded,
         NEW g, g = [h EXCEPT !.claimed = TRUE] \/ g = [h EXCEPT !.refunded = TRUE]
  PROVE  WellFormed(g) /\ g # None /\ (g.claimed \/ g.refunded)
         /\ ~(g.claimed /\ g.refunded)
<1>1. /\ g \in HtlcState /\ (g.claimed \/ g.refunded) /\ ~(g.claimed /\ g.refunded)
      /\ g.approved_signers = h.approved_signers
      /\ g.required_signatures = h.required_signatures
  BY DEF WellFormed, HtlcState
<1>2. WellFormed(g)
  BY <1>1 DEF WellFormed, Multisig
<1>3. QED
  BY <1>1, <1>2, HtlcAssumption

\* claim() and refund() both empty the contract and settle it.
LEMMA PayOutStep ==
  ASSUME HtlcInv, Holding, NEW a \in Accounts,
         balance' = Transfer(balance, Contract, a, htlc.amount),
         \/ htlc' = [htlc EXCEPT !.claimed = TRUE]
         \/ htlc' = [htlc EXCEPT !.refunded = TRUE],
         time' = time
  PROVE  HtlcInv' /\ Stage' = "paid" /\ balance'[Contract] = 0
<1>1. balance' \in [Accounts \cup {Contract} -> Nat] /\ balance'[Contract] = 0
  BY HoldingFacts, HtlcAssumption DEF Transfer
<1>2. ~htlc.claimed /\ ~htlc.refunded /\ WellFormed(htlc)
  BY HoldingFacts DEF Holding
<1>3. /\ WellFormed(htlc') /\ htlc' # None /\ (htlc'.claimed \/ htlc'.refunded)
      /\ ~(htlc'.claimed /\ htlc'.refunded)
  BY <1>2, MarkSettled
<1>4. QED
  BY <1>1, <1>3, HoldingFacts DEF HtlcInv, TypeOK, Solvent, Holding, Stage

\* The two operations that pay.
LEMMA ClaimStep ==
  ASSUME HtlcInv, NEW p \in BOOLEAN, NEW S \in SUBSET Accounts, Claim(p, S)
  PROVE  HtlcInv' /\ Stage' = "paid" /\ balance'[Contract] = 0 /\ Holding
  BY HoldingFacts, PayOutStep DEF Claim

LEMMA RefundStep ==
  ASSUME HtlcInv, Refund
  PROVE  HtlcInv' /\ Stage' = "paid" /\ balance'[Contract] = 0 /\ Holding
  BY HoldingFacts, PayOutStep DEF Refund

\* initialize() stores a well-formed contract and puts its amount into it.
LEMMA InitializeStep ==
  ASSUME HtlcInv, NEW s \in Accounts, NEW r \in Accounts, NEW x \in Amounts,
         NEW t \in Timelocks, NEW a \in Approved, NEW n \in Required,
         Initialize(s, r, x, t, a, n)
  PROVE  HtlcInv' /\ htlc = None /\ Stage' = "holding" /\ balance'[Contract] \in Nat \ {0}
<1>1. /\ x \in Nat \ {0} /\ t \in Nat /\ a \in Seq(Accounts) /\ n \in Nat
      /\ htlc = None /\ balance[Contract] = 0 /\ balance[s] >= x
      /\ balance \in [Accounts \cup {Contract} -> Nat] /\ time \in Nat /\ time' = time
  BY HtlcAssumption DEF HtlcInv, TypeOK, Solvent, Holding, Initialize
<1>2. /\ htlc' \in HtlcState /\ htlc'.amount = x /\ ~htlc'.claimed /\ ~htlc'.refunded
      /\ htlc'.approved_signers = a /\ htlc'.required_signatures = n
  BY <1>1 DEF Initialize, HtlcState
<1>3. WellFormed(htlc')
  BY <1>1, <1>2 DEF Initialize, WellFormed, Multisig
<1>4. balance' \in [Accounts \cup {Contract} -> Nat] /\ balance'[Contract] = x
  BY <1>1, HtlcAssumption DEF Initialize, Transfer
<1>5. htlc' # None
  BY <1>2, HtlcAssumption
<1>6. QED
  BY <1>1, <1>2, <1>3, <1>4, <1>5 DEF HtlcInv, TypeOK, Solvent, Holding, Stage

\* A ledger that closes and a stuttering step change nothing of it.
LEMMA IdleStep ==
  ASSUME HtlcInv, Tick \/ UNCHANGED vars
  PROVE  HtlcInv' /\ htlc' = htlc /\ balance' = balance
  BY DEF Tick, vars, HtlcInv, TypeOK, Solvent, Holding

-----------------------------------------------------------------------------
\* Types hold and the contract always holds exactly what it still owes.
THEOREM HtlcInvariant == Spec => []HtlcInv
<1>1. Init => HtlcInv
  BY HtlcAssumption DEF Init, HtlcInv, TypeOK, Solvent, Holding
<1>2. HtlcInv /\ [Next]_vars => HtlcInv'
  BY InitializeStep, ClaimStep, RefundStep, IdleStep DEF Next
<1>3. QED
  BY <1>1, <1>2, PTL DEF Spec

\* claim() and refund() never both pay (lib.rs:98-165), whoever calls them and
\* however late.
THEOREM HtlcSolvent == Spec => []Solvent
  BY HtlcInvariant, PTL DEF HtlcInv

\* Before the timelock the deposit can only go to the receiver (lib.rs:154).
THEOREM HtlcReceiverFirst == Spec => ReceiverComesFirst
<1> DEFINE Early == Holding /\ time < htlc.timelock /\ balance'[Contract] # balance[Contract]
           ToReceiver == /\ balance' = Transfer(balance, Contract, htlc.receiver, htlc.amount)
                         /\ htlc'.claimed
<1>1. HtlcInv /\ [Next]_vars => [Early => ToReceiver]_vars
  <2> SUFFICES ASSUME HtlcInv, Next, Early PROVE ToReceiver
    BY DEF vars
  <2>1. ASSUME NEW s \in Accounts, NEW r \in Accounts, NEW x \in Amounts,
               NEW t \in Timelocks, NEW a \in Approved, NEW n \in Required,
               Initialize(s, r, x, t, a, n)
        PROVE  FALSE
    BY <2>1 DEF Initialize, Holding
  <2>2. ASSUME NEW p \in BOOLEAN, NEW S \in SUBSET Accounts, Claim(p, S) PROVE ToReceiver
    BY <2>2, HoldingFacts DEF Claim, WellFormed, HtlcState
  <2>3. CASE Refund
    BY <2>3, HoldingFacts DEF Refund, WellFormed, HtlcState
  <2>4. CASE Tick
    BY <2>4 DEF Tick
  <2>5. QED
    BY <2>1, <2>2, <2>3, <2>4 DEF Next
<1>2. QED
  BY HtlcInvariant, <1>1, PTL DEF Spec, ReceiverComesFirst

\* The contract implements the vault: initialize() is its deposit, claim() and
\* refund() are its payout.
THEOREM HtlcImplementsVault == Spec => IsVault
<1>1. Init => VaultView!Init
  BY HtlcAssumption DEF Init, VaultView!Init, Stage
<1>2. HtlcInv /\ [Next]_vars => [VaultView!Next]_VaultView!vaultVars
  <2> SUFFICES ASSUME HtlcInv, [Next]_vars PROVE [VaultView!Next]_VaultView!vaultVars
    OBVIOUS
  <2>1. ASSUME NEW s \in Accounts, NEW r \in Accounts, NEW x \in Amounts,
               NEW t \in Timelocks, NEW a \in Approved, NEW n \in Required,
               Initialize(s, r, x, t, a, n)
        PROVE  VaultView!Deposit
    BY <2>1, InitializeStep DEF VaultView!Deposit, Stage
  <2>2. ASSUME NEW p \in BOOLEAN, NEW S \in SUBSET Accounts, Claim(p, S)
        PROVE  VaultView!PayOut
    BY <2>2, ClaimStep DEF VaultView!PayOut, Stage, Holding
  <2>3. CASE Refund
    BY <2>3, RefundStep DEF VaultView!Next, VaultView!PayOut, Stage, Holding
  <2>4. CASE Tick \/ UNCHANGED vars
    BY <2>4, IdleStep DEF VaultView!vaultVars, Stage, Holding
  <2>5. QED
    BY <2>1, <2>2, <2>3, <2>4 DEF Next, VaultView!Next
<1>3. QED
  BY HtlcInvariant, <1>1, <1>2, PTL DEF Spec, IsVault, VaultView!Spec

\* The contract's storage and every account keep their types, and no account
\* falls below zero.
THEOREM HtlcTypes == Spec => []TypeOK
  BY HtlcInvariant, PTL DEF HtlcInv
=============================================================================
