-------------------------------- MODULE Htlc --------------------------------
(***************************************************************************)
(* The Soroban hash time-locked contract (src/contracts/htlc/src/lib.rs):  *)
(* one instance, the token it holds and the ledger time its guards read.   *)
(* Failed invocations are rolled back by the host, so only successful ones *)
(* are steps.  A preimage is told apart only by whether it hashes to the   *)
(* lock.  The host lets an address authorise an invocation once, so the    *)
(* signers of a claim are a set; approved_signers is the stored vector,    *)
(* which may repeat an address.  initialize() does not refuse the          *)
(* contract's own address as receiver; that misuse is left out.            *)
(***************************************************************************)
EXTENDS Integers, Sequences, FiniteSets

CONSTANTS
  Accounts,   \* addresses that hold tokens and sign invocations
  Contract,   \* env.current_contract_address()
  Balances,   \* the token balances before the contract exists
  Amounts,    \* amounts tried by initialize
  Timelocks,  \* timelocks tried by initialize
  Approved,   \* approved_signers tried by initialize
  Required,   \* required_signatures tried by initialize
  MaxTime,    \* bound: the last instant of the ledger
  None        \* the instance storage before initialize

HtlcState ==
  [sender: Accounts, receiver: Accounts, amount: Nat, timelock: Nat,
   claimed: BOOLEAN, refunded: BOOLEAN, approved_signers: Seq(Accounts),
   required_signatures: Nat]

ASSUME HtlcAssumption ==
  /\ IsFiniteSet(Accounts)
  /\ Contract \notin Accounts
  /\ Balances \in [Accounts -> Nat]
  /\ Amounts \subseteq Int
  /\ Timelocks \subseteq Nat
  /\ Approved \subseteq Seq(Accounts)
  /\ Required \subseteq Nat
  /\ MaxTime \in Nat
  /\ None \notin HtlcState

VARIABLES
  htlc,     \* the HtlcState in instance storage, or None
  balance,  \* token balances
  time      \* env.ledger().timestamp()

vars == <<htlc, balance, time>>

Init ==
  /\ htlc = None
  /\ balance = [a \in Accounts \cup {Contract} |->
                  IF a = Contract THEN 0 ELSE Balances[a]]
  /\ time = 0

\* token::Client::transfer.
Transfer(b, from, to, amount) ==
  [b EXCEPT ![from] = @ - amount, ![to] = @ + amount]

Multisig(h) == Len(h.approved_signers) > 0

\* initialize() signed by the sender.
Initialize(sender, receiver, amount, timelock, approved, required) ==
  /\ amount > 0
  /\ htlc = None
  /\ timelock > time
  /\ Len(approved) > 0 => required > 0 /\ required <= Len(approved)
  /\ balance[sender] >= amount
  /\ balance' = Transfer(balance, sender, Contract, amount)
  /\ htlc' = [sender |-> sender, receiver |-> receiver, amount |-> amount,
              timelock |-> timelock, claimed |-> FALSE, refunded |-> FALSE,
              approved_signers |-> approved, required_signatures |-> required]
  /\ UNCHANGED time

Holding == htlc # None /\ ~htlc.claimed /\ ~htlc.refunded

\* Who must have signed a claim.
Authorised(signers) ==
  IF Multisig(htlc)
  THEN /\ \A s \in signers : \E i \in 1..Len(htlc.approved_signers) :
                               htlc.approved_signers[i] = s
       /\ Cardinality(signers) >= htlc.required_signatures
  ELSE htlc.receiver \in signers

\* Faulty variant: claim() leaves a claimed contract open.
ClaimUnmarked(preimageMatches, signers) ==
  /\ Holding
  /\ preimageMatches
  /\ Authorised(signers)
  /\ balance[Contract] >= htlc.amount
  /\ balance' = Transfer(balance, Contract, htlc.receiver, htlc.amount)
  /\ UNCHANGED <<htlc, time>>

\* claim(); nothing closes it when the timelock runs out.
Claim(preimageMatches, signers) ==
  /\ Holding
  /\ preimageMatches
  /\ Authorised(signers)
  /\ balance[Contract] >= htlc.amount
  /\ balance' = Transfer(balance, Contract, htlc.receiver, htlc.amount)
  /\ htlc' = [htlc EXCEPT !.claimed = TRUE]
  /\ UNCHANGED time

\* Faulty variant: refund() one instant too early.
RefundEarly ==
  /\ Holding
  /\ time + 1 >= htlc.timelock
  /\ balance[Contract] >= htlc.amount
  /\ balance' = Transfer(balance, Contract, htlc.sender, htlc.amount)
  /\ htlc' = [htlc EXCEPT !.refunded = TRUE]
  /\ UNCHANGED time

\* Faulty variant: only a contract without approved signers can be refunded.
RefundUnlessMultisig ==
  /\ Holding
  /\ ~Multisig(htlc)
  /\ time >= htlc.timelock
  /\ balance[Contract] >= htlc.amount
  /\ balance' = Transfer(balance, Contract, htlc.sender, htlc.amount)
  /\ htlc' = [htlc EXCEPT !.refunded = TRUE]
  /\ UNCHANGED time

\* refund(), which anybody may call.
Refund ==
  /\ Holding
  /\ time >= htlc.timelock
  /\ balance[Contract] >= htlc.amount
  /\ balance' = Transfer(balance, Contract, htlc.sender, htlc.amount)
  /\ htlc' = [htlc EXCEPT !.refunded = TRUE]
  /\ UNCHANGED time

\* A ledger closes.
Tick ==
  /\ time < MaxTime
  /\ time' = time + 1
  /\ UNCHANGED <<htlc, balance>>

Next ==
  \/ \E s, r \in Accounts, x \in Amounts, t \in Timelocks, a \in Approved, n \in Required :
       Initialize(s, r, x, t, a, n)
  \/ \E p \in BOOLEAN, S \in SUBSET Accounts : Claim(p, S)
  \/ Refund
  \/ Tick

\* Ledgers keep closing, and somebody calls refund() once it is possible.
Fairness == WF_vars(Tick) /\ WF_vars(Refund)

Spec == Init /\ [][Next]_vars /\ Fairness

-----------------------------------------------------------------------------
\* A stored contract passed the assertions of initialize(): with approved
\* signers, between one of them and as many as the vector has are required.
WellFormed(h) ==
  /\ h \in HtlcState
  /\ Multisig(h) => h.required_signatures \in 1..Len(h.approved_signers)

\* Storage, balances and time keep the types lib.rs gives them.
TypeOK ==
  /\ htlc = None \/ WellFormed(htlc)
  /\ balance \in [Accounts \cup {Contract} -> Nat]
  /\ time \in Nat

\* claim() and refund() race for one deposit and neither closes the other's
\* door by time: the contract's account holds exactly the amount while neither
\* flag is set, and nothing otherwise, so at most one of them is ever paid.
Solvent ==
  /\ balance[Contract] = IF Holding THEN htlc.amount ELSE 0
  /\ htlc # None => ~(htlc.claimed /\ htlc.refunded)

\* "Refund funds to the sender after the timelock has expired": before the
\* timelock the only way out of the contract is to the receiver.
ReceiverComesFirst ==
  [][Holding /\ time < htlc.timelock /\ balance'[Contract] # balance[Contract] =>
       /\ balance' = Transfer(balance, Contract, htlc.receiver, htlc.amount)
       /\ htlc'.claimed]_vars

\* The contract is a vault: one deposit, then one payout of all of it.
Stage == IF htlc = None THEN "empty" ELSE IF Holding THEN "holding" ELSE "paid"
VaultView == INSTANCE Vault WITH stage <- Stage, held <- balance[Contract]
IsVault == VaultView!Spec

\* Whether or not enough approved signers exist to claim (a repeated address
\* counts towards the limit but can sign only once), the funds come out.
FundsNotStranded == Holding ~> ~Holding
=============================================================================
