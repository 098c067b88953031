SPECIFICATION Spec
CONSTANTS
  alice = alice
  bob = bob
  carol = carol
  Contract = Contract
  None = None
  Accounts <- MCAccounts
  Balances <- MCBalances
  Amounts <- MCAmounts
  FeeRates <- MCFeeRates
  Unlocks <- MCUnlocks
  Locks <- MCLocks
  MaxI128 = 29999
  MaxSequence = 3
  MaxStep = 2
INVARIANTS
  Solvent
  PaidInFull
  BeneficiaryShare
PROPERTIES
  LockProtectsDepositor
  IsVault
  DepositNotStranded
CHECK_DEADLOCK FALSE
