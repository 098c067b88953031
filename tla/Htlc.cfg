SPECIFICATION Spec
CONSTANTS
  alice = alice
  bob = bob
  carol = carol
  Contract = Contract
  None = None
  Accounts <- MCAccounts
  Balances <- MCBalances
  Amounts <- MCAmounts
  Timelocks <- MCTimelocks
  Approved <- MCApproved
  Required <- MCRequired
  MaxTime = 4
INVARIANTS
  Solvent
PROPERTIES
  ReceiverComesFirst
  IsVault
  FundsNotStranded
CHECK_DEADLOCK FALSE
