SPECIFICATION Spec
CONSTANTS
  r1 = r1
  r2 = r2
  r3 = r3
  v1 = v1
  None = None
  Requests <- MCRequests
  Vaults <- MCVaults
  Amounts <- MCAmounts
  MaxMain = 2
  ReferenceWidth = 25
INVARIANTS
  VaultMatchesHistory
  
PROPERTIES
  InactiveFrozen
  EveryRequestEnds
CHECK_DEADLOCK FALSE
