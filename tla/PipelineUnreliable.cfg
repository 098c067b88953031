SPECIFICATION Spec
CONSTANTS
  deposit = deposit
  withdrawal = withdrawal
  w1 = w1
  w2 = w2
  a1 = a1
  a2 = a2
  None = None
  Txs = {deposit}
  Deposits = {deposit}
  Workers = {w1, w2}
  Admins = {a1}
  MaxAttempts = 1
  MaxRequeues = 1
  PoolAllowed = FALSE
  BreakerVisible = TRUE
  CancelAllowed = FALSE
  Budget <- Unreliable
SYMMETRY Symmetry
INVARIANTS
  CompletedMeansPaid
  SingleCustody
CHECK_DEADLOCK FALSE
