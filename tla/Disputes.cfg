SPECIFICATION Spec
CONSTANTS
  r1 = r1
  r2 = r2
  r3 = r3
  None = None
  Requests <- MCRequests
  Amount = 2
  Fee = 1
  ReplicaLag = TRUE
  StatusWidened = TRUE
  MaxFaults = 1
INVARIANTS
  PostedOnce
  ReversedNetsToZero
  ReversedStatusBacked
  ToldOnlyOfPosted
  OneActiveDispute
  RetryMarksReversed
PROPERTIES
  EveryRequestEnds
CHECK_DEADLOCK FALSE
