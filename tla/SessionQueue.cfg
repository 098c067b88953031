SPECIFICATION Spec
CONSTANTS
  r1 = r1
  r2 = r2
  r3 = r3
  orange = orange
  None = None
  Requests <- MCRequests
  Keys <- MCKeys
  KeyOf <- MCKeyOf
  Expiries <- MCExpiries
  MaxQueueDepth = 2
  MaxTime = 1
  ClearAllowed = TRUE
INVARIANTS
  OneAtATime
  MapTracksWork
  LockPerObject
  FirstComeFirstServed
PROPERTIES
  IsLine
  EveryRequestSettles
CHECK_DEADLOCK FALSE
