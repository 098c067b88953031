SPECIFICATION ProviderSpec
CONSTANTS
  a1 = a1
  a2 = a2
  b1 = b1
  b2 = b2
  c1 = c1
  c2 = c2
  airtel = airtel
  None = None
  Calls <- MCCalls
  First <- MCFirst
  Again <- MCAgain
  Requests <- MCRequests
  Keys <- MCKeys
  KeyOf <- MCKeyOf
  Expiries <- MCExpiries
  MaxQueueDepth = 2
  MaxTime = 3
  ClearAllowed = FALSE
  MaxAttempts = 2
  Ttl = 2
  CookieTimes <- MCCookieTimes
  Skew = 1
  MaxLogins = 5
INVARIANTS
  RejectedNotReused
  TimeoutNotSurfaced
  SentWithinAttempts
PROPERTIES
  EveryCallEnds
CHECK_DEADLOCK FALSE
