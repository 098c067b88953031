SPECIFICATION Spec
CONSTANTS
  d1 = d1
  d2 = d2
  d3 = d3
  Deliveries = {d1, d2, d3}
  FailureThreshold = 2
  RecoveryAfter = 3
  MaxDelivery = 2
INVARIANTS
  OneProbe
PROPERTIES
  ClosedByEvidence
  Recovers
