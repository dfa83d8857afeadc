SPECIFICATION MCSpec
CONSTANTS
  e1 = e1
  e2 = e2
  d1 = d1
  d2 = d2
  w = w
  Event <- MCEvent
  Destination <- MCDestination
  Owner <- MCOwner
  MaxCycleAttempts = 2
  FailureWindow = 2
  LeaseTtl = 1
  BaseBackoff = 1
  MaxRetryBackoff = 2
  ClaimLimits = {1}
  MaxTime = 3
  MaxRevision = 3
  MaxVersion = 2
SYMMETRY MCSymmetry
INVARIANTS
  TypeOK
  DestinationsSound
  ClaimsSound
PROPERTIES
  SupersededResultIgnored
  ImplementsContract
CHECK_DEADLOCK FALSE
