\* What ADR 0007 says of disabling, against what the code does.
SPECIFICATION PauseSpec
CONSTANTS
  e1 = e1
  d1 = d1
  w = w
  Event <- MCEvent
  Destination <- MCDestination
  Owner <- MCOwner
  MaxCycleAttempts = 3
  FailureWindow = 4
  LeaseTtl = 1
  BaseBackoff = 2
  MaxRetryBackoff = 4
  ClaimLimits = {1}
  MaxTime = 3
  MaxRevision = 4
  MaxVersion = 1
PROPERTY ClocksPaused
CHECK_DEADLOCK FALSE
