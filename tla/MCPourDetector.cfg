SPECIFICATION Spec
CONSTANTS
  tapA = tapA  tapB = tapB
  Tap = {tapA, tapB}  Loss <- Losses
  CandidateLoss = 1  ArbitrationMinimum = 2  DominanceRatio = 2
  Arbitration = 2  Quiet = 0  Timeout = 1  Cooldown = 1  History = 1  SettledSpan = 0
  Skew = 1  Measured <- LongAndShort  MaxTime = 4
  MaxTurns = 4  MaxRows = 2
INVARIANTS TypeOK PoursSound
PROPERTY NothingOverdue
