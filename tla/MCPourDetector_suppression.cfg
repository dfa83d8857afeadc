SPECIFICATION Spec
CONSTANTS
  tapA = tapA  tapB = tapB
  Tap = {tapA, tapB}  Loss <- Losses
  CandidateLoss = 1  ArbitrationMinimum = 2  DominanceRatio = 2
  Arbitration = 1  Quiet = 1  Timeout = 1  Cooldown = 2  History = 1  SettledSpan = 0
  Skew = 0  Measured <- Always  MaxTime = 3
  MaxTurns = 4  MaxRows = 2
SYMMETRY TapsExchanged
PROPERTY SuppressedByPour
