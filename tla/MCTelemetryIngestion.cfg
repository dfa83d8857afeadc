SPECIFICATION MCSpec
CONSTANTS
  s1 = s1
  t1 = t1
  c1 = c1
  v1 = v1
  v2 = v2
  Source = {s1}
  Tap = {t1}
  ClientId = {c1}
  Value = {v1, v2}
  NoSource = NoSource
  NoClientId = NoClientId
  Settings <- MCSettings
  Samples <- Mixed
  MaxTime = 3
  MaxBatch = 2
  MaxAssignments = 2
  PruneBatch = 10
INVARIANTS
  TypeOK
  RepliesAgree
  MeasurementsSound
  AcceptedInOrder
PROPERTIES
  NothingFromDisabled
