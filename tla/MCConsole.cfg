SPECIFICATION MCSpec
CONSTANTS
  None = None
  c1 = c1  x1 = x1  p1 = p1  k1 = k1  o1 = o1  s1 = s1  v1 = v1
  Pin = {p1, p2}
  Session = {x1, x2}
  Call = {c1, c2}
  Policy <- TwoPolicies
  Attempts = 2  Window = 2  TouchAfter = 1  MaxClock = 4  MaxRevision = 3
  Slot = {s1, s2}
  Plain = {v1, v2}
  Key = {k1, k2}
  Operator = {o1, o2}
  MaxWrites = 2
  Source = {src}
  Limits <- TwoLimits
  Unit = 2  MaxTime = 5  MaxSpent = 8
  MaxSessions = 4  MaxDatasets = 2
  Form = {"name", "display"}
  PlainForm = {"display"}
  Value = {"a", "b", "b ", "!"}
  Normal <- Trimmed
  Invalid = {"!"}
  MaxSaves = 2  MaxEdits = 3
  b1 = b1  r1 = r1  u1 = u1
  Beverage = {b1, b2}
  Batch = {t1}
  Recipe = {r1, r2}
  Gravity = {1, 2}
  User = {u1, u2}
  ApiKey = {k1}
  Adapter = {1, 2, 3}
  MaxStamp = 1  MaxVersions = 2
  Volume = {0, 1, 2}
  Threshold = 2  Critical = 0  Settling = 2
  Degraded = 2  Unavailable = 3
  Loss = 1  LeakWindow = 3  Grace = 0  Suppressed = 2  Movement = 2  MaxSamples = 2
  Duration = 2
  CleaningDue = 1  CleaningOverdue = 1
  MaxCooldown = 2  Retention = 1  Skew = 1
  MaxMoment = 4  MaxEpoch = 2  MaxIncidents = 2
INVARIANTS
  ServicesTypeOK
  AuthenticationSound
  SecretsSound
  RateBounded
  WorkspacesSound
  AutosaveSound
  CellarTypeOK
  BeveragesSound
  SyncSound
  IncidentsSound
PROPERTIES
  SessionsFinal
  NeverStale
  AlarmsSound
CHECK_DEADLOCK FALSE
