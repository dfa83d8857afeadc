SPECIFICATION FairSpec
CONSTANTS
  Conn = {c1, c2}
  Caller = {k1, k2}
  Binding = {b1, b2}
  MaxPending = 1
  None = None
INVARIANTS
  TypeOK
  ConnectionSound
PROPERTIES
  EveryCallAnswered
CHECK_DEADLOCK FALSE
