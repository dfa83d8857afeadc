SPECIFICATION MCSpec
CONSTANTS
  x1 = x1
  x2 = x2
  x3 = x3
  x4 = x4
  d1 = d1
  d2 = d2
  d3 = d3
  d4 = d4
  Delivery = {x1, x2, x3, x4}
  Destination = {d1, d2, d3, d4}
  DestinationOf <- Four
  HomeAssistant = {d4}
  Concurrency = 2
  MaxCycle = 2
  MaxGeneration = 1
  MaxVersion = 2
SYMMETRY PairsExchanged
INVARIANTS
  TypeOK
  SendsSound
PROPERTIES
  SettledByOwnSend
CHECK_DEADLOCK FALSE
