SPECIFICATION MCSpec
CONSTANTS
  x1 = x1  x2 = x2  d1 = d1
  Delivery = {x1, x2}
  Destination = {d1}
  DestinationOf <- Shared
  HomeAssistant = {d1}
  Concurrency = 1
  MaxCycle = 2
  MaxGeneration = 1
  MaxVersion = 1
  Event = {"card", "status"}
  Target = {"tap", "header"}
  Dirties <- TwoEvents
  AtOnce = "header"
  MaxQueued = 1  MaxRunning = 1  HeldLimit = 1
  MaxWire = 2  MaxChanges = 2  MaxDisturbances = 2
INVARIANTS
  ScreenSound
PROPERTIES
  EveryDeliveryEnds
  NeverOlder
  ScreenCatchesUp
CHECK_DEADLOCK FALSE
