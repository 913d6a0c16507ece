CONSTANTS
  Consumer = {c1, c2}
  Broker = {b1}
  NoBroker = NoBroker
  Protocols = {"Cooperative"}
  MaxSteps = 20
  StartCounts = {1}
  MaxCount = 2
  MaxOffset = 1
  MaxCalls = 2
  MaxFaults = 1
  Faults = {"lost", "grow"}
SPECIFICATION FairSpec
INVARIANTS HandedOver
PROPERTIES AllRead
CHECK_DEADLOCK FALSE
