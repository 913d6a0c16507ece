SPECIFICATION FairSpec
CONSTANTS
  Partition = {p1, p2}
  NumBrokers = 2
  MaxRecords = 1
  MaxEpoch = 3
  MaxCalls = 0
  MaxEvents = 1
  MaxFaults = 1
  Faults = {"move"}
CHECK_DEADLOCK FALSE
PROPERTY CatchesUp
