SPECIFICATION Spec
CONSTANTS
  Partition = {p1, p2}
  NumBrokers = 2
  MaxRecords = 2
  MaxEpoch = 3
  MaxCalls = 0
  MaxEvents = 1
  MaxFaults = 1
  Faults = {"lose"}
CHECK_DEADLOCK FALSE
INVARIANT AtLeastOnce
