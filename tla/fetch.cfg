SPECIFICATION FairSpec
CONSTANTS
  Partition = {p1, p2}
  NumBrokers = 2
  MaxRecords = 2
  MaxEpoch = 3
  MaxCalls = 1
  MaxEvents = 1
  MaxFaults = 1
  Faults <- AllFaults
CHECK_DEADLOCK FALSE
INVARIANTS FetchInv NoneStranded NoGap
PROPERTIES PausedSilent CatchesUpInPlace
