SPECIFICATION Spec
CONSTANTS
  i1 = i1
  i2 = i2
  Instance <- MCInstance
  BatchSize = 2
  MaxInput = 1
  MaxBegun = 2
  MaxMoves = 0
  MaxFaults = 1
  Faults <- MCFaults
  AbortsUnsent = TRUE
INVARIANTS
  AbortedStaysAborted
CHECK_DEADLOCK FALSE
