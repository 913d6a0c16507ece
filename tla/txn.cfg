SPECIFICATION Spec
CONSTANTS
  i1 = i1
  i2 = i2
  Instance <- MCInstance
  BatchSize = 2
  MaxInput = 2
  MaxBegun = 3
  MaxMoves = 1
  MaxFaults = 1
  Faults <- MCFaults
  AbortsUnsent = FALSE
SYMMETRY MCSymmetry
INVARIANTS
  TypeOK
  NoInputLost
  OnceUnlessMisled
  AbortedStaysAborted
CHECK_DEADLOCK FALSE
