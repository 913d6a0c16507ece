SPECIFICATION Spec
CONSTANTS
  i1 = i1
  i2 = i2
  Instance = {i1}
  BatchSize = 2
  MaxInput = 2
  MaxBegun = 4
  MaxMoves = 1
  MaxFaults = 1
  Faults = {"lost"}
  AbortsUnsent = FALSE
INVARIANT OnceUnlessStale
CHECK_DEADLOCK FALSE
