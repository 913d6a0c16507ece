CONSTANTS
  Consumer = {c1, c2}
  Broker = {b1, b2}
  NoBroker = NoBroker
  Protocols <- BothProtocols
  MaxSteps = 4
  StartCounts = {1}
  MaxCount = 2
  MaxOffset = 1
  MaxCalls = 2
  MaxFaults = 1
  Faults <- AllFaults
SPECIFICATION Spec
INVARIANTS GroupInv OneOwner PositionsAreAssignment CommittedWasRead
PROPERTIES CommitByOwner
CHECK_DEADLOCK FALSE
SYMMETRY Alike
