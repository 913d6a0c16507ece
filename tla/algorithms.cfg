SPECIFICATION AlgorithmsSpec
CONSTANTS
  p1 = p1
  p2 = p2
  Nobody = Nobody
  MaxBatches = 5
  Ids <- MCIds
  Topics <- MCTopics
  MaxCount = 2
  MaxGroup = 3
  MaxChanges = 4
  MaxRounds = 4
SYMMETRY MCSymmetry
INVARIANTS
  RoundsInv
  EverythingAssignedOnce
  OneHolder
  RangeIsContiguous
  FairShare
  HandoverEnds
  FilterExact
PROPERTY
  HandedOverInTwoRounds
CHECK_DEADLOCK FALSE
