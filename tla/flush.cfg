SPECIFICATION FairSpec
CONSTANTS
  b1 = b1
  b2 = b2
  p1 = p1
  p2 = p2
  NoBroker = NoBroker
  Broker <- MCBroker
  Partition <- MCPartition
  Transactional = FALSE
  MaxInFlight = 2
  MaxRetries = 2
  CacheSize = 2
  Counts <- MCCounts
  MaxBatches = 2
  MaxStaged = 1
  MaxFaults = 1
INVARIANTS
  TypeOK
  ExactlyOnceInOrder
  NothingSkipped
  NoSelfFencing
  TrueOffsets
  DrainedBetweenWindows
  FlushInv
PROPERTY
  ImplementsContract
  EventuallyRetired
CHECK_DEADLOCK FALSE
