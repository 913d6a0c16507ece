SPECIFICATION FairSpec
CONSTANTS
  a1 = a1
  a2 = a2
  NoAddr = NoAddr
  Addr <- MCAddr
  Bootstrap <- MCBootstrap
  MaxCount = 2
  MaxRetries = 2
  MaxSteps = 2
  MaxCalls = 1
  MaxFaults = 1
  Faults = {"silent"}
  Alone <- MCAlone
PROPERTY
  NeverHangs
CHECK_DEADLOCK FALSE
