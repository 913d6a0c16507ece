SPECIFICATION FairSpec
CONSTANTS
  a1 = a1
  a2 = a2
  NoAddr = NoAddr
  Addr <- MCAddr
  Bootstrap <- MCBootstrap
  MaxCount = 2
  MaxRetries = 2
  MaxSteps = 2
  MaxCalls = 2
  MaxFaults = 2
  Faults <- MCFaults
  Alone <- MCAlone
INVARIANTS
  ClientInv
  OwnAnswer
  BusyOnlyBehindLeftover
  CreatedAndVisible
  SettledSucceeds
PROPERTY
  Returns
CHECK_DEADLOCK FALSE
