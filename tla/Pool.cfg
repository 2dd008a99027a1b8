SPECIFICATION FairSpec
CONSTANTS
  N = 3
  Counts <- BoundaryCounts
  MaxFrames = 4
  InitialSamples = TRUE
  EncodeFails = TRUE
  SpuriousOn = {"samples"}
CHECK_DEADLOCK FALSE
INVARIANTS
  TypeOK
  ContextExclusive
  CopyExclusive
  NoLostWakeup
  CopiesInOrder
  RunningAreNext
  CleanClose
  NoDeadlock
PROPERTIES
  ImplementsQueue
  CallReturns
  FedCloseReturns
