SPECIFICATION FairSpec
CONSTANTS
  N = 2
  Counts <- BoundaryCounts
  MaxFrames = 2
  InitialSamples = FALSE
  EncodeFails = FALSE
  SpuriousOn = {}
CHECK_DEADLOCK FALSE
PROPERTY
  CloseReturns
