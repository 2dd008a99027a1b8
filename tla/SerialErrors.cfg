SPECIFICATION Spec
CONSTANTS
  Counts <- BoundaryCounts
  MaxFrames = 8
  InitialSamples = TRUE
  EncodeFails = TRUE
INVARIANT
  ErrorsReported
