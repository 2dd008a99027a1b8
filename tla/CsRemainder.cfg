SPECIFICATION Spec
CONSTANTS
  Depths = {0, 2}
  Lengths <- CallLengths
  MaxFed = 20
  EncodeFails = TRUE
CHECK_DEADLOCK FALSE
INVARIANT SamplesEncoded
