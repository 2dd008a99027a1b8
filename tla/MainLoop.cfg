SPECIFICATION Spec
CONSTANTS
  Depths = {0, 3}
  Lengths <- BoundaryLengths
  PadStarts = {TRUE, FALSE}
  EncodeFails = TRUE
CHECK_DEADLOCK FALSE
INVARIANTS
  InputConsumed
  FrameCountExact
PROPERTY
  TerminatesIfFed
