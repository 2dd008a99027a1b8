SPECIFICATION Spec
CONSTANTS
  Contexts <- StereoAndMono
  Bits <- RampBits
  Quality = 240
  Modes = {"CBR", "VBR"}
  FastFlags = {0, 1}
INVARIANTS
  FrameFits
  FastOffsetBounded
  FailsOnlyIfTooSmall
  FrameIsUsed
  VbrKeepsQuality
PROPERTY
  SearchAdvances
  SearchEnds
