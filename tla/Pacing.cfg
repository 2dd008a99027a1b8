SPECIFICATION Spec
CONSTANTS
  RateCodes <- AllRates
  FsCods <- AllFsCods
  HalfRates <- AllHalfRates
INVARIANTS
  SizeIsCoded
  RateKept
