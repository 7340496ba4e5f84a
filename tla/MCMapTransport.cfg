SPECIFICATION Spec
CONSTANTS
  MaxAxis = 3
  MaxSource = 3
  MaxSkip = 4
  Inputs <- SmallInputs
  Maps <- SmallMaps
  Prepares <- AxesRise
  Supports <- ReachesReference
INVARIANT ReplayIsWhatWasSent
INVARIANT WrapperIsUnderstood
CHECK_DEADLOCK FALSE
