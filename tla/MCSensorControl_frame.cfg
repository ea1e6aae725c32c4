SPECIFICATION Spec
CONSTANTS
  Base = 2
  MinVmax = 4
  MaxVmax = 6
  MinShr0 = 1
  MinIntegration = 1
  MaxBlackLevel = 3
  DefaultBlackLevel = 3
  Requests <- FasterRequest
  Configs <- ShortExposure
INVARIANT FrameExposes
