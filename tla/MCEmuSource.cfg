SPECIFICATION Spec
CONSTANTS
  Wants <- WindowAndBinning
  FrameRates <- OneRate
  Limited = TRUE
  MaxSessions = 2
  MaxDeaths = 1
  MaxLag = 2
INVARIANTS TrainedOnIt OneStrayFrame  PlanIsSound
PROPERTIES FramesFlow
CHECK_DEADLOCK FALSE
