SPECIFICATION IvfSpec
CONSTANTS
  Sizes <- EmptyAndTwo
  MaxWrites = 2
  MaxOpens = 2
  Faults = TRUE
INVARIANTS ReadsPrefix CountIsFrames
CHECK_DEADLOCK FALSE
