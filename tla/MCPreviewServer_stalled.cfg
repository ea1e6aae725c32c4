SPECIFICATION ThreadSpec
CONSTANTS
  c1 = c1
  c2 = c2
  c3 = c3
  Connections <- OneConnection
  MaxOpen = 1
  MaxStarts = 2
PROPERTY StopReturns
CHECK_DEADLOCK FALSE
