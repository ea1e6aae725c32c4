SPECIFICATION ThreadSpec
CONSTANTS
  c1 = c1
  c2 = c2
  c3 = c3
  Connections <- ThreeConnections
  MaxOpen = 2
  MaxStarts = 2
INVARIANTS StoppedMeansQuiet OneOwner
PROPERTIES BacklogServed StopReturnsIfClientsGoOn
CHECK_DEADLOCK FALSE
