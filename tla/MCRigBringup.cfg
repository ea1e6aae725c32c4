CONSTANTS
  c1 = c1
  c2 = c2
  Cameras = {c1, c2}
  Rigs <- MCRigs
  Commands <- MCCommands
SPECIFICATION FairSpec
INVARIANTS PortMatches NothingInherited ConfiguresInStandby NoStrayStream
PROPERTY StopEnds
