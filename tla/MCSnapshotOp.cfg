SPECIFICATION FairSnapshotSpec
CONSTANTS
  c1 = c1
  c2 = c2
  Clients <- TwoClients
  MaxRequests = 3
  MaxFrames = 4
INVARIANT ReportedComplete
PROPERTIES ImplementsOnDemand NewestWritten
CHECK_DEADLOCK FALSE
