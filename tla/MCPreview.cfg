SPECIFICATION FairSpec
CONSTANTS
  s1 = s1
  s2 = s2
  v1 = v1
  v2 = v2
  StillClients <- TwoStillClients
  ViewClients <- TwoViewClients
  QueueCapacity = 2
  MaxFrames = 2
  MaxPublished = 2
  MaxAsks = 2
CONSTRAINT OneKind
INVARIANTS NoLostRequest StillNotStale
PROPERTIES ImplementsOnDemand StillServed StreamInOrder
CHECK_DEADLOCK FALSE
