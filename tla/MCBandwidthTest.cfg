SPECIFICATION FairMeasureSpec
CONSTANTS
  MaxFrames = 4
  CrcEvery = 1
  DumpEvery = 2
  DumpLimit = 1
  AllowedDrops = 0
INVARIANTS GapsExact PassIsSound OverwriteDetected VerifiedDumpIsGood
PROPERTY Concludes
CHECK_DEADLOCK FALSE
