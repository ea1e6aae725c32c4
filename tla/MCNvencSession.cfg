SPECIFICATION SessionSpec
CONSTANTS
  f1 = f1
  f2 = f2
  DeviceBuffers <- FrameSet
  Buffers = 3
  MaxPictures = 6
  Buffering = TRUE
  DriverFaults = TRUE
INVARIANTS NotOverwritten NothingLost
PROPERTY PacketsInOrder
CHECK_DEADLOCK FALSE
