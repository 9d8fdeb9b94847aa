CONSTANTS
  Channels <- BothChannels
  Counts = 3
  Drives <- TwoDrives
  Loaded <- TwoDrives
  SectorBytes = 2
  ResultBytes = 3
  IntDelay = 1
  DiskDelay = 1
  Extents <- SomeExtents
  Controls <- ControlWrites
  Modes <- BothModes
  Masks <- AllOrNone
  Accessed <- First
  Sought <- First
  Swapped <- Second
SPECIFICATION Spec
VIEW Live
INVARIANTS ReadyIffTransfer NoStaleCount Announced NotStalled
