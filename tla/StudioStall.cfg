SPECIFICATION FairSpec
CONSTANTS
  Framerate = 2
  Consumers = {"server", "recorder"}
  MaxChunks = 2
  PipeCap = 2
CHECK_DEADLOCK FALSE
PROPERTIES
  CaptureNeverBlocks
