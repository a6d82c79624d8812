SPECIFICATION FairSpec
CONSTANTS
  Policies = {"DropOldest"}
  Depth = 2
  BusDepth = 2
  MaxFrames = 5
PROPERTIES
  EveryFrameForwarded
CHECK_DEADLOCK FALSE
