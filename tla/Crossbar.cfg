SPECIFICATION RouteSpec
CONSTANTS
  Policies = {"Block", "DropNewest", "DropOldest"}
  Depth = 1
  BusDepth = 2
  MaxFrames = 3
  WatchDepth = 1
  MaxResets = 1
  NoFrame = NoFrame
  Nil = Nil
  NoEntry = NoEntry
  Traffic <- Frames
  Sources = {"Adapt", "subscribe"}
  Sinks = {"Send", "stream"}
  Counts <- SomeCounts
  Others <- Foreign
  MaxOthers = 1
INVARIANTS
  OrderKept
  PolicyKept
  RouteFaithful
  CollectorExact
PROPERTIES
  RouteEnds
CHECK_DEADLOCK FALSE
