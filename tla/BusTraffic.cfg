SPECIFICATION Spec
CONSTANTS
  g1 = g1
  g2 = g2
  g3 = g3
  Proc = {g1, g2, g3}
  Menu <- TrafficMenu
  MaxCalls = 2
  ChanSize = 1
  Nil = Nil
  NoEntry = NoEntry
  NoProc = NoProc
INVARIANTS
  LockInv
  NoPanic
  CountersMatchChannels
  SnapshotLag
  SenderOrder
  BroadcastReachesAll
  LossNeedsFullChannel
PROPERTIES
  ClosedIsFinal
  ImplementsContract
