SPECIFICATION FairSpec
CONSTANTS
  g1 = g1
  g2 = g2
  g3 = g3
  Proc = {g1, g2}
  Menu <- CallsMenu
  MaxCalls = 3
  ChanSize = 1
  Nil = Nil
  NoEntry = NoEntry
  NoProc = NoProc
INVARIANTS
  TypeOK
PROPERTIES
  CallsReturn
  ConsumersSeeClose
