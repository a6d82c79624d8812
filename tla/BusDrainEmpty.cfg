SPECIFICATION Spec
CONSTANTS
  g1 = g1
  g2 = g2
  g3 = g3
  Proc = {g1, g2}
  Menu <- DrainMenu
  MaxCalls = 2
  ChanSize = 1
  Nil = Nil
  NoEntry = NoEntry
  NoProc = NoProc
PROPERTIES
  DrainClosesEmpty
