SPECIFICATION Spec
CONSTANTS
  g1 = g1
  g2 = g2
  Proc = {g1, g2}
  Owns <- Shared
  MaxCalls = 3
INVARIANTS
  ListMatchesBus
