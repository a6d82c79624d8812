SPECIFICATION Spec
CONSTANTS
  Proc = {g1, g2}
  SeqMod = 3
  MaxFrames = 5
  MaxUnwraps = 4
  None = None
INVARIANTS
  VerdictRight
  CountersUnique
