SPECIFICATION Spec
CONSTANTS
  Proc = {g1}
  SeqMod = 8
  MaxFrames = 2
  MaxUnwraps = 4
  None = None
INVARIANT
  ReplayRefused
