SPECIFICATION Spec
CONSTANTS
  Caller = {c1, c2}
  ErrInvalidFrame = ErrInvalidFrame
  Vacant = Vacant
  Requests <- MCRequests
  Extra <- MCExtra
  MaxCalls = 2
  ChanSize = 1
INVARIANTS
  AskedFirst
  AnswerIsReal
  PackedIsValid
