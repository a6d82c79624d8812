SPECIFICATION FormatsSpec
CONSTANTS
  ErrInvalidFrame = ErrInvalidFrame
  CarryBytes = {0, 1, 127, 128, 254, 255}
  MaxPayload = 3
  PCIBytes = {0, 1, 6, 7, 255}
  MaxDiag = 8
  Word = 6
  Offsets = {0, 3, 6, 14}
  Widths = {0, 1, 3, 7}
  Values = {{}, {0}, {0, 2, 5}}
  MaxRefs = 2
  Counters = {0, 255, 16909060, 2147483647}
  MaxProtected = 2
  Digits = {0, 2, 5, 6, 10}
  MaxDigits = 3
  Nil = Nil
  NoEntry = NoEntry
  None = None
  NoParse = NoParse
  MaxArgs = 4
  Texts <- MCTexts
  NaN = NaN
  Decls <- MCDecls
  MaxFrames = 3
  EntryNames = {"F", "G", "H", "X"}
  MaxEntries = 2
INVARIANTS
  ParityDetects
  ChecksumIsSum
  PackUnpack
  DecodeEncode
  StaysInPayload
  ProtectedArrives
  MessageRoundTrip
  SinksAgree
  SendFormsAgree
  ParsesMeaning
  Usable
PROPERTIES
  ParseEnds
