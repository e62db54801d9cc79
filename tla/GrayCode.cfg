CONSTANTS
  Beat = {b1, b2}
  NoBeat = NoBeat
  Depth = 4
  AddrBits = 2
  SyncFf = 2
  CntMod = 2
  Encode <- MCEncode
  Decode <- MCDecode
  TopFlipped <- MCTopFlipped
  Captures <- MCCaptures
SPECIFICATION Spec
INVARIANTS NoOverrun
PROPERTIES ImplementsLossyFifo FullClears
