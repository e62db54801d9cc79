CONSTANTS
  Sym = {"A"}
  Quote <- MCQuote
  WordMod = 16
  PosHalf = 8
  CntMod = 1
  BlkMod = 1
  MaxSpread = 1
  RatioShift = 1
  MinQty = 1
  OrderQty = 1
  PosLimit = 1
  MaxInflight = 3
  MaxShares = 4
  TokenMod = 4
  SeqMod = 16
  PayldB = 4
  InitSeq = 5
  CsumMod = 4
  FrameMod = 1
  InitId = 3
  IpBase = 2
  TcpBase = 1
  PayldSum <- MCPayldSum
  StallMax = 2
SPECIFICATION Spec
INVARIANTS FramesAreGolden SpacedNeverLost KeepsMoving
