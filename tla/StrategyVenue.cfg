CONSTANTS
  Sym = {"A", "B"}
  Quote <- MCBooks
  Sweep <- MCSweep
  WordMod = 16
  PosHalf = 8
  CntMod = 1
  BlkMod = 1
  MaxSpread = 1
  RatioShift = 1
  MinQty = 0
  OrderQty = 1
  PosLimit = 1
  MaxInflight = 2
  MaxShares = 4
  VenueCap = 3
  MetCap = 2
SPECIFICATION GoldenSpec
INVARIANTS PositionWithinLimit InflightBounds OwnBook
PROPERTIES RisingEdgeOnly DecidesAsGolden
