CONSTANTS
  Feed <- MCFeed
  BodyHeader <- MCBodyHeader
  FifoDepth = 2
  FifoDropMod = 16
  AheadStall = 2
  ArbCntMod = 8
  Skew = 2
SPECIFICATION Spec
INVARIANTS MergedInOrder OnlyDoubleLossesMissed
PROPERTIES LinesAreLossyFifos
