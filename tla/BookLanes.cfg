CONSTANTS
  NSym = 2
  Depth = 2
  ArbDropMod = 2
  Walk = 10
  RecordMod = 2
SPECIFICATION LanesSpec
INVARIANTS NothingDropped SymbolOrder NoStarvation
