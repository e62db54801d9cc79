CONSTANTS
  Levels = 4
  GroupSize = 2
  Tick = 2
  Base = 3
  OobMod = 2
  MergeMod = 2
  Prices = {1, 3, 5, 9}
  MaxLevelQty = 2
  MaxResting = 3
SPECIFICATION Spec
INVARIANTS LadderIsRight StreamsAgree
