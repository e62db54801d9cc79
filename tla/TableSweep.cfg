\* Four orders over two sets of two ways, three of them in the same set, with
\* whatever the memory held at power-up; executions 0 or 2 apart with a gap
\* of 1, two levels make a sweep.
SPECIFICATION Spec
CONSTANTS
  Sym = {10, 20}
  OtherLoc = 30
  Ref <- MCRef
  Orders <- MCOrders
  Hash <- MCHash
  Attributed = {2, 4}
  Executions <- MCExecutions
  Replaces <- MCReplaces
  Junk <- MCJunk
  NSets = 2
  Ways = 2
  RdLat = 1
  OvfMod = 2
  MissMod = 1
  SwMinLevels = 2
  SwGap = 1
  MsgTypes = {"A", "F", "E", "C", "X", "D", "U", "P"}
  Shares = {1}
  MaxTs = 2
  MaxRunShares <- MCMaxRunShares
  ReplaceFits = TRUE
INVARIANTS LadderSumsOrders
PROPERTIES DeltasAreGolden TopsAreGolden RunsAreGolden
