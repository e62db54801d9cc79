CONSTANTS
  Byte = 4
  Nibble = 2
  Blank = 3
  A = 1
  P = 0
  N = 2
  Settings <- MCSettings
  NSYM = 2
  SYM_MAX = 3
  SYNC_FF = 2
  Spacing = 3
  MaxCommits = 2
  MaxAcks = 2
SPECIFICATION Spec
INVARIANTS CoreHasOneCommit EachPulseOnce
PROPERTIES AllArrives
