CONSTANTS
  NMsgs = 5
  PKT_PATTERN <- MCPattern
  HB_EVERY = 2
  EOS_COUNT = 9
  EosCount = 9
  HDR_B = 3
  PREFIX_B = 2
  BEATB = 5
  Length <- MCLength
  CntMod = 8
  MaxPackets = 5
SPECIFICATION MoldSpec
INVARIANTS LogIsGolden AlwaysRoom ReceiversAgree
CHECK_DEADLOCK FALSE
