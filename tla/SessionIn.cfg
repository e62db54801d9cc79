CONSTANTS
  SeqSpace = 32
  Irs = 23
  NReplies = 2
  Cuts = {0, 4, 6, 9}
  MaxPiece = 4
  CfgRecords = 3
  RecordBeats = 4
  FifoDepth = 2
  MaxOrders = 1
SPECIFICATION SessionSpec
INVARIANTS AckedIsKept DumpIsGolden OrdersUnchanged
PROPERTIES AllReceived
CHECK_DEADLOCK FALSE
