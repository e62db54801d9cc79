CONSTANTS
  TokenMod = 8
  SeqMod = 8
  PayldB = 1
  InitSeq = 6
  FrameMod = 1
  CsumMod = 8
  InitId = 3
  IpBase = 6
  TcpBase = 5
  PayldSum <- TokenAlone
  Slots = 4
  Beats = 2
  StoreMod = 8
  ReplayCntMod = 1
  RtoSlots = 4
  RtoPayldB = 1
  RtoSeqMod = 8
  RtoCycles = 1
  MaxRetries = 2
  RtoCntMod = 1
  MaxUnaccepted = 2
  HostAges = {0}
  LossMax = 1
SPECIFICATION LinkSpec
INVARIANTS WholeFrames AsksForOldest HeldOffBriefly
