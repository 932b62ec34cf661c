SPECIFICATION LinkSpec
CONSTANTS
  PtrMod = 8
  RxBufSize = 4
  TxBufSize = 4
  HdrLen = 1
  MinFrame = 1
  MaxFrame = 1
  FrameLens = {1}
  MaxArrivals = 2
  OtherEvents = FALSE
  SlowCommands = FALSE
  FaultAt = {}
  MaxFaults = 0
  TxLens = {}
  QuietReopen = FALSE
INVARIANTS
  ReceptionPossible
