SPECIFICATION LifeSpec
CONSTANTS
  PtrMod = 8
  RxBufSize = 4
  TxBufSize = 4
  HdrLen = 1
  MinFrame = 1
  MaxFrame = 1
  FrameLens = {1}
  MaxArrivals = 1
  OtherEvents = FALSE
  SlowCommands = FALSE
  FaultAt = {}
  MaxFaults = 0
  TxLens = {}
  Patient = FALSE
  MaxCalls = 4
INVARIANTS
  StartedListens
CHECK_DEADLOCK FALSE
