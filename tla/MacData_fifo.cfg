SPECIFICATION FairSpec
CONSTANTS
  PtrMod = 10
  RxBufSize = 5
  TxBufSize = 5
  HdrLen = 1
  MinFrame = 1
  MaxFrame = 1
  FrameLens = {1}
  MaxArrivals = 3
  OtherEvents = FALSE
  SlowCommands = FALSE
  FaultAt = {}
  MaxFaults = 0
  TxLens = {5}
PROPERTIES
  FifoSpec
