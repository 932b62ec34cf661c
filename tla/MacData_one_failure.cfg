SPECIFICATION BusySpec
CONSTANTS
  PtrMod = 8
  RxBufSize = 4
  TxBufSize = 4
  HdrLen = 1
  MinFrame = 1
  MaxFrame = 1
  FrameLens = {1}
  MaxArrivals = 1
  OtherEvents = FALSE
  SlowCommands = FALSE
  FaultAt = {"rcv_sr", "rcv_cmd"}
  MaxFaults = 1
  TxLens = {4}
PROPERTIES
  EachFrameDelivered
