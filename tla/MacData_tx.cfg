SPECIFICATION BusySpec
CONSTANTS
  PtrMod = 6
  RxBufSize = 3
  TxBufSize = 3
  HdrLen = 1
  MinFrame = 1
  MaxFrame = 1
  FrameLens = {1}
  MaxArrivals = 1
  OtherEvents = FALSE
  SlowCommands = FALSE
  FaultAt = {"svc_ir", "svc_sir", "svc_s0", "clr_wr", "rcv_rsr",
             "rcv_pay", "tx_wr", "tx_buf", "tx_wwr", "tx_wait"}
  MaxFaults = 1
  TxLens = {2}
INVARIANTS
  TxSpace
  WholeFrames
  SuccessIsSent
PROPERTIES
  TxReturns
  TxKeepsGoing
  RescuedBySend
