SPECIFICATION LifeFairSpec
CONSTANTS
  PtrMod = 8
  RxBufSize = 4
  TxBufSize = 4
  HdrLen = 1
  MinFrame = 1
  MaxFrame = 1
  FrameLens = {1}
  MaxArrivals = 2
  OtherEvents = TRUE
  SlowCommands = FALSE
  FaultAt = {"start_create", "reg", "reg_enable",
             "svc_ir", "svc_sir", "svc_clr_ir", "svc_s0", "svc_conn", "comp", "comp_ok", "comp_timeout", "clr_rd", "clr_wr", "drain_rsr", "rcv_sr", "rcv_rsr", "rcv_rd", "rcv_hdr", "rcv_pay", "rcv_wrd"}
  MaxFaults = 1
  TxLens = {}
  Patient = TRUE
  MaxCalls = 6
INVARIANTS
  IrqTaskAlive
  OneTask
  StartedListens
  NoStallAfterStart
  InOrder
PROPERTIES
  StopEnds
  StartedDrains
CHECK_DEADLOCK FALSE
