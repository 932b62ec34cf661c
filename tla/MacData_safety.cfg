SPECIFICATION Spec
CONSTANTS
  PtrMod = 8
  RxBufSize = 4
  TxBufSize = 4
  HdrLen = 1
  MinFrame = 1
  MaxFrame = 2
  FrameLens = {1, 2}
  MaxArrivals = 2
  OtherEvents = FALSE
  SlowCommands = FALSE
  FaultAt = {"svc_ir", "svc_sir", "svc_clr_ir", "svc_s0", "svc_conn", "comp", "comp_ok", "comp_timeout",
             "clr_rd", "clr_wr", "drain_rsr", "rcv_sr", "rcv_rsr", "rcv_rd", "rcv_hdr", "rcv_pay", "rcv_wrd",
             "tx_sr", "tx_fsr", "tx_wr", "tx_buf", "tx_wwr", "tx_wait"}
  MaxFaults = 1
  TxLens = {4}
INVARIANTS
  TypeOK
  NoStall
  PendingInMemory
  InOrder
