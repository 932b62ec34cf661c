SPECIFICATION LinkFairSpec
CONSTANTS
  PtrMod = 8
  RxBufSize = 4
  TxBufSize = 4
  HdrLen = 1
  MinFrame = 1
  MaxFrame = 1
  FrameLens = {1}
  MaxArrivals = 2
  OtherEvents = FALSE
  SlowCommands = FALSE
  FaultAt = {"close", "close_wait", "clr_s0", "open", "open_wait", "open_sr", "clr_ir", "clr_s0_again", "unmask"}
  MaxFaults = 1
  TxLens = {}
  QuietReopen = TRUE
INVARIANTS
  LinkBacked
  NoStallAfterLinkUp
  DeliveredOnce
PROPERTIES
  LinkTold
  LinkDrains
