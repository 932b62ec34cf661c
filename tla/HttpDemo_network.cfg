SPECIFICATION DemoFairSpec
CONSTANTS
  QueueLen = 2
  Addresses = {a, b}
  None = None
  MaxChunks = 1
  FaultAt = {"data_up", "start", "register_status", "register_image", "stop"}
INVARIANTS
  OkMeansUp
  AvailableServes
  DownloadFrees
PROPERTIES
  AnswersRecent
  ComesBack
  LoopReturns
