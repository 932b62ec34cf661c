SPECIFICATION DemoFairSpec
CONSTANTS
  QueueLen = 3
  Addresses = {a}
  None = None
  MaxChunks = 0
  FaultAt = {}
PROPERTIES
  RefusesWhenDown
