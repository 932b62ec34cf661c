SPECIFICATION QuietFairSpec
CONSTANTS
  Threads = {t1, t2}
  Readers = {t1}
  Bytes = {0, 1}
  MaxTries = 2
  None = None
INVARIANTS
  OneOnTheBus
  NothingLeaks
  AllOrNothing
  StableIsReal
PROPERTIES
  CallsReturn
  AtomicRegisters
