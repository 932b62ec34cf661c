SPECIFICATION ModeFairSpec
CONSTANTS
  MaxFaults = 1
  QuietCalls = FALSE
  Negotiated <- SlowOrFast
  Unlinked <- SlowOrFast
INVARIANTS
  ModeInForce
  ForcedAsAsked
PROPERTIES
  SpeedBeforeUp
  PowerOffTakesDown
