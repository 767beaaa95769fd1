SPECIFICATION QuotesSpec
CONSTANTS
  w1 = w1
  w2 = w2
  Worker = {w1, w2}
  Minute = 2
  Window = 2
  DemandTTL = 4
  Timeout = 2
  MaxSupply = 1
  MaxQuotes = 4
  MaxTime = 8
CHECK_DEADLOCK FALSE
SYMMETRY Symmetry
INVARIANTS
  QuotesTypeOK
  WindowIsKept
  SurgeWithinDemand
