SPECIFICATION FairRideCacheSpec
CONSTANTS
  w1 = w1
  w2 = w2
  w3 = w3
  Worker = {w1, w2, w3}
  MaxVersion = 2
  TTL = 2
  Timeout = 2
  None = None
INVARIANTS
  RideCacheTypeOK
  EntryIsRecent
PROPERTIES
  CacheSettles
  ImplementsRegister
