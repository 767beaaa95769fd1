SPECIFICATION FairPresenceSpec
CONSTANTS
  p1 = p1
  p2 = p2
  d1 = d1
  r1 = r1
  r2 = r2
  w1 = w1
  w2 = w2
  Rider = {p1}
  Driver = {d1}
  Ride = {r1}
  Worker = {w1, w2}
  None = None
  MaxFlushes = 1
  CutsShort = TRUE
INVARIANTS
  PresenceTypeOK
  MirrorsFollowRows
PROPERTIES
  AvailableIsFound
