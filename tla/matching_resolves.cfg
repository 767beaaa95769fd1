SPECIFICATION MCSpec
CONSTANTS
  p1 = p1
  d1 = d1
  r1 = r1
  r2 = r2
  w1 = w1
  s1 = s1
  Rider = {p1}
  Driver = {d1}
  Ride = {r1, r2}
  Worker = {w1, s1}
  Sweeper = {s1}
  None = None
INVARIANTS
  MatchingTypeOK
  ExpiredWasOverdue
PROPERTIES
  AssignedWasOffered
  MatchingResolves
  ImplementsLedger
