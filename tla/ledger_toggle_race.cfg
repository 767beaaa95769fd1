SPECIFICATION Spec
CONSTANTS
  p1 = p1
  p2 = p2
  d1 = d1
  d2 = d2
  r1 = r1
  r2 = r2
  w1 = w1
  w2 = w2
  Rider = {p1, p2}
  Driver = {d1, d2}
  Ride = {r1, r2}
  Worker = {w1, w2}
  None = None
SYMMETRY Symmetry
INVARIANTS
  BusyDriverOnTrip
