SPECIFICATION FairSpec
CONSTANTS
  r1 = r1
  r2 = r2
  a = a
  b = b
  c = c
  d = d
  w1 = w1
  w2 = w2
  w3 = w3
  Ride = {r1}
  AlwaysFails = {}
  Ref = {a, b}
  Worker = {w1, w2}
  maxRetries = 3
  Replays = FALSE
  None = None
CHECK_DEADLOCK FALSE
PROPERTIES
  ProcessingEnds
