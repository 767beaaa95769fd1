SPECIFICATION Spec
CONSTANTS
  r1 = r1
  r2 = r2
  a = a
  b = b
  c = c
  d = d
  w1 = w1
  w2 = w2
  w3 = w3
  Ride = {r1, r2}
  AlwaysFails = {r2}
  Ref = {a, b, c, d}
  Worker = {w1, w2, w3}
  maxRetries = 3
  Replays = TRUE
  None = None
CHECK_DEADLOCK FALSE
SYMMETRY Symmetry
INVARIANTS
  PaymentsTypeOK
  ChargedOnce
  SettledByItsCharge
  ReceiptIffPaid
  RetriesCounted
