SPECIFICATION StreamSpec
CONSTANTS
  w1 = w1
  w2 = w2
  w3 = w3
  c1 = c1
  c2 = c2
  Worker = {w1, w2, w3}
  Client = {c1, c2}
  MaxVersion = 4
  None = None
CHECK_DEADLOCK FALSE
SYMMETRY Symmetry
INVARIANTS
  EventsTypeOK
  ViewFollows
