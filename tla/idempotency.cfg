SPECIFICATION IdempotencySpec
CONSTANTS
  b1 = b1
  b2 = b2
  w1 = w1
  w2 = w2
  w3 = w3
  Worker = {w1, w2, w3}
  Body = {b1, b2}
  None = None
  MaxRequests = 5
CHECK_DEADLOCK FALSE
SYMMETRY Symmetry
INVARIANTS
  IdempotencyTypeOK
  SameAnswer
  AnswersAreTrue
