SPECIFICATION TripsSpec
CONSTANTS
  p1 = p1
  d1 = d1
  r1 = r1
  w1 = w1
  w2 = w2
  Rider = {p1}
  Driver = {d1}
  Ride = {r1}
  Worker = {w1, w2}
  None = None
  Rates <- MCRates
  Quote <- MCQuote
  Second = 60
  Delta = 150
  MaxTime = 2
  MaxMetres = 300
  MaxCodes = 2
CHECK_DEADLOCK FALSE
SYMMETRY Symmetry
VIEW View
INVARIANTS
  TripsTypeOK
  MeteredIsBilled
  PausesAreFree
  NoPauseInvented
  StartedWithItsOTP
  QuoteIsKept
