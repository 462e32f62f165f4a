\* One writer whose valid_from values may tie with those in the log.
SPECIFICATION Spec
CONSTANTS
  w1 = w1  w2 = w2  k1 = k1  k2 = k2  a = a  b = b
  Writers = {w1}
  Locked = {w1}
  Keys = {k1}
  Vals = {a, b}
  Ops = {"assert"}
  Lags = {0, 1}
  Open = {TRUE}
  MaxFacts = 1
  MaxCalls = 3
  Tick = 1
  Batches <- OrTwice
SYMMETRY Same
INVARIANT NewestStaysVisible
