\* One writer that corrects a fact with an earlier date, and forces it.
SPECIFICATION Spec
CONSTANTS
  w1 = w1  w2 = w2  k1 = k1  k2 = k2  a = a  b = b
  Writers = {w1}
  Locked = {}
  Keys = {k1}
  Vals = {a, b}
  Ops = {"assert"}
  Lags = {0, 3}
  Open = {TRUE}
  MaxFacts = 1
  MaxCalls = 2
  Tick = 2
  Batches <- SomeBatches
SYMMETRY Same
INVARIANT CorrectionCloses
