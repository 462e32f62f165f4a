\* One writer whose lists have facts that the caller closes with valid_to.
SPECIFICATION Spec
CONSTANTS
  w1 = w1  w2 = w2  k1 = k1  k2 = k2  a = a  b = b
  Writers = {w1}
  Locked = {w1}
  Keys = {k1}
  Vals = {a}
  Ops = {"assert"}
  Lags = {0, 1, 2}
  Open = {TRUE, FALSE}
  MaxFacts = 3
  MaxCalls = 1
  Tick = 4
  Batches <- SomeBatches
SYMMETRY Same
INVARIANT BatchEquivalent
