\* One writer that also retracts what it asserted.
SPECIFICATION Spec
CONSTANTS
  w1 = w1  w2 = w2  k1 = k1  k2 = k2  a = a  b = b
  Writers = {w1}
  Locked = {}
  Keys = {k1}
  Vals = {a, b}
  Ops = {"assert", "retract"}
  Lags = {0, 2}
  Open = {TRUE}
  MaxFacts = 1
  MaxCalls = 3
  Tick = 2
  Batches <- SomeBatches
SYMMETRY Same
INVARIANT ProjectionMirrors
