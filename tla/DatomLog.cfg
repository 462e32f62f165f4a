\* Two writers that race on the same keys, one of them inside store._lock,
\* with retroactive dates, refused or forced; valid_from values never tie.
SPECIFICATION Spec
CONSTANTS
  w1 = w1  w2 = w2  k1 = k1  k2 = k2  a = a  b = b
  Writers = {w1, w2}
  Locked = {w2}
  Keys = {k1, k2}
  Vals = {a}
  Ops = {"assert"}
  Lags = {0, 3}
  Open = {TRUE}
  MaxFacts = 2
  MaxCalls = 3
  Tick = 2
  Batches <- SomeBatches
SYMMETRY Same
INVARIANTS LogWellFormed NewestStaysVisible PathsAgree
