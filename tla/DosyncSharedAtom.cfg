\* Atoms on references that one dosync wrote together.
SPECIFICATION Spec
CONSTANTS
  t1 = t1  t2 = t2  t3 = t3  t4 = t4  x = x  y = y  z = z
  Refs = {x, y}
  Txns = {t1}
  Swappers = {t2, t3}
  RawWriters = {}
  TxnRefs = {x, y}
  AtomRefs = {x, y}
  RawRefs = {}
  ProcOf <- OneProcess
  SingleShot = {}
  Deadlined = {}
  Audited = {}
  MaxRetries = 1
  MaxOps = 2
  MaxIntents = 1
  AssocVals = {7}
  Ticks = {1}
INVARIANT AtomReadsLatest
