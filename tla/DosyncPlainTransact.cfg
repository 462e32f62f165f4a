\* A plain DB.transact on a reference that a dosync body reads.
SPECIFICATION Spec
CONSTANTS
  t1 = t1  t2 = t2  t3 = t3  t4 = t4  x = x  y = y  z = z
  Refs = {x, y}
  Txns = {t1}
  Swappers = {}
  RawWriters = {t3}
  TxnRefs = {x, y}
  AtomRefs = {}
  RawRefs = {x}
  ProcOf <- OneProcess
  SingleShot = {}
  Deadlined = {}
  Audited = {}
  MaxRetries = 1
  MaxOps = 2
  MaxIntents = 1
  AssocVals = {7}
  Ticks = {1}
PROPERTY EnsureHolds
