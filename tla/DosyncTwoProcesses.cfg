\* Two processes on one PostgresStore: each has its own store._lock.
SPECIFICATION Spec
CONSTANTS
  t1 = t1  t2 = t2  t3 = t3  t4 = t4  x = x  y = y  z = z
  Refs = {x, y}
  Txns = {t1, t2}
  Swappers = {}
  RawWriters = {}
  TxnRefs = {x, y}
  AtomRefs = {}
  RawRefs = {}
  ProcOf <- TwoProcesses
  SingleShot = {}
  Deadlined = {}
  Audited = {t1, t2}
  MaxRetries = 1
  MaxOps = 2
  MaxIntents = 1
  AssocVals = {7}
  Ticks = {1}
PROPERTY EnsureHolds
