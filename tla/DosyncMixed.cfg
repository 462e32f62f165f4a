\* A dosync caller and the user of an atom on the same reference, and a plain
\* DB.transact elsewhere: every thread comes to an end.
SPECIFICATION FairSpec
CONSTANTS
  t1 = t1  t2 = t2  t3 = t3  t4 = t4  x = x  y = y  z = z
  Refs = {x, z}
  Txns = {t1}
  Swappers = {t2}
  RawWriters = {t3}
  TxnRefs = {x}
  AtomRefs = {x}
  RawRefs = {z}
  ProcOf <- OneProcess
  SingleShot = {}
  Deadlined = {}
  Audited = {}
  MaxRetries = 1
  MaxOps = 2
  MaxIntents = 1
  AssocVals = {7}
  Ticks = {1}
INVARIANTS AtomReadsLatest
PROPERTIES EveryCallEnds
