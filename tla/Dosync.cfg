\* Two dosync callers that may run into each other on two references; one
\* of them uses the with-form, which does not retry.
SPECIFICATION Spec
CONSTANTS
  t1 = t1  t2 = t2  t3 = t3  t4 = t4  x = x  y = y  z = z
  Refs = {x, y}
  Txns = {t1, t2}
  Swappers = {}
  RawWriters = {}
  TxnRefs = {x, y}
  AtomRefs = {}
  RawRefs = {}
  ProcOf <- OneProcess
  SingleShot = {t2}
  Deadlined = {t1}
  Audited = {t1}
  MaxRetries = 1
  MaxOps = 2
  MaxIntents = 1
  AssocVals = {7}
  Ticks = {1}
SYMMETRY SameRefs
INVARIANTS TypeOK SnapshotStable AllOrNothing EffectsFollowCommit RetriesArePaidFor NeverRetroactive
PROPERTIES SerialSpec EnsureHolds
