\* One process that writes the same entity and attribute twice.
SPECIFICATION Spec
CONSTANTS
  c1 = c1  c2 = c2  c3 = c3  p1 = p1  p2 = p2  k1 = k1
  Clients = {c1}
  ProcOf <- One
  Known <- Alone
  Batches <- Facts
  PoolMax = 1
  MaxRetries = 1
  LockTimeouts = FALSE
  MaxCalls = 2
  MaxCrashes = 0
INVARIANT UniqueNeverFires
