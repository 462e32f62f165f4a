\* Three threads, two of them in one process with a pool of one connection;
\* the other process is a newer release with one more migration.
SPECIFICATION FairSpec
CONSTANTS
  c1 = c1  c2 = c2  c3 = c3  p1 = p1  p2 = p2  k1 = k1
  Clients = {c1, c2, c3}
  ProcOf <- Three
  Known <- Newer
  Batches <- Normal
  PoolMax = 1
  MaxRetries = 1
  LockTimeouts = TRUE
  MaxCalls = 2
  MaxCrashes = 1
INVARIANTS SchemaReady ChainUnbroken
PROPERTIES LogSpec EveryCallEnds
