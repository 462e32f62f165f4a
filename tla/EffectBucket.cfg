\* Two threads that share a token bucket.
SPECIFICATION Spec
CONSTANTS
  p1 = p1  p2 = p2
  Threads = {p1, p2}
  Ops = {"llm"}
  Args = {"a"}
  Stacks <- Bucket
  Wraps <- WrapAll
  Rules <- Permissive
  Mode = "dry-run"
  Mocks = {"tool"}
  AllowLive = {}
  Addressed = {}
  MaskSets = {}
  Commits = {}
  MaxAttempts = 1
  Backoff = 1
  Jitters = {0}
  Capacity = 1
  TokenCost = 1
  HasSink = FALSE
  MaxCalls = 3
  MaxMasks = 0
  MaxTime = 2
SYMMETRY SameThreads
INVARIANT NeverDoubleSpent
