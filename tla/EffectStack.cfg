\* Two threads on one stack in the canonical order.
SPECIFICATION Spec
CONSTANTS
  p1 = p1  p2 = p2
  Threads = {p1, p2}
  Ops = {"llm", "tool"}
  Args = {"a", "b"}
  Stacks <- Canonical
  Wraps <- WrapAll
  Rules <- Bankability
  Mode = "dry-run"
  Mocks = {"tool"}
  AllowLive = {}
  Addressed = {"cache"}
  MaskSets = {{"audit"}}
  Commits = {"commit"}
  MaxAttempts = 2
  Backoff = 1
  Jitters = {0}
  Capacity = 1
  TokenCost = 1
  HasSink = TRUE
  MaxCalls = 2
  MaxMasks = 1
  MaxTime = 0
SYMMETRY SameThreads
INVARIANTS PaidOrRemembered AuditComplete LogFaithfulUnlessRaced GateHolds
