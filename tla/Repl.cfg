\* Two operators who share a token, clients that leave, one restart.
SPECIFICATION Spec
CONSTANTS
  c1 = c1  c2 = c2
  Conns = {c1, c2}
  Tokens = {"tok"}
  Past = {"t1"}
  MaxDepth = 1
  RingSize = 1
  Ticks = {1}
  MaxRequests = 4
  MaxLives = 2
SYMMETRY SameConns
INVARIANTS SessionsApart StoredInChainOrder OneEntryPerAnswer
