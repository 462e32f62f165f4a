\* Two operators whose clients may leave while an answer is being sent.
SPECIFICATION Spec
CONSTANTS
  c1 = c1  c2 = c2
  Conns = {c1, c2}
  Tokens = {"tok"}
  Past = {"t1"}
  MaxDepth = 1
  RingSize = 1
  Ticks = {1}
  MaxRequests = 3
  MaxLives = 1
SYMMETRY SameConns
INVARIANT EveryOpAudited
