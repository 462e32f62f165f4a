\* A fold of three items beside a dosync whose body forks into three branches.
SPECIFICATION FairSpec
CONSTANTS
  N = 3
  Intervals = {0, 2}
  MaxFolds = 1
  MaxBodies = 1
  MaxForks = 1
  MaxRetries = 1
CHECK_DEADLOCK FALSE
INVARIANTS FoldSound ForkSound
PROPERTIES FoldEnds
