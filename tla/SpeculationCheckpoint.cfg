\* A fold that commits after every item, where some items have no facts.
SPECIFICATION Spec
CONSTANTS
  N = 2
  Intervals = {0}
  MaxFolds = 1
  MaxBodies = 0
  MaxForks = 0
  MaxRetries = 0
CHECK_DEADLOCK FALSE
INVARIANT CheckpointEveryItem
