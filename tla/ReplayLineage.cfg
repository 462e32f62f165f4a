CONSTANTS
    N = 2
    MaxIvs = 2
    MaxExtra = 0
    MaxReplays = 1
SPECIFICATION Spec
CHECK_DEADLOCK FALSE
INVARIANT LineageIsApplied
