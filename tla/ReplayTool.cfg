CONSTANTS
    N = 2
    MaxIvs = 1
    MaxExtra = 0
    MaxReplays = 1
SPECIFICATION Spec
CHECK_DEADLOCK FALSE
INVARIANT EveryDomainAligned
