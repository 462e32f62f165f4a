CONSTANTS
    N = 3
    MaxIvs = 1
    MaxExtra = 1
    MaxReplays = 2
SPECIFICATION Spec
CHECK_DEADLOCK FALSE
INVARIANTS RecordKept WorldTouchedOnce CacheHonest
