CONSTANTS
    Servers = {s1}
    Callers = {c1, c2}
    Libraries = {l1, l2}
    Plans = {"p"}
    MinCount = 1
    Epsilon = 1
    Windows <- Windows1
    Grain = 1
    MaxTime = 2
    MaxEntries = 3
SYMMETRY Symmetric
SPECIFICATION Spec
CHECK_DEADLOCK FALSE
INVARIANT WholeRunPasses
