CONSTANTS
    Servers = {s1}
    Callers = {c1, c2}
    Libraries = {l1, l2}
    Plans = {"p"}
    MinCount = 1
    Epsilon = 1
    Windows <- Windows1
    Grain = 4
    MaxTime = 4
    MaxEntries = 3
SYMMETRY Symmetric
SPECIFICATION Spec
CHECK_DEADLOCK FALSE
INVARIANTS SkillsEarned VerdictSound LibraryFollowsStore
