\* Two claims of the code about rows and plans.  TLC stops at a repeated row;
\* with -continue it goes on to a cycle of plans.
CONSTANTS
    InitialPlan <- Plain
    Actions <- Growing
    SkillPlans <- Library
    MAX_PLAN_DEPTH = 4
    K = 2
    MaxIter = 2
    MaxUniquePlans = 3
    RegretThreshold = 1
    RegretWindow = 1
    Scores = {0, 1}
SPECIFICATION Spec
CHECK_DEADLOCK FALSE
INVARIANTS RowsDistinct GraphIsADag
