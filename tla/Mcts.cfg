CONSTANTS
    InitialPlan <- Plain
    Actions <- Growing
    SkillPlans <- Library
    MAX_PLAN_DEPTH = 4
    K = 2
    MaxIter = 4
    MaxUniquePlans = 4
    RegretThreshold = 1
    RegretWindow = 1
    Scores = {0, 1}
SPECIFICATION FairSpec
CHECK_DEADLOCK FALSE
INVARIANTS TreeSound RowsSound
PROPERTIES SearchEnds
