CONSTANTS
    Sessions = {"full"}
    Memories = {m, n}
    Granted <- OneToken
    Attempted = {"remember"}
    MaxK = 2
    ReplayLimit = 1
    ReplayWindow = 1
    MaxWindow = 3
    MaxTime = 1
    MaxEntries = 3
    MaxForeign = 1
    Checks <- Pairs
SPECIFICATION Spec
CHECK_DEADLOCK FALSE
INVARIANTS ForgottenStaysForgotten
