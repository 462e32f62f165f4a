CONSTANTS
    Sessions = {"full", "limited"}
    Memories = {m, n}
    Granted <- Tokens
    Attempted = {"remember"}
    MaxK = 2
    ReplayLimit = 1
    ReplayWindow = 1
    MaxWindow = 3
    MaxTime = 1
    MaxEntries = 3
    MaxForeign = 1
    Checks <- Pairs
SYMMETRY Symmetric
SPECIFICATION Spec
CHECK_DEADLOCK FALSE
INVARIANTS AuditAgrees RecallComplete ReplaySound
PROPERTIES SubscriberHears
