SPECIFICATION Spec
CONSTANTS
    N = 2
    Batch <- OneBatch
    TempTable = {}
    MayFail = {1}
    MaxRetry = 1
    MaxKill = 1
    LateKill = TRUE
CHECK_DEADLOCK FALSE
INVARIANTS
    RolledBackNotLogged
