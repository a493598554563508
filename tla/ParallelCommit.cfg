SPECIFICATION FairSpec
CONSTANTS
    N = 3
    Batch <- TwoBatches
    TempTable = {2}
    MayFail = {1, 3}
    MaxRetry = 1
    MaxKill = 1
    LateKill = FALSE
CHECK_DEADLOCK FALSE
INVARIANTS
    CommitOrder
    OutcomeIsReported
    WaiterIsListed
PROPERTIES
    EveryoneFinishes
