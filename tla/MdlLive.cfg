SPECIFICATION FairSpec
CONSTANTS
    a = a
    b = b
    c1 = c1
    c2 = c2
    c3 = c3
    NoCtx = NoCtx
    Ctx = {c1, c2, c3}
    Table = {a}
    Schema = {}
    Backup = {}
    Lane = {}
    ThreadLane <- NoLanes
    Requests <- Hogs
    Upgrades = {}
    Downgrades = {}
    Impatient = {}
    Disconnecting = {c1}
    MaxTickets = 1
    MAX_SEARCH_DEPTH = 4
    MaxOverweight = 0
    max_write_lock_count = 1
    MaxHogs = 1
    CounterRange = 8
INVARIANTS
    GrantedCompatible
PROPERTIES
    EveryWaitEnds
