SPECIFICATION Spec
CONSTANTS
    a = a
    b = b
    c1 = c1
    c2 = c2
    c3 = c3
    NoCtx = NoCtx
    Ctx = {c1, c2, c3}
    Table = {}
    Schema = {}
    Backup = {b}
    Lane = {0, 1}
    ThreadLane <- TwoLanes
    Requests <- BackupServer
    Upgrades <- BackupUp
    Downgrades <- BackupDown
    Impatient = {}
    Disconnecting = {}
    MaxTickets = 2
    MAX_SEARCH_DEPTH = 4
    MaxOverweight = 0
    max_write_lock_count = 1000
    MaxHogs = 0
    CounterRange = 8
INVARIANTS
    LanesClosed
    CloneMovesNothing
PROPERTIES
    GrantsCompatible
