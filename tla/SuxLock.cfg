CONSTANTS
    t1 = t1
    t2 = t2
    t3 = t3
    t4 = t4
    Thread = {t1, t2, t3, t4}
    NoThread = NoThread
    FOR_IO = FOR_IO
    RECURSIVE_U = 8
    MaxDepth = 6
SPECIFICATION Spec
INVARIANTS
    OwnerIsRight
    RecursiveCounts
    UnlockMatches
    MemosExclude
