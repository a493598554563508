SPECIFICATION Spec
CONSTANTS
    t1 = t1
    t2 = t2
    Thread = {t1, t2}
    NoThread = NoThread
    c1 = c1
    Callback = {c1}
    DurableCallback = {c1}
    NoCallback = NoCallback
    DummyCallback = DummyCallback
    CallbackSlots = 1
    Modes = {"flush", "write"}
    MaxStart = 0
    MaxLsn = 2
    MaxStops = 1
SYMMETRY Symmetry
INVARIANTS
    FlushedIsDurable
    AnsweredMeansWritten
    AssertionsHold
    NoStall
