SPECIFICATION FairSpec
CONSTANTS
    t1 = t1
    t2 = t2
    Thread = {t1, t2}
    NoThread = NoThread
    c1 = c1
    c2 = c2
    Callback = {c1, c2}
    DurableCallback = {c1}
    NoCallback = NoCallback
    DummyCallback = DummyCallback
    CallbackSlots = 0
    Modes = {"flush", "write"}
    MaxStart = 0
    MaxLsn = 1
    MaxStops = 1
PROPERTIES
    CallReturns
    CallbackRuns
