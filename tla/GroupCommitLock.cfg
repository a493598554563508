SPECIFICATION Spec
CONSTANTS
    t1 = t1
    t2 = t2
    t3 = t3
    c1 = c1
    Thread = {t1, t2, t3}
    NoThread = NoThread
    Callback = {c1}
    NoCallback = NoCallback
    DummyCallback = DummyCallback
    MaxValue = 2
    CallbackSlots = 1
SYMMETRY Symmetry
INVARIANTS
    OneOwner
    ExpiredIsReached
    CallbackNotEarly
    CallbackConserved
    SleeperHasOneWaker
    NoStall
