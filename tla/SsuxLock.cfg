SPECIFICATION FairSpec
CONSTANTS
    t1 = t1
    t2 = t2
    t3 = t3
    Thread = {t1, t2, t3}
    WRITER = 8
INVARIANTS
    Exclusion
    WordsCount
    NoLostWakeup
PROPERTIES
    ImplementsLatch
    WriterEnters
