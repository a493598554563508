SPECIFICATION Spec
CONSTANTS
    Trx = {t1, t2}
    InnoDB = {t1, t2}
    Legacy = {t2}
    Bg = Bg
    Adm = Adm
    None = None
    MaxFile = 3
    MaxFlush = 2
    MaxCrash = 1
CHECK_DEADLOCK FALSE
INVARIANTS
    LoggedIsRecoverable
    EntryStays
    NoStall
PROPERTIES
    ImplementsOutcome
