SPECIFICATION FairSpec
CONSTANTS
    a1 = a1
    a2 = a2
    r1 = r1
    r2 = r2
    Archive = {a1, a2}
    Caller = {r1, r2}
    NumItems = 1
    NoOne = NoOne
    Spurious = TRUE
    MaxCalls = 3
CHECK_DEADLOCK FALSE
INVARIANTS
    TypeOK
    NoLostWakeup
    NoStaleCondVar
    ThreadsKeepLibrary
PROPERTIES
    EveryCallReturns
    EveryThreadEnds
    ImplementsSerialExtraction
