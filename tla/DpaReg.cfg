SPECIFICATION FairSpec
CONSTANTS
    Threads = {t1, t2}
    Files = {f1, f2, f3}
    NumRings = 2
    NumObjs = 2
    Tries = 2
    Word = 3
    Overlaps = FALSE
INVARIANTS
    TypeOK
    RefsAgree
    RegisteredCanReceive
    PoolExact
    NothingLeft
    NoUseAfterFree
PROPERTIES
    EveryCallReturns
