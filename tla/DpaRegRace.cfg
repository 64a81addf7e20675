SPECIFICATION Spec
CONSTANTS
    Threads = {t1, t2}
    Files = {f1, f2}
    NumRings = 2
    NumObjs = 2
    Tries = 2
    Word = 4
    Overlaps = TRUE
INVARIANTS
    RegisteredCanReceive
