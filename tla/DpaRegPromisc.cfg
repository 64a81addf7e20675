SPECIFICATION Spec
CONSTANTS
    Threads = {t1}
    Files = {f1}
    NumRings = 2
    NumObjs = 2
    Tries = 2
    Word = 4
    Overlaps = FALSE
INVARIANTS
    NormalMode
