SPECIFICATION Spec
CONSTANTS
    Ifs = {"i1", "i2"}
    NumRings = 2
    Descs = {1, 2}
    IfObjs = {3}
    RingObjs = {3, 4}
    BufObjs = {4, 5}
    Stale = FALSE
    Races = FALSE
INVARIANTS
    TypeOK
    Exclusive
    NothingLost
