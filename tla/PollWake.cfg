SPECIFICATION FairSpec
CONSTANTS
    NumRings = 2
    NumVectors = 1
    MaxFlaps = 1
INVARIANTS
    TypeOK
    NoLostWakeup
PROPERTIES
    Woken
