SPECIFICATION FairSpec
CONSTANT Overlaps = {}
INVARIANTS
    TypeOK
    RightRing
PROPERTIES
    EveryCallEnds
