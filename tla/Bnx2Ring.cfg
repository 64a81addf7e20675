SPECIFICATION FairSpec
CONSTANTS
    Page = 4
    Pages = 2
    Word = 16
    Batch = 2
    MaxResvd = 1
    MaxResets = 1
    CleanResets = TRUE
INVARIANTS
    TypeOK
    NextEmptyAgrees
    NicNeverWritesInUse
    NicHasTheRest
    InOrder
PROPERTIES
    Delivered
