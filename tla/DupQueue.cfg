SPECIFICATION FairSpec
CONSTANTS
    N = 4
    Batch = 3
    MaxPkts = 6
    MaxRestarts = 1
    LoadsTear = FALSE
INVARIANTS
    TypeOK
    NoOverrun
    ReadsWhatWasWritten
    DropsOnlyWhenFull
    CountersAgree
PROPERTIES
    FifoSpec
    AllRead
CHECK_DEADLOCK FALSE
