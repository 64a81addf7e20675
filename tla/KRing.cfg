SPECIFICATION FairSpec
CONSTANTS
    N = 4
    Batch = 2
    MaxPkts = 5
    MaxResets = 2
    MaxCrashes = 1
    MaxResvd = 1
    MaxFaults = 0
    Drains = TRUE
INVARIANTS
    TypeOK
    IndexAgree
    NicNeverWritesInUse
    DescriptorsConserved
    InOrder
    ExactlyOnce
PROPERTIES
    RxSpec
    AllDelivered
    NicFedAgain
CHECK_DEADLOCK FALSE
