SPECIFICATION Spec
CONSTANTS
    N = 4
    Batch = 2
    MaxPkts = 5
    MaxResets = 1
    MaxCrashes = 1
    MaxResvd = 0
    MaxFaults = 1
    Drains = TRUE
INVARIANTS
    IInv
    ReleasedWereDelivered
CHECK_DEADLOCK FALSE
