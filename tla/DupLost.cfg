SPECIFICATION Spec
CONSTANTS
    N = 4
    Batch = 3
    MaxPkts = 7
    MaxRestarts = 0
    LoadsTear = TRUE
INVARIANTS
    LostAreCounted
CHECK_DEADLOCK FALSE
