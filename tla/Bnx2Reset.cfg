SPECIFICATION Spec
CONSTANTS
    Page = 4
    Pages = 2
    Word = 16
    Batch = 2
    MaxResvd = 0
    MaxResets = 1
    CleanResets = FALSE
INVARIANTS
    NextEmptyAgrees
