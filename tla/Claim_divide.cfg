\* heap.c:211
SPECIFICATION Spec
CONSTANTS
    Hdr = 1
    Page = 6
    Word = 1000
    StartSize = 5
    Limit = 12
    Sizes <- MCSizes
    None = none
INVARIANT DivisionFits
CHECK_DEADLOCK FALSE
