\* The process table and the queues of up to three processes on one heap.
SPECIFICATION Spec
CONSTANTS
    Hdr = 1
    Page = 26
    Word = 64
    StartSize = 25
    Limit = 26
    None = None
    MinCap = 1
    TableCap = 2
    v1 = v1
    v2 = v2
    Values <- TwoValues
    Junk = Junk
    MaxUid = 3
    MaxLen = 3
SYMMETRY Symmetry
INVARIANT BuffersOwned
INVARIANT InsideCapacity
PROPERTY KeepsMail
CHECK_DEADLOCK FALSE
