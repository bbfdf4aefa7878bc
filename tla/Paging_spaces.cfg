\* Three processes: their address spaces are built, switched and freed.
SPECIFICATION Spec
CONSTANTS
    Bits = 2
    Bytes = 32
    IndexMod = 12
    Entries = 8
    Image <- MCImage
    KernelHeap <- MCKernelHeap
    Vga <- MCVga
    StackPages <- MCStack
    HeapPage = 38
    HeapTop = 41
    Procs = {p1, p2, p3}
    Alive = alive
    Reuse = FALSE
    Garbage <- Leftovers
    Nobody = nobody
    Absent = absent
INVARIANT TypeOK
INVARIANT FramesHaveOneUse
 
INVARIANT NothingLeaks
INVARIANT FirstIsLowest
INVARIANT CurrentSpace
CHECK_DEADLOCK FALSE
