\* paging.c:72, 78, 108
SPECIFICATION Spec
CONSTANTS
    Bits = 2
    Bytes = 18
    IndexMod = 12
    Entries = 6
    Image <- MCImage
    KernelHeap <- MCKernelHeap
    Vga <- MCVga
    StackPages <- MCStack
    HeapPage = 22
    HeapTop = 23
    Procs = {p1}
    Alive = alive
    Reuse = TRUE
    Garbage <- Leftovers
    Nobody = nobody
    Absent = absent
INVARIANT ReservedStaysTaken
CHECK_DEADLOCK FALSE
