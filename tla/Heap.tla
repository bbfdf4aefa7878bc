-------------------------------- MODULE Heap --------------------------------
(***************************************************************************)
(* The heap of a process, core/memory/heap.c.  Blocks follow each other    *)
(* from the start of the heap, each behind its header; the headers are in  *)
(* the memory that is handed out.  The kernel's own heap is the same code  *)
(* with a first block larger than a page (StartSize).                      *)
(*                                                                         *)
(* Addresses are offsets from the start of the heap.  The operations on    *)
(* the heap of a process are system calls, which run with interrupts off:  *)
(* one action each.  On the kernel's heap process_start works with         *)
(* interrupts on; Arrays takes its operations apart.                       *)
(***************************************************************************)
EXTENDS Integers, FiniteSets, FiniteSetsExt

CONSTANTS
    Hdr,        \* 16: sizeof(heap_block_t)
    Page,       \* 4096: PAGE_SIZE
    Word,       \* 2^32: the values of size_t
    StartSize,  \* size of the first block: a page less its header, or 45 MB
    Limit,      \* bound: the address no heap grows beyond
    Sizes,      \* requests: multiples of Hdr, as Hdr is the unit of the runs
    None        \* the null pointer

Addr == 0..Limit
Size == 0..(Word - 1)

ASSUME SizeAssumption ==
    /\ Hdr \in Nat \ {0} /\ Page \in Nat \ {0} /\ Limit \in Nat /\ Word \in Nat
    /\ StartSize \in 1..(Limit - Hdr) /\ Limit < Word
    /\ Sizes \subseteq Addr /\ None \notin Addr

Header == [allocated : BOOLEAN, before : Addr \union {None}, size : Size]

ASSUME NoneAssumption == None \notin Header

(* hdr[a] is None where the magic number is missing.                       *)
HeapState ==
    [hdr : [Addr -> Header \union {None}], size : Addr, used : Size,
     top : Addr, first : Addr]

VARIABLES
    heap,       \* heap_context_t and the headers it leads to
    live,       \* the pointers its user holds, and the sizes asked for
    lost,       \* a reallocation copied less than it should
    halted      \* "panic": kpanic; "loop": heap_allocate calls itself forever;
                \* "overrun": a block was divided beyond its end.  The code goes
                \* on, with a broken heap: bound, the model stops there

vars == <<heap, live, lost, halted>>

-----------------------------------------------------------------------------
(* Walking the blocks.                                                     *)

Blocks(h) == {a \in Addr : h.hdr[a] # None}
Following(h, b) == (b + Hdr + h.hdr[b].size) % Word
Valid(h, b) == b < h.size /\ h.hdr[b] # None
Free(h, b) == ~h.hdr[b].allocated

(* get_next_free_block.                                                    *)
NextFree(h, b) ==
    LET search[a \in Blocks(h)] ==
        LET n == Following(h, a) IN
        IF ~Valid(h, n) THEN None ELSE IF Free(h, n) THEN n ELSE search[n]
    IN  search[b]

(* The loop of heap_allocate: the first free block that is large enough.   *)
FirstFit(h, n) ==
    LET search[b \in Blocks(h)] ==
        IF Free(h, b) /\ h.hdr[b].size >= n THEN b
        ELSE LET c == NextFree(h, b) IN IF c = None THEN None ELSE search[c]
    IN  search[h.first]

-----------------------------------------------------------------------------
(* Allocation.                                                             *)

(* What is left of block b, in the unsigned arithmetic of the code.        *)
Rest(h, b, n) == (h.hdr[b].size - n - Hdr) % Word

(* Mutant: the new header does not allow for that of the divided block.    *)
DivideInside(h, b, n) ==
    LET new == b + n
        g == [h EXCEPT !.hdr[new] =
                           [allocated |-> FALSE, before |-> b, size |-> Rest(h, b, n)],
                       !.hdr[b].size = n,
                       !.used = (@ + Hdr) % Word,
                       !.first = IF @ = b THEN new ELSE @,
                       !.top = IF new > @ THEN new ELSE @]
        next == Following(g, new)
    IN  IF Valid(g, next) THEN [g EXCEPT !.hdr[next].before = new] ELSE g

(* Mutant: the block behind the new one still points to the divided one.   *)
DivideUnlinked(h, b, n) ==
    LET new == b + Hdr + n IN
    [h EXCEPT !.hdr[new] = [allocated |-> FALSE, before |-> b, size |-> Rest(h, b, n)],
              !.hdr[b].size = n,
              !.used = (@ + Hdr) % Word,
              !.first = IF @ = b THEN new ELSE @,
              !.top = IF new > @ THEN new ELSE @]

Divide(h, b, n) ==
    LET new == b + Hdr + n
        g == [h EXCEPT !.hdr[new] =
                           [allocated |-> FALSE, before |-> b, size |-> Rest(h, b, n)],
                       !.hdr[b].size = n,
                       !.used = (@ + Hdr) % Word,
                       !.first = IF @ = b THEN new ELSE @,
                       !.top = IF new > @ THEN new ELSE @]
        next == Following(g, new)
    IN  IF Valid(g, next) THEN [g EXCEPT !.hdr[next].before = new] ELSE g

Take(h, b) == [h EXCEPT !.hdr[b].allocated = TRUE, !.used = (@ + h.hdr[b].size) % Word]

(* The parts of block b, divided for n bytes, do not fit in it.            *)
Overruns(h, b, n) == Rest(h, b, n) > 0 /\ h.hdr[b].size < n + Hdr

(* Mutant: the free block behind the first one is not checked.             *)
PlaceUnchecked(h, b, n) ==
    LET g == IF Rest(h, b, n) > 0 THEN Divide(h, b, n)
             ELSE IF h.first = b THEN [h EXCEPT !.first = NextFree(h, b)]
             ELSE h
    IN  [halt |-> IF Overruns(h, b, n) THEN "overrun" ELSE "no",
         ptr |-> b + Hdr, heap |-> Take(g, b)]

(* Block b is handed out, divided if something is left of it.  If not, and *)
(* it was the first free one, another free one must be found behind it.    *)
Place(h, b, n) ==
    LET divided == Rest(h, b, n) > 0
        g == IF divided THEN Divide(h, b, n)
             ELSE IF h.first = b /\ NextFree(h, b) # None THEN [h EXCEPT !.first = NextFree(h, b)]
             ELSE h
    IN  IF ~divided /\ h.first = b /\ NextFree(h, b) = None
        THEN [halt |-> "panic", ptr |-> None, heap |-> h]
        ELSE [halt |-> IF Overruns(h, b, n) THEN "overrun" ELSE "no",
              ptr |-> b + Hdr, heap |-> Take(g, b)]

(* expand: pages are added to the top block until the heap's size exceeds  *)
(* what is used and asked for.                                             *)
Growth(h, n) ==
    IF h.used + n < h.size THEN 0 ELSE ((h.used + n - h.size) \div Page + 1) * Page
Expand(h, n) ==
    [h EXCEPT !.hdr[h.top].size = @ + Growth(h, n), !.size = @ + Growth(h, n)]

(* heap_allocate.  After one expansion there is room in total, and further *)
(* ones change nothing: if no block is large enough it recurs for ever.    *)
Allocate(h, n) ==
    LET e == Expand(h, n) IN
    IF n = 0 THEN [halt |-> "no", ptr |-> None, heap |-> h]
    ELSE IF FirstFit(h, n) # None THEN Place(h, FirstFit(h, n), n)
    ELSE IF FirstFit(e, n) # None THEN Place(e, FirstFit(e, n), n)
    ELSE [halt |-> "loop", ptr |-> None, heap |-> e]

-----------------------------------------------------------------------------
(* Freeing.                                                                *)

(* Mutant: the header that disappears still counts as used.                *)
AbsorbUncounted(h, b) ==
    LET n == Following(h, b)
        m == Following(h, n)
        linked == IF Valid(h, m) THEN [h EXCEPT !.hdr[m].before = b] ELSE h
    IN  IF ~(Valid(h, n) /\ Free(h, n)) THEN h
        ELSE [linked EXCEPT !.hdr[b].size = (@ + Hdr + h.hdr[n].size) % Word,
                            !.hdr[n] = None,
                            !.top = IF @ = n THEN b ELSE @]

(* The first half of merge_empty_blocks: the next block, if free, becomes  *)
(* part of this one.                                                       *)
Absorb(h, b) ==
    LET n == Following(h, b)
        m == Following(h, n)
        linked == IF Valid(h, m) THEN [h EXCEPT !.hdr[m].before = b] ELSE h
    IN  IF ~(Valid(h, n) /\ Free(h, n)) THEN h
        ELSE [linked EXCEPT !.hdr[b].size = (@ + Hdr + h.hdr[n].size) % Word,
                            !.hdr[n] = None,
                            !.used = (@ - Hdr) % Word,
                            !.top = IF @ = n THEN b ELSE @]

(* Mutant: a block is merged with the next one only.                       *)
MergeForward(h, b) == [heap |-> Absorb(h, b), block |-> b]

(* merge_empty_blocks: and on to the block before, as long as it is free.  *)
Merge(h, b) ==
    LET merged[s \in {s \in [heap : HeapState, block : Addr] : s.block \in Blocks(s.heap)}] ==
        LET g == Absorb(s.heap, s.block)
            before == s.heap.hdr[s.block].before
        IN  IF before # None /\ g.hdr[before] # None /\ Free(g, before)
            THEN merged[[heap |-> g, block |-> before]]
            ELSE [heap |-> g, block |-> s.block]
    IN  merged[[heap |-> h, block |-> b]]

(* heap_free of a pointer into the heap; get_block refuses the others.     *)
Release(h, p) ==
    LET b == p - Hdr
        m == Merge([h EXCEPT !.hdr[b].allocated = FALSE, !.used = (@ - h.hdr[b].size) % Word], b)
    IN  IF ~Valid(h, b) THEN h
        ELSE [m.heap EXCEPT !.first = IF m.block < @ THEN m.block ELSE @]

-----------------------------------------------------------------------------
(* heap_create.                                                            *)
Created ==
    [hdr |-> [a \in Addr |->
         IF a = 0 THEN [allocated |-> FALSE, before |-> None, size |-> StartSize]
         ELSE None],
     size |-> Page, used |-> Hdr, top |-> 0, first |-> 0]

Init ==
    /\ heap = Created
    /\ live = <<>>
    /\ lost = FALSE
    /\ halted = "no"

(* The requests that are made: those for which the heap is large enough.   *)
Bounded(n) ==
    /\ halted = "no"
    /\ FirstFit(heap, n) = None => Expand(heap, n).size <= Limit

With(p, n) == [q \in DOMAIN live \union ({p} \ {None}) |-> IF q = p THEN n ELSE live[q]]
Without(f, p) == [q \in DOMAIN f \ {p} |-> f[q]]

(* The system call allocate, and malloc of the kernel.                     *)
Malloc(n) ==
    LET r == Allocate(heap, n) IN
    /\ Bounded(n)
    /\ heap' = r.heap /\ halted' = r.halt
    /\ live' = IF r.halt = "no" THEN With(r.ptr, n) ELSE live
    /\ UNCHANGED lost

(* The system call free, and free of the kernel.                           *)
FreePtr(p) ==
    /\ halted = "no"
    /\ heap' = Release(heap, p)
    /\ live' = Without(live, p)
    /\ UNCHANGED <<lost, halted>>

(* Mutant: the copy has the size of the smaller header, not of the block.  *)
CopiedShort(h, p, n) == IF ~Valid(h, p - Hdr) THEN 0 ELSE Min({n, h.hdr[p - Hdr].size}) - Hdr

(* What heap_reallocate copies: nothing from a block it does not accept.   *)
Copied(h, p, n) == IF ~Valid(h, p - Hdr) THEN 0 ELSE Min({n, h.hdr[p - Hdr].size})

(* The system call reallocate, and realloc of the kernel: allocate, copy,  *)
(* free; a block that is not accepted is not freed either.                 *)
Realloc(p, n) ==
    LET r == Allocate(heap, n) IN
    /\ Bounded(n)
    /\ halted' = r.halt
    /\ heap' = IF r.halt = "no" THEN Release(r.heap, p) ELSE r.heap
    /\ live' = IF r.halt = "no" THEN Without(With(r.ptr, n), p) ELSE live
    /\ lost' = (lost \/ (r.halt = "no" /\ Copied(heap, p, n) < Min({n, live[p]})))

Next ==
    \/ \E n \in Sizes : Malloc(n)
    \/ \E p \in DOMAIN live : FreePtr(p)
    \/ \E p \in DOMAIN live, n \in Sizes : Realloc(p, n)

Spec == Init /\ [][Next]_vars

-----------------------------------------------------------------------------
(* Properties.                                                             *)

Payload(p) == p..(p + live[p] - 1)

TypeOK ==
    /\ heap \in HeapState
    /\ DOMAIN live \subseteq Addr /\ \A p \in DOMAIN live : live[p] \in Sizes
    /\ lost \in BOOLEAN
    /\ halted \in {"no", "panic", "loop", "overrun"}

(* No block was divided beyond its end (heap.c:212, DivisionFits below).   *)
Intact == halted # "overrun"

(* What heap_allocate hands out belongs to its user alone: it lies in the  *)
(* heap, no other allocation shares a byte of it, and no header is in it,  *)
(* so that writing there cannot break the heap.                            *)
AllocationsDisjoint ==
    Intact => \A p \in DOMAIN live :
        /\ p + live[p] <= heap.size
        /\ Payload(p) \intersect Blocks(heap) = {}
        /\ \A q \in DOMAIN live \ {p} : Payload(p) \intersect Payload(q) = {}

(* The headers lead from the start of the heap to its end and back: next   *)
(* and before are inverse, and the last block is the one expand enlarges.  *)
BlocksTile ==
    Intact =>
    /\ 0 \in Blocks(heap) /\ heap.hdr[0].before = None
    /\ \A b \in Blocks(heap) : Following(heap, b) \in Blocks(heap) \union {heap.size}
    /\ \A b \in Blocks(heap) \ {0} :
        heap.hdr[b].before \in Blocks(heap) /\ Following(heap, heap.hdr[b].before) = b
    /\ heap.top \in Blocks(heap) /\ Following(heap, heap.top) = heap.size

(* The bytes of headers and of blocks in use.                              *)
InUse(h) ==
    {a \in Addr : \E b \in Blocks(h) :
        b <= a /\ a < b + Hdr + (IF Free(h, b) THEN 0 ELSE h.hdr[b].size)}

(* used_size, from which expand decides whether to grow, is the headers    *)
(* and the blocks in use; and those are the blocks the user holds, each    *)
(* large enough.  (Once heap_allocate recurs for ever it has enlarged a    *)
(* block in use.)                                                          *)
UsedIsExact ==
    Intact =>
    /\ halted # "loop" => heap.used = Cardinality(InUse(heap))
    /\ {b + Hdr : b \in {c \in Blocks(heap) : ~Free(heap, c)}} = DOMAIN live
    /\ \A p \in DOMAIN live : heap.hdr[p - Hdr].size >= live[p]

(* The search of heap_allocate starts at first_free and only goes up: it   *)
(* sees every free block because that is the lowest one.  Free blocks are  *)
(* never neighbours, so what fits between two allocations is found whole.  *)
FreeBlocksFound ==
    Intact =>
    /\ heap.first \in Blocks(heap) /\ Free(heap, heap.first)
    /\ \A b \in Blocks(heap) : Free(heap, b) =>
        /\ b >= heap.first
        /\ Following(heap, b) \in Blocks(heap) => ~Free(heap, Following(heap, b))

(* "copy the data to the new space" (heap.c:319): reallocation keeps what  *)
(* the user wrote, up to the smaller of the two sizes.                     *)
ContentsKept == ~lost

-----------------------------------------------------------------------------
(* What a comment of heap.c says.                                          *)

(* "do we have enough space to divide the block into two blocks?"          *)
(* (heap.c:211): the parts of a divided block are inside it.               *)
DivisionFits == \A b \in Blocks(heap) : b + Hdr + heap.hdr[b].size <= heap.size
=============================================================================
