------------------------------- MODULE Arrays -------------------------------
(***************************************************************************)
(* The growable arrays of core/sbuf.c and sbuf.h on the kernel heap: the   *)
(* process table and the event queues that its entries point to.  Heap has *)
(* the blocks, mem what is in them, word by word: an array is a pointer to *)
(* a BufHdr with the elements behind it.                                   *)
(*                                                                         *)
(* Handlers run to their end.  process_start does not: when it enlarges    *)
(* the table, interrupts come between the steps of heap_allocate, memcpy   *)
(* and heap_free.  Nothing protects the heap: a handler that uses it in    *)
(* the middle of them can be given the block that process_start has found, *)
(* or have the buffer it allocates forgotten (raced).  Finer steps would   *)
(* differ after that only, as no other action reads what they change.      *)
(* The context of the kernel heap is in the table itself, in the entry of  *)
(* alive (kheap).                                                          *)
(*                                                                         *)
(* One unit is a heap header, a BufHdr, an event or a process_t.           *)
(***************************************************************************)
EXTENDS Integers, Sequences, FiniteSets

CONSTANTS
    Hdr, Page, Word, StartSize, Limit, None,   \* those of Heap
    MinCap,     \* 16: capacity of an array's first buffer
    TableCap,   \* 16: capacity process_init gives the table
    Values,     \* events
    Junk,       \* memory that was never written or was freed
    MaxUid,     \* bound: processes ever created
    MaxLen      \* bound: events in a queue

ALIVE == 1
Uids == 0..MaxUid

ASSUME ArraysAssumption ==
    /\ MinCap \in Nat \ {0} /\ TableCap \in Nat \ {0}
    /\ {MaxUid, MaxLen} \subseteq Nat
    /\ Junk \notin Values /\ None \notin Values /\ Junk # None

VARIABLES
    heap, live, lost, halted,   \* those of Heap, for the kernel's heap
    mem,         \* what the addresses of the kernel heap hold
    processes,   \* the static pointer of process.c
    uid,         \* the last process uid given out
    start,       \* the process_start in progress
    raced        \* history: a handler used the heap in the middle of an
                 \* operation of process_start on it.  Bound: after that only
                 \* that process_start goes on, as long as its block exists

heapVars == <<heap, live, lost, halted>>
vars == <<heap, live, lost, halted, mem, processes, uid, start, raced>>

KHeap == INSTANCE Heap WITH Sizes <- 0..Limit

Addr == 0..Limit
BufHdr == [len : Addr, cap : Addr]
Process == [uid : Uids, dead : BOOLEAN, events : Addr \union {None}]
NewProcess(u) == [uid |-> u, dead |-> FALSE, events |-> None]

(* block: where heap_allocate or heap_free of the table is in the heap;    *)
(* new: the new table; context: that of the heap when it was copied.       *)
NoStart == [phase |-> "idle", block |-> None, new |-> None, context |-> None]
Idle == start.phase = "idle"

(* Between two operations on the heap, and before the copy.                *)
Untouched == start.phase \in {"idle", "locked", "allocated"}

-----------------------------------------------------------------------------
(* Reading arrays.                                                         *)

(* A pointer to memory without a BufHdr is not followed further.           *)
Length(m, b) == IF b = None \/ m[b] \notin BufHdr THEN 0 ELSE m[b].len
Capacity(m, b) == IF b = None \/ m[b] \notin BufHdr THEN 0 ELSE m[b].cap
Elements(m, b) == [k \in 1..Length(m, b) |-> m[b + k]]

Slot(i) == mem[processes + i]
Slots == {i \in 1..Length(mem, processes) : Slot(i) \in Process}
Live == {i \in Slots : ~Slot(i).dead}
Queue(i) == Slot(i).events

-----------------------------------------------------------------------------
(* buf_push and buf_free.                                                  *)

(* Mutant: there is always room for one more element.                      *)
FitsBelow(m, b) == b # None /\ Length(m, b) <= Capacity(m, b)
Fits(m, b) == 1 + Length(m, b) <= Capacity(m, b)

Store(m, b, v) == [m EXCEPT ![b].len = @ + 1, ![b + Length(m, b) + 1] = v]

Larger(x, y) == IF x >= y THEN x ELSE y

(* Mutant: the capacity of a full array is not doubled.                    *)
SameCapacity(m, b) == Larger(Capacity(m, b), MinCap)
NewCapacity(m, b) == Larger(2 * Capacity(m, b), Larger(1 + Length(m, b), MinCap))
Bytes(cap) == 1 + cap

(* The words b..b+cap of a freed array, but for what is in use again.      *)
Wiped(m, b) ==
    [a \in Addr |->
        IF a \in b..(b + Capacity(m, b)) /\ \A p \in DOMAIN live \ {b} : a \notin KHeap!Payload(p)
        THEN Junk ELSE m[a]]

(* memcpy of n words.                                                      *)
Copy(m, b, new, n) ==
    [a \in Addr |-> IF a - new \in 0..(n - 1) THEN m[b + (a - new)] ELSE m[a]]

(* heap_allocate finds a block: bound, the kernel's heap neither grows nor *)
(* is it used to its end.  Its search begins at a block that still exists. *)
Room(n) ==
    /\ heap.hdr[heap.first] # None /\ KHeap!FirstFit(heap, n) # None
    /\ KHeap!Allocate(heap, n).halt # "panic"
Lost == heap.hdr[heap.first] = None

(* Bound: no handler gets the memory of a table that is still read.        *)
Overlays(new, cap) ==
    new..(new + cap) \intersect processes..(processes + Capacity(mem, processes)) # {}

(* buf__grow and the push for the queue of a process: the new buffer has   *)
(* the length of the old one where it was copied.  From a buffer the heap  *)
(* does not accept nothing is copied.                                      *)
Grow(i, v) ==
    LET b == Queue(i)
        cap == NewCapacity(mem, b)
        new == KHeap!Allocate(heap, Bytes(cap)).ptr
        copied == IF b = None THEN 0 ELSE KHeap!Copied(heap, b, Bytes(cap))
        moved == Copy(mem, b, new, copied)
        freed == IF copied > 0 THEN Wiped(moved, b) ELSE moved
        lengths == IF b = None THEN {0}
                   ELSE IF copied > 0 THEN {Length(mem, b)} ELSE 0..(cap - 1)
    IN  /\ Room(Bytes(cap)) /\ ~Overlays(new, cap)
        /\ IF b = None THEN KHeap!Malloc(Bytes(cap)) ELSE KHeap!Realloc(b, Bytes(cap))
        /\ IF halted' # "no" THEN UNCHANGED mem ELSE \E len \in lengths :
             mem' = Store([freed EXCEPT ![new] = [len |-> len, cap |-> cap],
                                        ![processes + i].events = new], new, v)

-----------------------------------------------------------------------------
(* process_init: the table is allocated by hand, with alive in it.         *)
Init ==
    LET table == KHeap!Allocate(KHeap!Created, Bytes(TableCap)) IN
    /\ heap = table.heap
    /\ live = [p \in {table.ptr} |-> Bytes(TableCap)]
    /\ lost = FALSE /\ halted = "no"
    /\ mem = [a \in Addr |-> CASE a = table.ptr -> [len |-> 1, cap |-> TableCap]
                               [] a = table.ptr + 1 -> NewProcess(0)
                               [] OTHER -> Junk]
    /\ processes = table.ptr
    /\ uid = 0
    /\ start = NoStart
    /\ raced = FALSE

-----------------------------------------------------------------------------
(* Handlers.                                                               *)

(* buf_push on the queue of a process: the timer and keyboard interrupts,  *)
(* and the system call queue_event.                                        *)
Post(i, v) ==
    LET b == Queue(i) IN
    /\ halted = "no" /\ ~raced /\ Length(mem, b) < MaxLen
    /\ IF Fits(mem, b)
       THEN mem' = Store(mem, b, v) /\ UNCHANGED <<heapVars, raced>>
       ELSE ~Lost /\ Grow(i, v) /\ raced' = ~Untouched
    /\ UNCHANGED <<processes, uid, start>>

(* Mutant: what is behind the first event is not moved forward.            *)
PullUnmoved(i) ==
    LET b == Queue(i) IN
    /\ halted = "no" /\ ~raced /\ Idle /\ Length(mem, b) > 0
    /\ mem' = [mem EXCEPT ![b].len = @ - 1]
    /\ UNCHANGED <<heapVars, processes, uid, start, raced>>

(* pull_event, for a process that finds an event in its queue.             *)
Pull(i) ==
    LET b == Queue(i)
        left == Length(mem, b) - 1
    IN  /\ halted = "no" /\ ~raced /\ Idle /\ left >= 0
        /\ mem' = [Copy(mem, b + 2, b + 1, left) EXCEPT ![b].len = left]
        /\ UNCHANGED <<heapVars, processes, uid, start, raced>>

(* Mutant: the queue of a dead process is not freed.                       *)
KillOnly(i) ==
    /\ halted = "no" /\ ~raced /\ Idle /\ i # ALIVE
    /\ mem' = [mem EXCEPT ![processes + i].dead = TRUE]
    /\ UNCHANGED <<heapVars, processes, uid, start, raced>>

(* process_kill: buf_free also forgets the pointer.                        *)
Kill(i) ==
    LET b == Queue(i)
        buried == [mem EXCEPT ![processes + i].dead = TRUE, ![processes + i].events = None]
    IN  /\ halted = "no" /\ ~raced /\ Idle /\ i # ALIVE
        /\ IF b = None THEN mem' = buried /\ UNCHANGED heapVars
           ELSE mem' = Wiped(buried, b) /\ KHeap!FreePtr(b)
        /\ UNCHANGED <<processes, uid, start, raced>>

-----------------------------------------------------------------------------
(* process_create and process_start.                                       *)

BeginStart ==
    /\ halted = "no" /\ ~raced /\ Idle /\ uid < MaxUid
    /\ uid' = uid + 1
    /\ start' = [NoStart EXCEPT !.phase = "locked"]
    /\ UNCHANGED <<heapVars, mem, processes, raced>>

(* The first dead slot is taken.                                           *)
Insert(i) ==
    /\ halted = "no" /\ start.phase = "locked" /\ i \in Slots \ Live
    /\ \A j \in Slots \ Live : i <= j
    /\ mem' = [mem EXCEPT ![processes + i] = NewProcess(uid)]
    /\ start' = NoStart
    /\ UNCHANGED <<heapVars, processes, uid, raced>>

Push ==
    /\ halted = "no" /\ start.phase = "locked" /\ Slots = Live
    /\ Fits(mem, processes)
    /\ mem' = Store(mem, processes, NewProcess(uid))
    /\ start' = NoStart
    /\ UNCHANGED <<heapVars, processes, uid, raced>>

-----------------------------------------------------------------------------
(* heap_reallocate of the table: heap_allocate.                            *)

TableBytes == Bytes(NewCapacity(mem, processes))

(* One of the steps from phase p, at a block that exists; to phase q.      *)
From(p) ==
    /\ halted = "no" /\ start.phase = p /\ heap.hdr[start.block] # None
    /\ UNCHANGED <<lost, processes, uid, raced>>
To(q) == start' = [start EXCEPT !.phase = q]

BeginMove ==
    /\ halted = "no" /\ start.phase = "locked" /\ Slots = Live
    /\ ~Fits(mem, processes) /\ Room(TableBytes)
    /\ start' = [start EXCEPT !.phase = "searching", !.block = heap.first]
    /\ UNCHANGED <<heapVars, mem, processes, uid, raced>>

Search ==
    LET b == start.block
        next == KHeap!NextFree(heap, b)
    IN  /\ From("searching")
        /\ IF KHeap!Free(heap, b) /\ heap.hdr[b].size >= TableBytes
           THEN To("found")
           ELSE next # None /\ start' = [start EXCEPT !.block = next]
        /\ UNCHANGED <<heap, live, halted, mem>>

(* Whether the block is still free is not asked again.                     *)
DivideBlock ==
    LET b == start.block
        n == TableBytes
        next == KHeap!NextFree(heap, b)
    IN  /\ From("found") /\ To("divided")
        /\ IF KHeap!Rest(heap, b, n) > 0 THEN heap' = KHeap!Divide(heap, b, n)
           ELSE IF heap.first = b THEN next # None /\ heap' = [heap EXCEPT !.first = next]
           ELSE UNCHANGED heap
        /\ halted' = IF KHeap!Overruns(heap, b, n) THEN "overrun" ELSE "no"
        /\ UNCHANGED <<live, mem>>

TakeBlock ==
    LET b == start.block IN
    /\ From("divided")
    /\ heap' = KHeap!Take(heap, b)
    /\ live' = KHeap!With(b + Hdr, TableBytes)
    /\ start' = [start EXCEPT !.phase = "allocated", !.new = b + Hdr]
    /\ UNCHANGED <<halted, mem>>

(* The copy and heap_free.  What is copied has the heap's context in it.   *)
CopyTable ==
    /\ From("allocated")
    /\ mem' = Copy(mem, processes, start.new, KHeap!Copied(heap, processes, TableBytes))
    /\ start' = [start EXCEPT !.phase = "copied", !.block = processes - Hdr, !.context = heap]
    /\ UNCHANGED <<heap, live, halted>>

Unmark ==
    LET b == start.block IN
    /\ From("copied") /\ To("merging")
    /\ heap' = [heap EXCEPT !.hdr[b].allocated = FALSE,
                            !.used = (@ - heap.hdr[b].size) % Word]
    /\ live' = KHeap!Without(live, processes)
    /\ UNCHANGED <<halted, mem>>

(* One call of merge_empty_blocks.                                         *)
MergeBlock ==
    LET before == heap.hdr[start.block].before
        g == KHeap!Absorb(heap, start.block)
    IN  /\ From("merging")
        /\ heap' = g
        /\ IF before # None /\ g.hdr[before] # None /\ KHeap!Free(g, before)
           THEN start' = [start EXCEPT !.block = before]
           ELSE To("merged")
        /\ UNCHANGED <<live, halted, mem>>

LowerFirst ==
    /\ From("merged") /\ To("freed")
    /\ heap' = [heap EXCEPT !.first = IF start.block < @ THEN start.block ELSE @]
    /\ UNCHANGED <<live, halted, mem>>

(* The old table is read until the pointer changes.  The context of the    *)
(* heap is then the copy in the new table.                                 *)
UseTable ==
    LET new == start.new
        cap == NewCapacity(mem, processes)
    IN  /\ halted = "no" /\ start.phase = "freed"
        /\ mem' = Store([Wiped(mem, processes) EXCEPT ![new].cap = cap],
                        new, NewProcess(uid))
        /\ processes' = new
        /\ heap' = [start.context EXCEPT !.hdr = heap.hdr]
        /\ start' = NoStart
        /\ UNCHANGED <<live, lost, halted, uid, raced>>

MoveTable ==
    \/ BeginMove \/ Search \/ DivideBlock \/ TakeBlock
    \/ CopyTable \/ Unmark \/ MergeBlock \/ LowerFirst \/ UseTable

-----------------------------------------------------------------------------
(* Some array needs a larger buffer.                                       *)
Full ==
    \/ start.phase = "locked" /\ Slots = Live /\ ~Fits(mem, processes)
    \/ \E i \in Live \ {ALIVE} : ~Fits(mem, Queue(i)) /\ Length(mem, Queue(i)) < MaxLen

(* Where the search of heap_allocate begins at a block that was merged     *)
(* away it ends there, before and after each expansion of the heap.        *)
SearchForever ==
    /\ halted = "no" /\ ~raced /\ Lost /\ Full
    /\ halted' = "loop"
    /\ UNCHANGED <<heap, live, lost, mem, processes, uid, start, raced>>

Next ==
    \/ \E i \in Live \ {ALIVE}, v \in Values : Post(i, v)
    \/ \E i \in Live \ {ALIVE} : Pull(i) \/ Kill(i)
    \/ BeginStart \/ (\E i \in Slots : Insert(i)) \/ Push
    \/ MoveTable
    \/ SearchForever

Spec == Init /\ [][Next]_vars
-----------------------------------------------------------------------------
(* Properties.                                                             *)

(* The variables have their types; a pointer of the table leads to a header*)
(* and its slots hold processes, at every step of moving it.               *)
TypeOK ==
    /\ KHeap!TypeOK
    /\ mem \in [Addr -> BufHdr \union Process \union Values \union {Junk}]
    /\ processes \in Addr /\ uid \in Uids
    /\ mem[processes] \in BufHdr /\ Slots = 1..Length(mem, processes)
    /\ start.block \in Addr \union {None} /\ raced \in BOOLEAN
    /\ (start.new = None) =
         (start.phase \in {"idle", "locked", "searching", "found", "divided"})

(* No handler has used the heap in the middle of an operation of           *)
(* process_start on it, and no block was divided beyond its end.           *)
Sound == ~raced /\ halted # "overrun"

Pending == IF Idle THEN {} ELSE {uid}
LiveUids == {Slot(i).uid : i \in Live}

Mail == INSTANCE Mailboxes WITH
    inbox <- [u \in Uids |-> IF \E i \in Live : Slot(i).uid = u
                             THEN Elements(mem, Queue(CHOOSE i \in Live : Slot(i).uid = u))
                             ELSE <<>>],
    alive <- LiveUids,
    dead  <- (0..uid) \ (LiveUids \union Pending)

(* The arrays in the kernel's heap are the queues of the other modules:    *)
(* growing a queue or the table that points to it, freeing it with its     *)
(* process and shifting it neither loses nor changes an event, of that     *)
(* process or of another, nor a process (sbuf.c, process.c:272-326).       *)
KeepsMail == Mail!Init /\ [][Sound' => [Mail!Next]_(Mail!mailVars)]_vars

Buffers == {Queue(i) : i \in Slots} \ {None}
Table == IF start.phase \in {"merging", "merged", "freed"} THEN {start.new}
         ELSE {processes, start.new} \ {None}

(* Every buffer has one owner: no two queues share one, none is the table, *)
(* and what the heap still counts as allocated is what is pointed to, so   *)
(* nothing is freed in use and nothing is left behind by a growing array   *)
(* or a dead process.                                                      *)
BuffersOwned ==
    Sound =>
    /\ DOMAIN live = Buffers \union Table /\ Buffers \intersect Table = {}
    /\ \A i, j \in Slots : i # j => Queue(i) = None \/ Queue(i) # Queue(j)
    /\ {b + Hdr : b \in {a \in KHeap!Blocks(heap) : ~KHeap!Free(heap, a)}} = DOMAIN live

(* What is written to an array lies in the block that was allocated for    *)
(* it, and is of its type: len never exceeds cap, nor cap the size asked   *)
(* for.                                                                    *)
InsideCapacity ==
    Sound =>
    /\ TypeOK /\ KHeap!AllocationsDisjoint
    /\ \A b \in Buffers \union {processes} :
        /\ mem[b] \in BufHdr /\ mem[b].len <= mem[b].cap
        /\ b \in DOMAIN live => Bytes(mem[b].cap) <= live[b]
=============================================================================
