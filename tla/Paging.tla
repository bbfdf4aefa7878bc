------------------------------- MODULE Paging -------------------------------
(***************************************************************************)
(* Physical memory, page directories and the CR3 register:                 *)
(* core/memory/paging.c with the parts of process.c and heap.c that call   *)
(* it.  A process's address space is built one page at a time; one step    *)
(* here is one call of paging_map_identity or paging_map, split where the  *)
(* call allocates a page table.                                            *)
(*                                                                         *)
(* Frames are pages of RAM, pages are pages of an address space, both      *)
(* numbered by address / 4096.  Of RAM only what the MMU reads is kept:    *)
(* every frame as if it were a directory or a table.                       *)
(***************************************************************************)
EXTENDS Integers, Sequences, FiniteSets, FiniteSetsExt, Functions

CONSTANTS
    Bits,       \* 8: frames of one byte of page_bitmap
    Bytes,      \* 2^17: BITMAP_SIZE_BYTES
    IndexMod,   \* 2^16: the values of first_free, a uint16_t
    Entries,    \* 1024: entries of a directory, and of a table
    Image,      \* pages of the kernel image, in the order of their addresses
    KernelHeap, \* pages of the kernel heap
    Vga,        \* 0xB8000 and 0xA0000
    StackPages, \* pages of a process's stack
    HeapPage,   \* where a process's heap starts
    HeapTop,    \* the page after it
    Procs,      \* processes besides ALIVE
    Alive,
    Reuse,      \* bound: processes are created after a kill too
    Garbage,    \* entries left in RAM by whatever used it before
    Nobody,
    Absent      \* an entry whose present bit is clear

Frames == 0..(Bits * Bytes - 1)
Pages == 0..(Entries * Entries - 1)
Index == 0..(Entries - 1)

IdentityPages == Image \o KernelHeap \o Vga
Reserved == {0} \union Range(IdentityPages)

Entry == [frame : Frames, user : BOOLEAN, write : BOOLEAN]

(* first_free counts no further than the bitmap.                           *)
ASSUME BitmapAssumption ==
    /\ Bits \in Nat \ {0} /\ Bytes \in Nat \ {0}
    /\ IndexMod \in 1..Bytes

(* 1024 tables of 1024 entries cover the 2^20 frames.                      *)
ASSUME LayoutAssumption ==
    /\ Entries \in Nat \ {0} /\ Entries * Entries = Bits * Bytes
    /\ Image \in Seq(Pages) /\ Image # <<>> /\ KernelHeap \in Seq(Pages) /\ Vga \in Seq(Pages)
    /\ StackPages \in Seq(Pages)
    /\ HeapPage \in Pages /\ HeapTop \in Pages
    /\ Garbage \subseteq Entry \union {Absent} /\ Absent \notin Entry

(* The kernel is loaded at 1 MB: the first byte of the bitmap starts with  *)
(* page 0 taken and the others free.                                       *)
ASSUME FirstByteAssumption ==
    \E f \in 0..(Bits - 1) : f \notin Reserved

(* The image, the heap behind it, the VGA memory below it and what a       *)
(* process maps behind all of them do not overlap.                         *)
ASSUME DistinctAssumption ==
    LET pages == IdentityPages \o StackPages \o <<HeapPage>> IN
    \A i, j \in DOMAIN pages : pages[i] = pages[j] => i = j

(* Nobody is told apart from frames and processes.                         *)
ASSUME NobodyAssumption == Nobody \notin Frames /\ Nobody \notin Procs \union {Alive}

VARIABLES
    used,       \* frames whose bit is set in page_bitmap
    first,      \* first_free: a byte of page_bitmap
    mem,        \* what the MMU finds in each frame
    paging,     \* the PG bit of CR0
    cr3,        \* whose directory CR3 holds; Nobody before it is set
    dir,        \* process_t.pd of every process that is not dead
    job,        \* the address space being built, if any
    halted      \* "hang": paging_allocate_new_page loops; "fault": page fault

vars == <<used, first, mem, paging, cr3, dir, job, halted>>

Owners == Procs \union {Alive}
Live == {p \in Owners : dir[p] # Nobody}

-----------------------------------------------------------------------------
(* The bitmap.                                                             *)

FreeBits(u, b) == {i \in 0..(Bits - 1) : b * Bits + i \notin u}
HasFree(u, b) == FreeBits(u, b) # {}

(* first_free counts up, wrapping at its width, to a byte with a free bit. *)
Ahead(u, b) == {c \in b..(IndexMod - 1) : HasFree(u, c)}
Behind(u) == {c \in 0..(IndexMod - 1) : HasFree(u, c)}
NextByte(u, b) == IF Ahead(u, b) # {} THEN Min(Ahead(u, b)) ELSE Min(Behind(u))
Endless(u) == Behind(u) = {}

(* Mutant: the bit is taken without looking at it.                        *)
NewFrameBit0(u, b) == NextByte(u, b) * Bits

NewFrame(u, b) ==
    LET c == NextByte(u, b) IN c * Bits + Min(FreeBits(u, c))

(* paging_allocate_new_page, seen from the bitmap.  The frame is taken     *)
(* before the search for the next one, which may never end.                *)
Allocate(u, b) ==
    LET f == NewFrame(u, b) IN
    /\ used' = u \union {f}
    /\ IF Endless(u \union {f})
       THEN first' = b /\ halted' = "hang"
       ELSE first' = NextByte(u \union {f}, NextByte(u, b)) /\ halted' = halted

(* Mutant: freeing a page leaves first_free where it is.                   *)
LowerNothing(b, F) == b

(* paging_free_page of every frame in F.                                   *)
LowerFirst(b, F) == Min({b} \union {f \div Bits : f \in F})

-----------------------------------------------------------------------------
(* Tables and translation.                                                 *)

DirIndex(page) == page \div Entries
TableIndex(page) == page % Entries
Empty == [i \in Index |-> Absent]

(* paging_get_physical_address, page by page: what the MMU does too.       *)
Translate(d, page) ==
    LET table == mem[d][DirIndex(page)] IN
    IF table = Absent THEN Absent ELSE mem[table.frame][TableIndex(page)]

(* The frames an access to address f reaches: none when it faults.         *)
Reached(f) ==
    IF ~paging THEN {f}
    ELSE IF Translate(dir[cr3], f) = Absent THEN {}
    ELSE {Translate(dir[cr3], f).frame}

(* Mutant: the entry holds the address instead of its upper 20 bits.       *)
TableEntryUnshifted(f) == [frame |-> f * 4096, user |-> TRUE, write |-> TRUE]
TableEntry(f) == [frame |-> f, user |-> TRUE, write |-> TRUE]

Tables(d) == {mem[d][i].frame : i \in {j \in Index : mem[d][j] # Absent}}
Leaves(t) == {mem[t][i].frame : i \in {j \in Index : mem[t][j] # Absent}}

(* Mutant: the tables themselves are not given back.                       *)
OwnedWithoutTables(d) == {d} \union UNION {Leaves(t) : t \in Tables(d)}

(* Every frame paging_free_directory gives back.                           *)
Owned(d) == {d} \union Tables(d) \union UNION {Leaves(t) : t \in Tables(d)}

-----------------------------------------------------------------------------
(* What is mapped, in the order of the calls.                              *)

(* Mutant: every identity page is open to user code.                       *)
IdentityForAll(user, s) ==
    [i \in 1..Len(s) |-> [page |-> s[i], identity |-> TRUE, user |-> TRUE]]
Identity(user, s) ==
    [i \in 1..Len(s) |-> [page |-> s[i], identity |-> TRUE, user |-> user]]
Fresh(s) ==
    [i \in 1..Len(s) |-> [page |-> s[i], identity |-> FALSE, user |-> TRUE]]

KernelMappings ==
    Identity(FALSE, Image) \o Identity(TRUE, KernelHeap) \o Identity(TRUE, Vga)
ProcessMappings(p) ==
    KernelMappings
        \o (IF p = Alive THEN <<>> ELSE Fresh(StackPages) \o Fresh(<<HeapPage>>))

Request == [page : Pages, identity : BOOLEAN, user : BOOLEAN]
Job == [owner : Owners, todo : Seq(Request), was : BOOLEAN]

(* No job is told apart from any.                                          *)
ASSUME NoJobAssumption == Nobody \notin Job

Idle == job = Nobody /\ halted = "no"
Busy == job # Nobody /\ halted = "no"
Pending == Head(job.todo)
Directory == dir[job.owner]

(* paging_init_directory re-enables paging behind the last identity page.  *)
InKernelPart(todo) == todo # <<>> /\ Head(todo).identity

Fault == halted' = "fault" /\ UNCHANGED <<used, first, mem, paging, cr3, dir, job>>

-----------------------------------------------------------------------------
(* Every frame holds garbage, then paging_init takes the reserved ones.    *)
Init ==
    /\ used = Reserved /\ first = 0
    /\ \E g \in Garbage : mem = [f \in Frames |-> [i \in Index |-> g]]
    /\ paging = FALSE /\ cr3 = Nobody
    /\ dir = [p \in Owners |-> Nobody]
    /\ job = Nobody
    /\ halted = "no"

(* initialize_alive, or process_create: a directory, cleared with paging   *)
(* off.                                                                    *)
Create(p) ==
    /\ Idle /\ dir[p] = Nobody
    /\ Reuse \/ Reserved \subseteq used
    /\ p # Alive => dir[Alive] # Nobody
    /\ Allocate(used, first)
    /\ IF halted' = "hang"
       THEN UNCHANGED <<mem, paging, dir, job>>
       ELSE LET d == NewFrame(used, first) IN
            /\ mem' = [mem EXCEPT ![d] = Empty]
            /\ dir' = [dir EXCEPT ![p] = d]
            /\ job' = [owner |-> p, todo |-> ProcessMappings(p), was |-> paging]
            /\ paging' = FALSE
    /\ UNCHANGED cr3

(* Both mapping functions first read the directory entry, then allocate    *)
(* and clear a table if there is none.                                     *)
AddTable ==
    /\ Busy
    /\ \E d \in Reached(Directory) :
        /\ mem[d][DirIndex(Pending.page)] = Absent
        /\ Allocate(used, first)
        /\ LET t == NewFrame(used, first) IN
           IF halted' = "hang"
           THEN UNCHANGED mem
           ELSE \E cleared \in Reached(t) :
                    mem' = [mem EXCEPT ![cleared] = Empty,
                                       ![d][DirIndex(Pending.page)] = TableEntry(t)]
    /\ UNCHANGED <<paging, cr3, dir, job>>

(* heap_create ends process_create with writes to the heap's first page,   *)
(* through whatever address space is current (bound: the model stops where *)
(* that faults).  Which frame they reach is not recorded.                  *)
Finish(todo) ==
    /\ paging' = IF InKernelPart(job.todo) /\ ~InKernelPart(todo)
                 THEN job.was ELSE paging
    /\ job' = IF todo = <<>> THEN Nobody ELSE [job EXCEPT !.todo = todo]
    /\ todo = <<>> /\ Pending.page = HeapPage => Reached(HeapPage) # {}

(* The rest of paging_map_identity and paging_map: the page mapped here    *)
(* before is given back, then the entry is written.                        *)
MapPage ==
    /\ Busy
    /\ \E d \in Reached(Directory) :
        /\ mem[d][DirIndex(Pending.page)] # Absent
        /\ \E t \in Reached(mem[d][DirIndex(Pending.page)].frame) :
            LET at == TableIndex(Pending.page)
                old == IF mem[t][at] = Absent THEN {} ELSE {mem[t][at].frame}
                u == used \ old
                b == LowerFirst(first, old)
            IN  IF Pending.identity
                THEN /\ used' = u /\ first' = b /\ halted' = halted
                     /\ mem' = [mem EXCEPT ![t][at] =
                            [frame |-> Pending.page, user |-> Pending.user, write |-> FALSE]]
                ELSE /\ Allocate(u, b)
                     /\ mem' = [mem EXCEPT ![t][at] = TableEntry(NewFrame(u, b))]
    /\ IF halted' = "hang" THEN UNCHANGED <<paging, job>> ELSE Finish(Tail(job.todo))
    /\ UNCHANGED <<cr3, dir>>

(* The directory, or the table it names, is not mapped where it is         *)
(* accessed.  The machine stops here, so the bit a fresh table has already *)
(* taken is left out.                                                      *)
MapFaults ==
    /\ Busy
    /\ \/ Reached(Directory) = {}
       \/ \E d \in Reached(Directory) :
            LET entry == mem[d][DirIndex(Pending.page)] IN
            IF entry = Absent
            THEN Reached(NewFrame(used, first)) = {} /\ ~Endless(used \union {NewFrame(used, first)})
            ELSE Reached(entry.frame) = {}
    /\ Fault

-----------------------------------------------------------------------------
(* syscall_start_alive: paging goes on, the scheduler picks a process.     *)
Start ==
    /\ Idle /\ cr3 = Nobody /\ dir[Alive] # Nobody
    /\ paging' = TRUE /\ cr3' \in Live
    /\ UNCHANGED <<used, first, mem, dir, job, halted>>

(* process_switch.                                                         *)
Switch ==
    /\ Idle /\ cr3 # Nobody
    /\ cr3' \in Live \ {cr3}
    /\ UNCHANGED <<used, first, mem, paging, dir, job, halted>>

(* expand: the running process's heap grows by a page.                     *)
Expand ==
    /\ Idle /\ cr3 \in Procs
    /\ job' = [owner |-> cr3, todo |-> Fresh(<<HeapTop>>), was |-> paging]
    /\ UNCHANGED <<used, first, mem, paging, cr3, dir, halted>>

(* Mutant: a process that kills itself leaves its directory in CR3.        *)
KillKeepsCr3(p) ==
    /\ Idle /\ cr3 # Nobody /\ dir[p] # Nobody
    /\ used' = used \ Owned(dir[p])
    /\ first' = LowerFirst(first, Owned(dir[p]))
    /\ dir' = [dir EXCEPT ![p] = Nobody]
    /\ UNCHANGED <<mem, paging, cr3, job, halted>>

(* process_kill with paging_free_directory, which runs with paging off; a  *)
(* process that kills itself is followed by another.                       *)
Kill(p) ==
    /\ Idle /\ cr3 # Nobody /\ dir[p] # Nobody
    /\ used' = used \ Owned(dir[p])
    /\ first' = LowerFirst(first, Owned(dir[p]))
    /\ dir' = [dir EXCEPT ![p] = Nobody]
    /\ IF cr3 = p THEN cr3' \in Live \ {p} ELSE UNCHANGED cr3
    /\ UNCHANGED <<mem, paging, job, halted>>

Next ==
    \/ \E p \in Owners : Create(p)
    \/ AddTable \/ MapPage \/ MapFaults
    \/ Start \/ Switch \/ Expand
    \/ \E p \in Procs : Kill(p)

Spec == Init /\ [][Next]_vars

-----------------------------------------------------------------------------
(* Properties.                                                             *)

TypeOK ==
    /\ used \subseteq Frames
    /\ first \in 0..(IndexMod - 1)
    /\ mem \in [Frames -> [Index -> Entry \union {Absent}]]
    /\ paging \in BOOLEAN
    /\ cr3 \in Owners \union {Nobody}
    /\ dir \in [Owners -> Frames \union {Nobody}]
    /\ job \in Job \union {Nobody}
    /\ halted \in {"no", "hang", "fault"}

(* What a process uses frames for, apart from the identity pages: its      *)
(* directory, the table behind entry at of it, what it finds at page at.   *)
Uses(p) ==
    LET d == dir[p] IN
    {[frame |-> d, kind |-> "directory", at |-> 0]}
        \union {[frame |-> mem[d][i].frame, kind |-> "table", at |-> i] :
                   i \in {j \in Index : mem[d][j] # Absent}}
        \union {[frame |-> Translate(d, q).frame, kind |-> "page", at |-> q] :
                   q \in {r \in Pages \ Range(IdentityPages) : Translate(d, r) # Absent}}

(* No frame serves two purposes: what a process uses is taken, and is used *)
(* neither by another process nor twice by the same one, be it as its      *)
(* directory, as a table or as a page.  paging_map gives back the page an  *)
(* entry held, so a table that was not cleared, or a page mapped twice,    *)
(* would hand a frame in use to somebody else.                             *)
FramesHaveOneUse ==
    \A p, q \in Live : \A u \in Uses(p), v \in Uses(q) :
        u.frame \in used /\ (u.frame = v.frame => p = q /\ u = v)

(* In every finished address space the kernel's pages are at their own     *)
(* addresses, the image out of reach of user code: the interrupt handlers, *)
(* and the code that turns paging off and on again, run there.             *)
KernelIsMapped ==
    \A p \in Live : (job = Nobody \/ job.owner # p \/ ~InKernelPart(job.todo)) =>
        \A i \in DOMAIN IdentityPages :
            LET entry == Translate(dir[p], IdentityPages[i]) IN
            /\ entry # Absent
            /\ entry.frame = IdentityPages[i]
            /\ entry.user <=> i > Len(Image)

(* A frame marked as taken is reserved or in somebody's address space:     *)
(* process_kill loses nothing.                                             *)
NothingLeaks ==
    halted = "no" => used \subseteq Reserved \union UNION {Owned(dir[p]) : p \in Live}

(* paging_allocate_new_page looks only ahead of first_free, and takes a    *)
(* frame from that byte first: of the frames a 16-bit first_free can reach *)
(* it finds every free one only because all those before it are taken, and *)
(* it never has to retry because that byte has a free one.                 *)
FirstIsLowest ==
    /\ \A f \in 0..(first * Bits - 1) : f \in used
    /\ halted # "hang" => HasFree(used, first)

(* The directory in CR3 is that of a process that is not dead, and is      *)
(* whole: its frame is taken, and the kernel's pages are at their own      *)
(* addresses in it, also while another space is built or freed.            *)
(* process_kill leaves a directory before it frees it (process.c:297), and *)
(* paging goes on only after CR3 was set.                                  *)
CurrentSpace ==
    /\ paging => cr3 # Nobody
    /\ cr3 # Nobody =>
        /\ cr3 \in Live /\ dir[cr3] \in used
        /\ \A page \in Range(IdentityPages) :
            LET entry == Translate(dir[cr3], page) IN entry # Absent /\ entry.frame = page

-----------------------------------------------------------------------------
(* What comments of paging.c say.                                          *)

(* "Always set to taken", "Kernel Pages, always identity mapped" and "make *)
(* sure the kernel heap is allocated" (paging.c:72, 78, 108): the reserved *)
(* frames are never free.                                                  *)
ReservedStaysTaken == Reserved \subseteq used

=============================================================================
