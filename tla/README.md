# A verification of TomatOS

TLA+ models of TomatOS, the properties TLC checks of them, and theorems that
TLAPS proves.  Paths are relative to the repository; `K/` stands for
`src/TomatKernel/`.

## The system

TomatOS is a 32-bit x86 kernel.  A boot sequence sets up memory, interrupts and
system calls, creates one *core* process, and hands the CPU to the scheduler.
Everything after that happens in interrupt handlers: the timer (every 10 ms),
the keyboard, and `int 0x80`, the system call.  Handlers run with interrupts
disabled; all other code, the kernel's own included, can be interrupted.

| Component | State | Operations | Talks to | What makes it correct |
|---|---|---|---|---|
| process table and scheduler, `K/core/process/process.c` | `processes`, `uid`, `can_update`, `updates`, `enabled` | `process_create`, `process_start`, `process_kill`, the lookups, `pull_event`/`queue_event`/`kill` system calls, `SYSCALL_START`, `scheduler_update` | timers, paging, heap, windows | one process RUNNING and it is the one on the CPU; events delivered once and in order; no starvation; time accounted |
| timers, `K/core/timer.c` | `timers`, `ids` | `timer_start`, `timer_cancel`, the interrupt | process queues, scheduler | fires once; dies with its process |
| keyboard, `K/core/drivers/ps2_keyboard.c` | `key_states`, scancode tables | the interrupt | queue of the core process | a target exists; key state and events agree |
| physical pages and page directories, `K/core/memory/paging.c` | `page_bitmap`, `first_free`, directories | allocate, free, map, init and free a directory | heap, processes | no frame has two owners; no frame leaks |
| heap, `K/core/memory/heap.c` | a heap context, block headers in the memory itself | allocate, free, reallocate | paging, sbuf, system calls | allocations are disjoint; accounting is exact |
| growable arrays, `K/core/sbuf.c` | length, capacity, buffer | push, free, the shift of `pull_event` | kernel heap, process table, queues | what is pushed is kept; each buffer has one owner; nothing is written outside it |
| windows, `K/core/graphics/window.c` | a tree of windows, each with its cells and cursor | create, delete, write, clear, scroll, set cursor, show, reposition | terminal, kernel heap | every access is in a buffer; what is written is seen; cursors stay inside |
| terminal, `K/core/graphics/term.c` | the native window, the current target | window operations on the target, redirect | windows, VGA memory | the target exists |
| boot, interrupts, system call dispatch, `K/boot`, `K/core/process/syscall.c` | handler tables | registration, dispatch | all | order of initialisation |
| event loop and TomatLib, `K/kernel.cpp`, `src/TomatLib` | local variables | `kmain`; `PullEvent`, `Sleep`, `StartTimer`; wrappers of the system calls | kernel | what is typed is written; no timer is early or forgotten; arguments keep their meaning |
| video, `K/core/drivers/video`, C library, `src/libc`, `K/klibc` | none that is read back | set a mode; memory and strings | - | - |

What is hard here: any code outside a handler may be interrupted between two
instructions; one flag (`can_update`) is all that protects the process table;
processes are found by status, uid or slot in an array whose slots are reused;
counters wrap; allocators keep their state inside the memory they hand out.

`kernel_boot` is under construction: its active body halts, and the boot
sequence is in a comment (`K/boot/kernel_boot.c:49-104`).  The models take that
sequence as the boot of the system, since every other file is written for it.

## Modules

| Module | What it is |
|---|---|
| `ProcessTable` | operators: a process, searching the table, what one scheduler pass does |
| `Timers` | operators: the timer table |
| `Kernel` | the state machine: processes, timers, scheduler, keyboard interrupt, CPU |
| `Mailboxes` | abstract specification: what the event queues promise |
| `KernelProperties` | properties of `Kernel`, and the claims of comments and documents |
| `MCKernel` | constants for TLC |
| `Programs`, `MCPrograms` | a program and its library on `Kernel`; constants for TLC |
| `KernelProofs` | lemmas about the operators of `ProcessTable` and `Timers`; theorems about `Kernel`: types, who is on the CPU, owners of timers |
| `MailProofs` | theorems about `Kernel`: it implements `Mailboxes`; without reuse of slots: the lock, `pull_event`, reasons to stop |
| `TimerProofs` | theorems about `Kernel`: timers fire once, time is conserved |
| `ProgramsProofs` | theorems about `Programs`: its steps are `Kernel`'s, what is typed is written, nothing is early |
| `Paging`, `MCPaging` | physical frames, page directories, CR0 and CR3; constants for TLC |
| `PagingProofs` | theorems about `Paging` |
| `Heap`, `MCHeap` | one heap and its user; constants for TLC |
| `HeapProofs` | theorems about `Heap` |
| `Arrays`, `MCArrays` | the process table and the queues as arrays on the kernel's heap; constants for TLC |
| `Keyboard`, `MCKeyboard` | the keyboard driver between a keyboard and the core process; constants for TLC |
| `KeyboardProofs` | theorems about `Keyboard` |
| `Windows`, `MCWindows` | windows and the terminal; constants for TLC |
| `WindowsProofs` | theorems about `Windows` |

`Programs` extends `Kernel`: its steps are those of `Kernel` with what the library
adds.  `Arrays` instantiates `Heap` for the kernel's heap.  `Kernel` and `Arrays`
both implement `Mailboxes`: `Kernel` with queues that are sequences, `Arrays` with
queues that are memory, where `Kernel` says who reads and `Arrays` what is read.

### Kernel

`procs` is the array `processes` (slot 1 is `alive`), `timers` the array
`timers`; `uid`, `ids`, `enabled`, `can_update`, `updates` are the static
variables of those names.  Three variables have no counterpart in the source:

* `cpu`: whose code the CPU executes (a slot, or 0 during the boot) and where it
  is in it.  `main` and `idle` are the entry and the loop of
  `alive_wait_for_events`; `user` is a process's own code; `event` is the point
  just after `int 0x80` returned `&current_event` and before
  `tomato_os_pull_event` (os.h:45-53) has copied it; `blocked` is the same point
  when the system call left `eax` alone.
* `start`: the `process_start` in progress.  It runs outside handlers, so it is
  three steps (lock, insert, unlock) and the interrupts may come in between.
* `halted`: why the kernel stopped.  `kpanic` and the exception handler never
  return.

A process keeps `uid`, `user`, `core`, `status`, `started`, both times, its event
queue and `current_event`; `regs` stands for its saved registers and says where
it resumes.  Each handler is one action that makes every change the handler
makes: `Kill`, for instance, includes the cancelling of timers, the unlocking,
and the scheduler's switch.  `TimerIRQ` is the whole of `handle_timer_irq`:
count-down of every timer, delivery, accounting, wake-ups, preemption.

Left out of `Kernel`: memory (page directories, stacks, heaps: `Kernel` takes
allocation and the access to directories as working), windows, the priority
(0 for every process: nothing sets it), the foreground flag (only windows and
the terminal read it).
A process is created and started in one action (`BeginStart`); only the boot
code of the repository does so, but `process_create` and `process_start` are
exported to kernel code, and the loop over dead slots in `process_start` can only
run after the boot, when something has died.  `ReuseSlots` says whether such a
start may happen.

### Paging

`used` and `first` are `page_bitmap` and `first_free`, `paging` the PG bit,
`cr3` the process whose directory is in CR3, `dir` the `pd` of each process.
`mem` is RAM as the MMU reads it: every frame as if it were a directory or a
table.  It starts as garbage, so a table that is not cleared is seen.  A process's
address space is built by a `job`, a list of pages to map, in the order of
`process_create` and `paging_init_directory`; each call of `paging_map` or
`paging_map_identity` is one step (`MapPage`), preceded by another if it
allocates a table (`AddTable`).  Every access to a directory or a table goes
through `Reached`: the frame at that address while paging is off, the frame it is
translated to while paging is on, and none (`MapFaults`) if it is not mapped.
The frames that heap headers are written to are not recorded (see below).

A job is not interleaved with scheduler switches: `process_create` runs with
interrupts on, but the one caller in the repository runs before the scheduler is
enabled.  `Create` is possible later too: `process_create` is exported to kernel
code, and frames are reused only by what is created after a kill.
`Start` and `Switch` may pick any live process, which is more than the scheduler
does.  Stacks are pages like others; the stack pointer is not modelled: interrupts
from ring 0 do not load `esp` from the frame, and no TSS is set up.

* `FramesHaveOneUse`: a directory, a table and a mapped page are never the same
  frame, in one process or across processes.
* `KernelIsMapped`: every finished address space maps the kernel, out of reach of
  user code.
* `NothingLeaks`: a frame marked as taken is reserved or owned by a live process.
* `FirstIsLowest`: of the frames that the 16-bit index reaches the search misses none.
* `CurrentSpace`: the directory in CR3 is one of a live process, is marked as taken,
  and maps the kernel; paging is never on without one.  A process that kills itself is
  the case: the directory that is freed was the current one.

### Heap

`heap` is `heap_context_t` with the block headers it leads to (`hdr`, by offset
from the start of the heap; `None` where the magic number is missing), `live` the
pointers the user holds with the sizes asked for.  The functions of heap.c are
operators from heap to heap in the unsigned arithmetic of the code; every system
call is one action, since handlers are not interrupted.  (On the kernel's heap there
are also operations with interrupts on; `Arrays` has those in steps.)  The loops of the code are
functions over `Blocks(h)`, the addresses where the magic number is found.
Sizes are computed modulo `Word`, as `size_t` is.  In the run addresses are in
units of a header; the theorems have any `Hdr` and requests of any size.
Abstracted: that the memory of the heap is mapped (`Paging` has that), and the
contents of blocks but for how many bytes a reallocation copies (`lost`).

* `AllocationsDisjoint`: what is handed out lies in the heap and overlaps neither
  another allocation nor a header.
* `BlocksTile`: the list of blocks covers the heap and can be walked both ways.
* `UsedIsExact`: `used_size` is the number of bytes (`InUse`) of the headers and
  of the blocks in use.
* `FreeBlocksFound`: `first_free` is the lowest free block; free blocks are merged.
* `ContentsKept`: reallocation copies all there is to copy.

They hold until a block is divided beyond its end, and say so (`Intact`).  When a
request is as large as the block found for it, or smaller by less than a header,
what is left is "negative" and the unsigned test takes it for more than nothing: the
code writes a header into memory that is somebody else's.  The model makes that
step and stops there (`halted` is "overrun"), since the memory behind the heap is
not in it; the first request may be such a one (`Claim_divide`).  Nothing
keeps a process from it.

### Arrays

`heap`, `live`, `lost`, `halted` are `Heap` for the kernel's heap; `mem` is what
that memory holds, a word per header, event or process, and `Junk` where nothing
was written since it was allocated or freed.  An array is a pointer into `mem`,
so a pointer that was not updated is seen.  `processes` is the static pointer,
`start` the `process_start` in progress with the table it is moving.

Handlers are one step each.  `process_start` is not one: when the table is full it
takes the steps of `heap_reallocate`, and interrupts come in between.  The steps are
looking at one block (`BeginMove`, `Search`), dividing it or moving `first_free`
(`DivideBlock`), marking it (`TakeBlock`), `memcpy` (`CopyTable`), unmarking the old
table (`Unmark`), each call of `merge_empty_blocks` (`MergeBlock`), `first_free` again
(`LowerFirst`), the assignment and the push (`UseTable`).  `kheap()` finds the heap's
context in the table itself, in the entry of `alive`: the copy has the context
as it was before the old table was freed, and becomes the context when the
pointer is assigned.  This is why `UseTable` sets `heap`.  Everything else about
processes is in `Kernel`.

* `KeepsMail`: `Arrays` implements `Mailboxes`: growth, the shift in `pull_event`,
  and the move of the table lose no event and no process.
* `BuffersOwned`: no two queues share a buffer, and no buffer is left behind.
* `InsideCapacity`: nothing is written outside the block of its array, and what is
  found there is what the array holds (`TypeOK`).

They hold until a handler uses the heap in the middle of an operation of
`process_start` on it, which `raced` records, and until a block is divided beyond its
end.  A handler may use the heap before the search, and between the allocation and
the copy (`Untouched`); everywhere else the code can go wrong.  Without the condition
`~raced` TLC finds each of the three violated, and `BuffersOwned` whichever step the
handler comes behind, from the division on: a handler is given the block that is
divided and not marked, and shares its buffer with the new table; it puts a pointer
into the table that was copied already, and the process keeps the buffer that was
freed; or its buffer is free again in the context that the copy brings back.  (A handler
behind the search makes `process_start` divide a block that has become smaller, which in
a heap as small as that of the run is always beyond its end.)  After a race only that
`process_start` goes on.

The run also reaches `SearchForever`: when the table was moved while a hole lay
behind it, the context in the copy names a header in `first_free` that was merged
away, and `heap_allocate` neither finds a block nor ends.

### Keyboard

`key_states` is the set of the keycodes that are true, `events` the queue of the
core process, `scs_mapping` and `shift_mapping` the tables as `ps2_keyboard_init`
fills them.  `KeyboardIRQ` is the whole interrupt.  The environment is a keyboard
(`held`, `repeating`, and the bytes on the `wire`) and a process that keeps
account of the keys by their events (`seen`); `typed` is what somebody meant to
type and the process has not been told yet.  The keyboard loses no byte, and a
request of the interrupt controller goes away when its byte is read: otherwise
the byte after 0xE0, which the handler reads itself, would raise an interrupt
with nothing to read, and `ps2_read` waits with interrupts disabled.

* `StreamAgrees`: the events of a key alternate, and the repeat flag is right.
* `StatesAgree`: no key is stuck or missed, in the driver or in the events.
* `CharsAsTyped`: characters arrive once, in order, with the right shift state;
  an extended key (whose second byte may be a shift key's) changes nothing.

### Windows

`wins` maps each address to the window there, or to `Null` if there is no magic
number; `current` is the terminal's target.  `stray` records that an index or a
pointer left what it should stay in.  Each function of window.c that changes
something is an operator from screen to screen, with the indices, the 16-bit
arithmetic and the redrawing of the code; each system call is one action
(handlers are not interrupted), and `Terminal` does the same with `current`.
Abstracted: characters and colours (a cell shows a character or none), and the
hardware cursor.  The system calls do nothing for a background process, so the
actions are those of one in the foreground.  `uid` of a window is never read.

The code checks none of its arguments.  `Careful` restricts the calls to what a
careful process asks for: cursors in the window, windows in their parent, a tab
only at the start of a text and not in the last column, no deletion of a parent.
(Careless ones can also make a window its own ancestor, where `window_set_cursor_pos`
never returns; the model stops after as many rounds as there are addresses.)  A new window's cursor is what
`malloc` left (`Garbage`), so a careful process also sets it before it writes.

* `AccessesInside`: line breaks, tabs, scrolling, drawing and resizing index only
  cells that exist.
* `CursorsStay`: nor do they put any cursor outside its window, in a parent either.
* `DrawsInside`: an operation on one window changes others only in its rectangle.
* `ShownAsWritten`: what was changed in a window is in its parent when the call
  returns.  It is stated for windows of at most about half of their parent, since
  `MIN(width, parent->width - width + x)` draws less of larger ones.
* `ResizeKeeps`: resizing keeps what fits.

### Programs

`program` is either `kmain` or any other program, of which only its calls of the
library are modelled: `StartTimer`, `PullEvent` for any kind of event, `Sleep`,
`QueueEvent` and `Kill`, in every order.  `call` is the library function that is
executed, with its arguments; `timer` the variable of `kmain`.  The code of the
library between two system calls reads only what the last one returned, so it is
part of the step that copies the event (`Read_Event`).  `typed`, `shown`, `said`
and `ticks` record what was typed and written, and how long the timer has run that
is waited for (up to its time, which bounds `ticks`).  Characters are numbered as they
are typed, so that one that is lost, doubled or out of order is seen.
`LibraryAssumption` says that what keys and the library ask of the kernel is among
what `Kernel` lets keyboards and processes do.

* `EchoesTyped`: what `kmain` has written and what it has yet to read is what was
  typed: a composition of the keyboard's events, the queue, wake-up or system
  call, and the copy.
* `NeverEarly`: neither `Sleep` nor the line of `kmain` is early, and the line is
  written once.
* `SleepEnds`, `KmainAnswers`: they come, and so does every character.

### Properties of Kernel

Each is stated and explained in `KernelProperties`.

* `RunningIsOnCpu`, `SyscallsAttributed`: the scan `process_get_running` finds
  the process that makes the system call, always.
* `DeliversMail`: `Kernel` implements `Mailboxes`.  The refinement mapping joins
  the queue with the event that was handed out by pointer but not copied yet, so
  it sees an event overwritten in `current_event`.
* `TimerOwnerAlive`, `TimerFiresOnce`, `TicksAccounted`.
* `LockedOnlyByStart`, `PullReturnsEvent`, `HaltsOnlyWithoutTarget`: hold as long
  as no process is started into a dead slot.
* `RunsAgain`: every ready process runs again.  `FirstRun`, for the first turn of
  a process, is checked only where it fails.

### Runs and bounds

Time is counted modulo 3 with a tick of 1 and a quantum of 2 in most runs: times
wrap after three ticks, so the wrapped comparisons of the quantum and of the
timers happen, which would take 49 days on the machine.  With two or three
live processes besides `alive` the quantum per process is 0 or 1.  The liveness
runs count modulo 5: a switch needs a tick at which the running time exceeds the
quantum and the waiting process has a positive score, and only when both are true
of more than half of the values is there such a tick.  With 2^32 values they are
true of all but a few of the first, and of half of the second.

| Run | Configuration | Shows |
|---|---|---|
| `Kernel_mail` | three processes, of which two are in the table at a time; an event any of them may queue, one timer of one tick; kills, dead slots reused; queues of up to two events | the refinement of `Mailboxes`; status and CPU agree; time is conserved |
| `Kernel_unlocked` | two processes, keys, kills, two timers of one tick, no reuse of slots | types; timers fire once and die with their process; the lock, the result of `pull_event`, the reasons to stop |
| `Kernel_live` | two processes, no keys and no timers, kills | `RunsAgain` under fairness |
| `Programs_library` | one process, which is `kmain` or another program; keys, two timers of two ticks | `EchoesTyped`, `NeverEarly`; `SleepEnds` and `KmainAnswers` under fairness |
| `Paging_spaces` | 64 frames in bytes of two, directories of 8 entries; `alive` and three processes, created, grown and killed | one use per frame, no leak, the kernel mapped, the search, the current address space |
| `Heap_process` | pages of six headers, at most three; requests of 0 to 5 | disjointness, tiling, accounting, free list, copies, until a block is divided beyond its end |
| `Arrays_growth` | a heap of 25 words; a table for two, three processes besides `alive`; queues of up to three events, buffers of one, two, four | the refinement of `Mailboxes`; owners and bounds of buffers, until a handler uses the heap in the middle of a step of the table's growth |
| `Keyboard_typing` | a letter, both shift keys, left control, an extended key; three bytes and three or four events under way | the three properties above, without a bound on the keystrokes |
| `Windows_careful` | a screen of 3x2, two windows of up to 2x2 beside or inside each other, five calls | bounds, cursors, drawing, resizing |

`MaxUid` bounds the processes ever created, `MaxSlots` the table, `MaxTimerId` the timers ever started,
`MaxQueue` the queue length from which on keys and `queue_event` add nothing
(timer events do).  Two processes besides `alive` are what a preemption, a kill
of another, and the choice between two candidates take; a third one that is
started after one of them died is the reuse of a dead slot while another waits.  Two timers are what
an expiry of several in one tick and the reuse of a timer slot take.  `Programs`
has one process, since the others only delay it, which `RunsAgain` is about;
`MaxChars` and `MaxKeys` bound what is typed, `Milli` is two of the library's 1000,
and a timer of one second is two ticks.  Deadlock is
not checked: the kernel may stop.

`Paging` keeps the proportions of the machine small: an index of the bitmap wraps
at two thirds of it (at half on the machine), the kernel's pages, heap and VGA
buffer share tables with each other and with free frames, a process's stack and
heap need a table of their own, and all frames can be taken by the address spaces
of the run.  With `Reuse = FALSE` no process is created after a kill gave the
frames of the kernel away (`Claim_reserved`), because from then on they would be
handed out.  `Heap` allows blocks to be split, merged on either side and both,
the heap to grow twice, and every order of frees of five blocks.
`Windows` is bounded by the number of calls (`Calls`): creating a window in another,
setting a cursor, writing and resizing take five.  The sizes make rows of different
lengths, windows that are drawn whole and in part, and lines and screens that
overflow after one or two characters.  `Word` is 64, more than any size or sum.

`Arrays` has the capacities 1, 2 and 4 for 16, 32 and 64: the table grows once, a
queue twice, with other blocks before, between and behind.  The heap is one page
that neither grows nor is used to its end, since the machine's kernel heap has 45 MB;
no handler is given the memory of a table that is still read (`Overlays`).  A request
that overruns the hole it is given stops the model, as in `Heap`.

Fairness: the timer interrupt (hardware) and the boot code are weakly fair.
`alive`'s entry and the copy of the event after `pull_event` are strongly fair:
they lose the CPU to interrupts and get it back again and again, for 10 ms each,
in which they take their step.  `Programs` assumes the same of the loops of the
library and of `kmain`, which are nothing but system calls.  Nothing is assumed of
other code: a process may compute for ever, and `RunsAgain` holds nevertheless.

### Where the code does something else

Three runs check what a comment or the document says, and fail:

* `Claim_firstrun`: after `process_start` reused a dead slot, `can_update` stays
  false and the scheduler is off (`process.c:277-280`) until the next kill.
* `Claim_reserved`: `paging_free_directory` also frees the identity pages, so a
  kill frees the kernel's frames.
* `Claim_divide`: the test whether a block can be divided is unsigned and holds
  when it should not.

Seen while modelling, and in the models, but too plain for a run of their own:

* with paging on, `paging_map` reads directories and tables at physical addresses
  nothing maps (`paging.c:194`, `204-207`), against `paging.h:87` and `paging.c:203`:
  the first expansion of a process's heap faults (`MapFaults`);
* the permission test of the `kill` system call is inverted (`process.c:175`);
* the score excludes a ready process that has waited 0 ms, or 2^31 ms and more
  (`process.c:421-422`), so `alive` may run, or one that waited less;
* a key stops the kernel before the core process is started and after it was
  killed (`ps2_keyboard.c:31`, `50`);
* `first_free` is 16 bits wide and the bitmap has 2^17 bytes: the upper half of
  RAM is never found (`paging.c:15`);
* in a fragmented heap `heap_allocate` calls itself for ever (`heap.c:265-269`);
* the keyboard tables end one short of the scancodes let through
  (`ps2_keyboard.c:96`);
* the kernel heap's context has the size of one page, its first block 45 MB
  (`heap.c:164`, `184`): reallocating a block behind that page neither copies nor
  frees;
* `term_redirect` refuses what is a window and takes what is none
  (`term.c:290`), against `syscalls.md:65`, so no window can be the target unless
  it is created at an address that was taken before;
* `window_scroll` clears the rows at the top, not those that became free
  (`window.c:516-521`); a deleted window's cells are lost to the heap, because the
  pointer is cleared first (`window.c:349-351`); windows outlive their process
  (`window.c:355-359`); a tab in the last cell writes behind the buffer
  (`window.c:379`);
* a request that leaves room for just a header takes the last free block, and
  the kernel panics (`heap.c:245`);
* the table of processes moves, with the context of the heap in it, while interrupts
  may use the same heap and move the queues it points to: nothing protects the kernel's
  heap (`heap.c:209` to `252`, `272` to `296`, `sbuf.c:8`, `process.c:284`, `kernel.c:23`;
  `raced` in `Arrays`).

Seen while modelling, and left out of the models:

* `heap_create` writes the first header of a process's heap through the address
  space that is current, or to physical memory while paging is off, and not
  through the new one (`heap.c:173-191`);
* `heap_create` reads `heap.pd` of `alive`, which `initialize_alive` never sets
  (`heap.c:173`, `process.c:196`); the models take it as NULL;
* `Sleep` passes its milliseconds as seconds (`OS.hpp:200-201`): it sleeps a thousand
  times as long, which `NeverEarly` and `SleepEnds` do not mind; the events of other
  kinds that `Sleep` and a filtered `PullEvent` drop include TERMINATE (`OS.hpp:228`);
* `windows.h`: `write` and `clear` make the call that deletes (`:25`, `:29`), `width`
  and `height` the one for the cursor's row (`:74`, `:80`), `get_x` and `get_y` each
  other's (`:98`, `:104`), `create` passes `vis` as the window to show (`:16`), and sizes
  are cut to 8 bits (`:13`); the kernel answers both with the cursor's position
  (`window.c:592`, `604`);
* `syscalls.md` numbers the calls 25 to 27 otherwise than `syscalls.h`, and the
  README of the scheduler has another formula for the score than `process.c:421`.

## Proofs

A theorem is about every value of the constants that satisfies the assumptions
named in the modules.  Each `Spec => []P` is proved from an inductive invariant,
which TLC has checked with the constants of the runs: the initial states satisfy it, every
action preserves it (one lemma per action where it takes work), it implies `P`.

| Module | Inductive invariant | Proved from it |
|---|---|---|
| `KernelProofs` | `KernelInv`, `OwnerInv` | `TypeOK`, `RunningIsOnCpu`, `SyscallsAttributed`, `TimerOwnerAlive` |
| `MailProofs` | `MailInv` | `DeliversMail` |
| `MailProofs` | `LockInv`, without reuse of slots | `LockedOnlyByStart`, `PullReturnsEvent`, `HaltsOnlyWithoutTarget` |
| `TimerProofs` | `OnceInv` | `TimerFiresOnce`, `TicksAccounted` |
| `KeyboardProofs` | `KeyboardInv` | `TypeOK`, `StreamAgrees`, `StatesAgree`, `CharsAsTyped` |
| `HeapProofs` | `HeapInv` | `TypeOK`, `AllocationsDisjoint`, `BlocksTile`, `UsedIsExact`, `FreeBlocksFound`, `ContentsKept` |
| `PagingProofs` | `PagingInv` | `TypeOK`, `FirstIsLowest` |
| `PagingProofs` | `SpacesInv`, under two hypotheses | `FramesHaveOneUse`, `KernelIsMapped`, `NothingLeaks`; with `CurrentJob`, `CurrentSpace` |
| `ProgramsProofs` | `ProgramsInv` | `EchoesTyped`, `NeverEarly` |
| `WindowsProofs` | `WindowsInv` | `TypeOK`; of careful processes `AccessesInside`, `CursorsStay`, `DrawsInside`, `ShownAsWritten`, `ResizeKeeps` |

### The process table and the CPU

`RunningIsOnCpu` and `SyscallsAttributed` need each other.  `RunningIsOnCpu` says
that no other process is RUNNING, `SyscallsAttributed` that the one whose code can
make a system call is: a system call suspends or kills the process it finds
RUNNING, so it leaves none RUNNING only if it found the one on the CPU; and a
switch makes its process the only one RUNNING only if the table had none left.
With the types and "a process being started is NORMAL" they are inductive
(`KernelInv`).  `OwnerInv` adds that the owner of every unfinished timer is alive,
written with "there is a live slot with that uid", since `process_get` returns a
slot that moves when slots are reused.

`KernelProofs` begins with what is needed of the operators: a search returns a matching
slot or none (which takes a well-founded order on finite sets, to find the least
slot), the scheduler neither moves nor revives nor buries a process (`Follows`)
and leaves at most the process on the CPU RUNNING, cancelling finishes every
timer of a process.

### Mailboxes

`MailDelivered` is the refinement, `Spec => DeliversMail`: every step of `Kernel`
is a send, a receive, the start or the end of a mailbox, or a stutter.  What a
process has not read is in up to two places: its queue and, if it stopped just
behind a `pull_event`, `current_event`.  Where it stopped is on the CPU, in its
saved registers, or in the registers it gets when it is woken.  `MailInv` says
which combinations occur: a suspended process has been given nothing, a ready one
is not in a `pull_event` that had nothing, `alive` has no queue, only a locked
table leaves a process behind a `pull_event` that gave it no event, and a uid is
one process's.  With that a step of the scheduler, which moves the program counter
between these places, changes no mailbox, and a delivery to a suspended process
that is woken by it appends to what it has not read.  It holds with and without
reuse of dead slots.

### The lock

`LockedOnlyByStart`, `PullReturnsEvent` and `HaltsOnlyWithoutTarget` are proved
under `~ReuseSlots`, without which they are false (`Claim_firstrun`): the theorems
say that the reuse of a slot is the only way to lose the lock.  The core of
`LockInv` is that while a `process_start` has the table locked every process in it
is alive, so that the insertion takes the branch that unlocks.

### Timers and time

The ids of unfinished timers and those of the TIMER events nobody has read are all
different and were given out (`Once`).  A tick that lets several timers expire
moves each id from one side to the other; every other step removes ids or adds the
one counted up to.  `KernelAssumption` has processes and keyboards send no TIMER
event: nothing in the repository does.

`TicksAccounted` is an action property: in each tick, for each live process, the
running and the suspended time together grow by one tick modulo `TimeMod`, whether
the scheduler switches, wakes, or does neither.

### The keyboard

The properties speak of the queue and of the keyboard, and the bytes on the wire
are between them.  `KeyboardInv` reads the wire as a stream of events (`Marks`) that
continues the queue: followed from the driver's key states it leads to the keys
that are down, every release in it is of a key that is down then, the second byte
of an extended key marks nothing, and the characters in the queue and on the wire,
each with the shift state it will meet, are those typed, in order.  The events of a
key alternate because each event the driver queues is right for what it knows.
`KeysAssumption` excludes a key with the code that would be read as the prefix when
it is released; `TablesAssumption` says what `ps2_keyboard_init` writes into the
tables.

### The heap

The theorems are under `StartSize = Page - Hdr`, the heap of a process: the kernel's
context has the size of a page and a first block of 45 MB (below), so that `size` is
not the end of its blocks.  Of the requests nothing is assumed.  `HeapInv` says that
types are right and no copy was short, and of the heap, until a block is divided
beyond its end,

* `Linear`: each header is followed by the next where its block ends, the last block
  ends the heap, `before` leads back;
* `Sorted`: `first_free` is the lowest free block, and no two free ones are neighbours;
* `Held`: the blocks in use are those the user holds, each large enough;
* `Counted`: `used_size` is the number of bytes in use (unless `heap_allocate` is
  calling itself for ever, having enlarged a block in use).

The loops of the code are recursive functions, of which the provers know nothing
but their equation.  That is enough since the loops are tail recursions:
`TailRecursion` shows that such a function exists, so that its equation holds, and
`TailValue` that its value is that of an end that is reached if a measure decreases.
The measure is the distance to the end of the heap for the searches, and the address
of the block for `merge_empty_blocks`.

The argument for `heap_free`: since free blocks are no neighbours, freeing a block
can give it a free one behind and one before, and none beyond those; merging absorbs
the one behind, goes back at most one block and absorbs again, after which none are
neighbours (`MergeSpec`).  For `heap_allocate`: it finds a block after an expansion
that had none before only if the last block was free, because that is the only one
that grew; so the bytes added are not in use, and `Counted` stays true
(`ExpandedTop`, `ExpandGood`).  That `used_size` is not off by a header on either side
of a division or a merge is a count of sets of bytes (`DivideCounts`, `AbsorbBytes`):
what was counted stays in use and the header's bytes come or go.  Nothing wraps
round because all those bytes are below `Limit`.  Where a division overruns its block
(`OverrunStep`) only the types remain (`DivideTypes`, `TakeTypes`): the sizes have
wrapped round, and are still sizes.

### Pages

`PagingInv` is a conjunction of

* `MemoryOK`: entries of RAM hold frames or are absent;
* `DirOK`: a live process has a frame as its directory, CR3 belongs to a live
  process;
* `JobOK`: a job belongs to a live process and has something left to map, which
  is what makes `Head` and `Tail` of it meaningful;
* `SearchOK`: every frame below the byte `first` is taken, and unless the search
  hangs that byte has a free frame;
* `RestOK`: the types of the rest.

The search is the interesting part: `NextByte` returns the least byte with a free
bit at or behind `first` and else the least of all, and since those below
`first` are taken the second case never jumps over a free frame; `LowerFirst` is
the minimum over everything freed.  The assumptions are the shape of the bitmap
and of the tables (`BitmapAssumption`, `LayoutAssumption`), that the first byte
of the bitmap has a frame that is not reserved (`FirstByteAssumption`), and
`NobodyAssumption`.

`FramesHaveOneUse`, `KernelIsMapped`, `NothingLeaks` and `CurrentSpace` are proved
under two hypotheses on the behaviour, and are false without them:

* `CreatedInTime`: no process is created once a kill has freed reserved frames
  (`Claim_reserved`), or those would be handed out.  The bound `Reuse = FALSE` implies
  it (`BoundIsInTime`), and so does the repository, where everything is created during
  the boot.
* `NothingElseReached`: a mapping step that does not fault reaches the directory it is for,
  and not another page that has the directory's address.  This is a matter of how many
  processes there are: directories come from the lowest free frames, behind the kernel
  heap, where the addresses of the stacks are too (at `kernel_end` + 51 MB), and with about
  five processes they meet.  Then a step of `paging_map` writes an entry into a stack, and
  the theorems say nothing.  It is a hypothesis, not a property of the code.

`SpacesInv` adds to `PagingInv`

* `Progress`: the pages that have an entry in the directory of a process are those of its
  first `k` mappings, where the rest is what its job has left; paging is off until
  the identity pages are done, and behind them as it was when the job began;
* `IdentityOK`: an identity page that has an entry has its own frame and the right mode;
* `UsesOK`: what a process uses is not reserved, and `AllUsed`: what is taken is used or reserved;
* `FramesHaveOneUse` itself.

The argument: with paging on nobody reaches a directory.  An access to the frame `d` of a
directory that does not fault would reach `d` (by `NothingElseReached`), which is then
a page of the running process; but `d` is a directory, and no frame has two uses, or
it is an identity page, and directories are not reserved (`PagingIsOff`).  So every
step that writes a table has paging off and belongs to the creation of a process,
when nothing it maps has an entry yet: `paging_map` gives nothing back, and each step adds
one use, of a frame that was free (`GainsOneUse`, `GainsAllUsed`).  A kill removes a
process with all its uses, and what `paging_free_directory` frees is exactly those and the
reserved frames (`OwnedAreUses`); so what other processes use stays taken.
`CurrentSpace` follows with `CurrentJob`: the only job that the process in CR3 can have
is the growth of its heap, so that its identity pages are all there.
`DistinctAssumption` says that the image, the kernel heap, the VGA memory, the stack and
the start of the heap do not overlap, `NoJobAssumption` that `Nobody` is not a job.

### Programs

`ProgramsAreKernel` says that a step of `Programs` is a step of `Kernel` or changes
nothing of it.  So every theorem about `Kernel` holds of the programs
(`ProgramsTimersOnce` is one), and `ProgramsInv` can take `OnceInv` for granted.  It
adds to it

* `OneProcess`: no process but `alive` and the core process of the boot exists;
* `EchoesTyped` itself;
* `LibraryOK`: the types, and which arguments go with which function;
* `SleepInTime` and `LineInTime`: an unfinished timer that is waited for has at least
  so much time left as the ticks counted have not used up, and its event is unread
  only when they were enough; once kmain has written its line, its timer is neither
  unfinished nor unread.

The properties see a queue only by the characters in it and by the ids of its timer
events (`Heard`).  Most steps of the kernel are `Calm` for both: whatever they do to
status, registers and `current_event`, what a process has not read stays what it was
or dies with it, and no timer event joins.  This is `MailInv` again.  What is left are
a read, which takes the head; a key, which appends a character; the start of a timer;
and the tick, which appends the events of the timers that had no more than a tick
left.  A read ends a wait only if the id is the timer's, and that this is not the id
of an older timer, so that the line is not written twice, is `OnceInv`.  `Sleep`
is not ended by TERMINATE, which it does not ask for.

### Windows

`WindowsInv` has two parts.  Whatever processes do, `Good`: the native window is there
and has no parent, every other window has the address of one, and every buffer has as
many cells as width times height.  That alone gives `TypeOK`.  If processes are careful,
also `Tame`: nothing went astray, no window is empty, and each is inside a parent that is
there.  It is what makes `Careful` enough: its guards are about the window of the call
and its children, `Tame` is about all windows, and the drawing of each relies on it.

The operators of `Windows` take a screen to a screen.  Each has a lemma that says what
it `Keeps` (the frames of all windows, and `Good`) from `Good` alone, and, from `Tame`,
that it is `Tidy` (nothing astray, other windows changed only behind the window) and
what becomes of the cursors.  `window_redraw` is the one with the arithmetic: the cells
of the part that is drawn are in the window's buffer and in the parent's
(`CopiedCells`), each has its own place there (`DrawShows`), and all of it is drawn if the
window is `Small`, when `MIN` takes the width.  `Effect` collects what a whole system call
does; `OperationDoes` shows it of every call, and the action properties follow.

Two operators are loops: the characters of a text and the parents of a window.  They are
recursive functions, of which TLAPS only knows an equation.  `LoopExists` shows that it
has a solution, if the rounds keep a set of states, and `Count` that every solution
keeps it; both count up to the least number that fails (`LeastNumber`), so no induction
theorem with an operator as its parameter is needed.  For `window_write` the set is that
of the screens that a tidy operation leads to, with the cursor inside again after each
character; for `window_set_cursor_pos` it says that the position carried along is inside
the window that it is for.

### Only model-checked

* `RunsAgain`, `SleepEnds`, `KmainAnswers`: liveness is out of the prover's reach.
* `Arrays`: it would need the heap's theorems for the kernel's heap, whose hypothesis it
  does not satisfy.

## Not modelled

* The wrappers of the window and terminal calls: each is one system call with its
  arguments in registers; what is wrong with them is listed above.
* The system calls that only read (sizes, colours, cursors): they change nothing.
* `process_create` interrupted while it has paging off: nothing calls it when the
  scheduler is enabled.
* Video and graphics: nothing calls them.  The descriptor tables, the PIC and the
  PIT: written once, before interrupts are enabled.
* `calloc`, `buf_clear`, `buf_printf` and `thread.h`: not used.

## Plan

1. `NothingElseReached` from the number of processes: directories stay below the addresses
   of the stacks as long as so many frames are not taken.
2. A theorem about `Heap` for the kernel's heap, with what its wrong size still
   leaves true.
3. Windows used carelessly: cursors outside, parents deleted; which guards would
   be enough.
4. The wrappers in `windows.h`, once they make the calls they are named for.
