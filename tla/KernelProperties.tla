-------------------------- MODULE KernelProperties --------------------------
(***************************************************************************)
(* What must be true of Kernel.tla.                                        *)
(***************************************************************************)
EXTENDS Kernel

(* The type invariant of the kernel's state: process.c:22-26, timer.c:18-27 *)
(* and the CPU.                                                            *)
TypeOK ==
    /\ procs \in Seq(Process) /\ ALIVE \in DOMAIN procs
    /\ uid \in Nat
    /\ timers \in Seq(Timer)
    /\ ids \in Nat
    /\ enabled \in BOOLEAN
    /\ can_update \in BOOLEAN
    /\ updates \in Time
    /\ start \in [phase : {"idle", "locked", "pushed"}, new : Process]
    /\ cpu \in [slot : {NoSlot} \cup DOMAIN procs, ctx : Contexts \cup {"boot"}]
    /\ cpu.slot = NoSlot <=> cpu.ctx = "boot"
    /\ halted \in HaltReasons

(* The status RUNNING, by which every system call finds its caller         *)
(* (process_get_running), is held by no other process than the one on the  *)
(* CPU: never by two, never by one that was switched away or interrupted.  *)
RunningIsOnCpu == \A i \in WithStatus(procs, "RUNNING") : i = cpu.slot

(* The converse where system calls are made: code that can reach one is    *)
(* the code of the process found RUNNING, so the five "without a running   *)
(* process" panics of the handlers are unreachable.                        *)
SyscallsAttributed ==
    /\ cpu.ctx \in {"user", "event"} => procs[cpu.slot].status = "RUNNING"
    /\ halted # "no_running"

(* handle_timer_irq panics on a timer whose process is gone: no unfinished *)
(* timer ever outlives its process, whatever kills it (timer.c:43-46).     *)
TimerOwnerAlive ==
    /\ \A k \in DOMAIN timers :
          ~timers[k].finished => Lookup(procs, timers[k].uid) # NoSlot
    /\ halted # "no_owner"

-----------------------------------------------------------------------------
(* The events the process in slot i has not read yet.  The one it was      *)
(* given by pull_event sits in current_event, outside the queue, until the *)
(* process copies it.                                                      *)
Given(i) == "event" = IF cpu.slot = i THEN cpu.ctx ELSE procs[i].regs
Unread(i) == (IF Given(i) THEN <<procs[i].cur>> ELSE <<>>) \o procs[i].events

Uids == 0..MaxUid
Holds(i, u) == procs[i].uid = u /\ procs[i].status # "DEAD"
LiveUids == {procs[i].uid : i \in Live(procs)}
Pending == IF start.phase = "locked" THEN {start.new.uid} ELSE {}

Mail == INSTANCE Mailboxes WITH
    inbox <- [u \in Uids |-> IF \E i \in DOMAIN procs : Holds(i, u)
                             THEN Unread(CHOOSE i \in DOMAIN procs : Holds(i, u))
                             ELSE <<>>],
    alive <- LiveUids,
    dead  <- (0..uid) \ (LiveUids \cup Pending)

(* The queues, current_event and the registers implement mailboxes: no     *)
(* event is lost, duplicated, reordered or overwritten between being sent  *)
(* and being copied by its process, across preemption, suspension, wake-up *)
(* and the death of others, and no dead uid comes back.                    *)
DeliversMail == Mail!Spec

(* A timer fires at most once and is never both pending and delivered: of  *)
(* each id there is at most one unfinished timer or unread event.          *)
TimerFiresOnce ==
    \A id \in 1..ids :
        LET fired == [kind |-> "TIMER", id |-> id]
            waiting == {k \in DOMAIN timers :
                          timers[k].id = id /\ ~timers[k].finished}
            unread(i) == {n \in DOMAIN Unread(i) : Unread(i)[n] = fired}
            holders == {i \in Live(procs) : unread(i) # {}}
        IN  /\ Cardinality(waiting) + Cardinality(holders) <= 1
            /\ \A i \in holders : Cardinality(unread(i)) = 1

(* Time is conserved: a tick adds the same time to every process it finds  *)
(* alive, whether it was running or waiting, and a tick that finds the     *)
(* table locked is made up for by a later one (updates).                   *)
Lifetime(i) == procs[i].susp + procs[i].run + Tick * updates
TicksAccounted ==
    [][TimerIRQ /\ enabled /\ halted' = "no" =>
         \A i \in Live(procs) :
            Lifetime(i)' % TimeMod = (Lifetime(i) + Tick) % TimeMod]_vars

-----------------------------------------------------------------------------
(* As long as no process is started into a dead slot, the table is locked  *)
(* only while a process_start is in progress, at boot before the first     *)
(* one, and never for good.                                                *)
LockedOnlyByStart ==
    ~can_update => start.phase # "idle" \/ (~enabled /\ uid = 0)

(* ... and pull_event always returns an event: the process that called it  *)
(* with an empty queue is not continued before one arrived.                *)
PullReturnsEvent == cpu.ctx # "blocked"

(* ... and the kernel stops only for a key without a core process or for a *)
(* process_kill of a uid that does not exist.                              *)
HaltsOnlyWithoutTarget ==
    /\ halted \in {"no", "no_core", "fault"}
    /\ halted = "no_core" => ~\E i \in Live(procs) : procs[i].core
    /\ halted = "fault" => cpu.ctx = "user"

NeverRan(i) == /\ i \in DOMAIN procs
               /\ procs[i].status = "NORMAL" /\ ~procs[i].started
Ready(i) == i \in DOMAIN procs /\ procs[i].status = "NORMAL"

(* A process that was started gets the CPU, whatever the others do with it *)
(* and although running times wrap around.                                 *)
FirstRun ==
    \A i \in 2..(MaxUid + 1) :
        NeverRan(i) ~> (halted # "no" \/ ~NeverRan(i))

(* "if it did run for that long, find a process to replace it" (process/   *)
(* README.md:14-15): no ready process is passed over for ever, neither for *)
(* one that computes and never calls the kernel, nor for alive, though its *)
(* score is at times 0 or negative and the quantum at times not over.      *)
RunsAgain ==
    \A i \in 2..(MaxUid + 1) : Ready(i) ~> (halted # "no" \/ ~Ready(i))

=============================================================================
