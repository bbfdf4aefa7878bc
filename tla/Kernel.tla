------------------------------- MODULE Kernel -------------------------------
(***************************************************************************)
(* TomatKernel: the process table, the timers, the keyboard interrupt and  *)
(* the scheduler, interleaved with the code the CPU executes.              *)
(*                                                                         *)
(* Interrupts are enabled in all code but the handlers, so a handler is    *)
(* one atomic action and the timer or the keyboard may interrupt anything  *)
(* else: the boot code, a process, alive's wait loop, and process_start,   *)
(* which kernel code calls outside any handler and which is therefore      *)
(* split at the points where an interrupt sees a difference.               *)
(*                                                                         *)
(* The initial state is the one after ps2_keyboard_init.                   *)
(***************************************************************************)
EXTENDS Timers

CONSTANTS
    Users,         \* users of the processes that kernel code starts
    KeyBursts,     \* event sequences one key press or release appends
    UserEvents,    \* events a process queues with the queue_event syscall
    Delays,        \* durations of the timers that processes start
    UninitTimes,   \* what the boot stack may hold for alive's times
    ReuseSlots,    \* may process_start run while the table has a dead slot
    MaxSlots,      \* bound: entries of the table
    MaxUid,        \* bound: processes ever created
    MaxTimerId,    \* bound: timers ever started
    MaxQueue       \* bound: queue length at which keys and queue_event stop

ASSUME KernelAssumption ==
    /\ Users \subseteq User
    /\ KeyBursts \subseteq Seq(Event)
    /\ \A burst \in KeyBursts :
          \A n \in DOMAIN burst : burst[n].kind # "TIMER"
    /\ UserEvents \subseteq {e \in Event : e.kind # "TIMER"}
    /\ Delays \subseteq Time
    /\ UninitTimes \subseteq Time
    /\ ReuseSlots \in BOOLEAN
    /\ {MaxSlots, MaxUid, MaxTimerId, MaxQueue} \subseteq Nat

VARIABLES
    procs,        \* processes
    uid,          \* the last process uid given out
    timers,       \* timers
    ids,          \* the last timer id given out
    enabled,      \* SYSCALL_START has run
    can_update,   \* the lock that keeps the scheduler out of the table
    updates,      \* ticks that found the table locked
    start,        \* the process_start in progress
    cpu,          \* what the CPU executes: slot and context, slot 0 at boot
    halted        \* why the kernel stopped for good, "no" while it runs

vars == <<procs, uid, timers, ids, enabled, can_update, updates, start, cpu,
          halted>>

(* idle; locked: can_update is false, the table still unchanged; pushed:   *)
(* the process is in the table, can_update still false.  new is the        *)
(* caller's process_t.                                                     *)
NoStart == [phase |-> "idle", new |-> NewProcess(0, 0, FALSE)]

HaltReasons == {"no", "no_running", "no_owner", "no_core", "fault"}

Init ==
    /\ \E susp, run \in UninitTimes : procs = <<AliveProcess(susp, run)>>
    /\ uid = 0
    /\ timers = <<>>
    /\ ids = 0
    /\ enabled = FALSE
    /\ can_update = FALSE
    /\ updates = 0
    /\ start = NoStart
    /\ cpu = [slot |-> NoSlot, ctx |-> "boot"]
    /\ halted = "no"

-----------------------------------------------------------------------------
(* kpanic, or the exception handler: neither ever returns.                 *)
Halt(reason) ==
    /\ halted' = reason
    /\ UNCHANGED <<procs, uid, timers, ids, enabled, can_update, updates,
                   start, cpu>>

(* The CPU is in the code of process p, outside process_start.             *)
InProcess(ctx) == halted = "no" /\ start.phase = "idle" /\ cpu.ctx = ctx

-----------------------------------------------------------------------------
(* Creating a process: kernel code, at boot or in a process of the kernel's *)
(* segments.                                                               *)

BeginStart(user, core) ==
    /\ uid < MaxUid
    /\ ReuseSlots \/ DeadSlot(procs) = NoSlot
    /\ Len(procs) < MaxSlots \/ DeadSlot(procs) # NoSlot
    /\ uid' = uid + 1
    /\ start' = [phase |-> "locked", new |-> NewProcess(uid', user, core)]
    /\ can_update' = FALSE
    /\ UNCHANGED <<procs, timers, ids, enabled, updates, cpu, halted>>

BootStart ==
    /\ InProcess("boot") /\ uid = 0
    /\ BeginStart(UserAlive, TRUE)

ProcessStart(user) ==
    /\ InProcess("user") /\ procs[cpu.slot].user = UserAlive
    /\ BeginStart(user, FALSE)

(* A dead slot is reused and the function returns at once; otherwise the   *)
(* table grows.                                                            *)
InsertProcess ==
    /\ halted = "no" /\ start.phase = "locked"
    /\ LET dead == DeadSlot(procs) IN
       \/ /\ dead # NoSlot
          /\ procs' = [procs EXCEPT ![dead] = start.new]
          /\ start' = NoStart
       \/ /\ dead = NoSlot
          /\ procs' = Append(procs, start.new)
          /\ start' = [start EXCEPT !.phase = "pushed"]
    /\ UNCHANGED <<uid, timers, ids, enabled, can_update, updates, cpu, halted>>

(* Mutant: process_start does not unlock the table.                        *)
UnlockNothing ==
    /\ halted = "no" /\ start.phase = "pushed"
    /\ start' = NoStart
    /\ UNCHANGED <<procs, uid, timers, ids, enabled, can_update, updates, cpu,
                   halted>>

UnlockTable ==
    /\ halted = "no" /\ start.phase = "pushed"
    /\ start' = NoStart
    /\ can_update' = TRUE
    /\ UNCHANGED <<procs, uid, timers, ids, enabled, updates, cpu, halted>>

-----------------------------------------------------------------------------
(* scheduler_update(regs, false) on the table P: it returns at once while  *)
(* the table is locked, and then the CPU goes on at ctx.                   *)
Yield(P, ctx) ==
    LET next == Dispatch(P) IN
    IF can_update' THEN procs' = next.procs /\ cpu' = next.cpu
    ELSE procs' = P /\ cpu' = [cpu EXCEPT !.ctx = ctx]

(* SYSCALL_START, the last step of the boot.                               *)
StartAlive ==
    /\ InProcess("boot") /\ ~enabled /\ uid > 0
    /\ enabled' = TRUE
    /\ UNCHANGED <<uid, timers, ids, can_update, updates, start, halted>>
    /\ Yield(procs, "boot")

(* alive_wait_for_events, up to its endless loop.                          *)
AliveWait ==
    /\ InProcess("main")
    /\ procs' = [procs EXCEPT ![ALIVE] = Wait(@)]
    /\ cpu' = [cpu EXCEPT !.ctx = "idle"]
    /\ UNCHANGED <<uid, timers, ids, enabled, can_update, updates, start, halted>>

-----------------------------------------------------------------------------
(* System calls.  Each looks for the running process first; running is the *)
(* slot it finds.                                                          *)

PullEvent ==
    /\ InProcess("user")
    /\ LET running == RunningSlot(procs)
           p == procs[running] IN
       IF running = NoSlot THEN Halt("no_running")
       ELSE /\ UNCHANGED <<uid, timers, ids, enabled, can_update, updates,
                           start, halted>>
            /\ \/ /\ p.events # <<>>
                  /\ procs' = [procs EXCEPT ![running] = Pull(@)]
                  /\ cpu' = [cpu EXCEPT !.ctx = "event"]
               \/ /\ p.events = <<>>
                  /\ Yield([procs EXCEPT ![running] = Suspend(@)], "blocked")

(* The process copies the event that eax points to.                        *)
ReadEvent ==
    /\ InProcess("event")
    /\ cpu' = [cpu EXCEPT !.ctx = "user"]
    /\ UNCHANGED <<procs, uid, timers, ids, enabled, can_update, updates,
                   start, halted>>

(* eax still holds the number of the system call: page 0 is not mapped.    *)
ReadNothing ==
    /\ InProcess("blocked")
    /\ Halt("fault")

(* An unknown target or a missing permission leaves everything as it is.   *)
QueueEvent(target, event) ==
    /\ InProcess("user")
    /\ LET running == RunningSlot(procs)
           to == IF target = 0 THEN running ELSE Lookup(procs, target) IN
       IF running = NoSlot THEN Halt("no_running")
       ELSE /\ to # NoSlot
            /\ to = running
                 \/ HasPermission(procs[to].user, procs[running].user)
            /\ Len(procs[to].events) < MaxQueue
            /\ procs' = [procs EXCEPT ![to] = Post(@, <<event>>)]
            /\ UNCHANGED <<uid, timers, ids, enabled, can_update, updates,
                           start, cpu, halted>>

(* process_kill: the process loses its queue and its timers; if it was the *)
(* running one, another takes the CPU.                                     *)
ProcessKill(i) ==
    LET P == [procs EXCEPT ![i] = Bury(@)] IN
    /\ timers' = Cancel(timers, procs[i].uid, 0)
    /\ can_update' = TRUE
    /\ IF procs[i].status = "RUNNING" THEN Yield(P, "user")
       ELSE procs' = P /\ cpu' = cpu
    /\ UNCHANGED <<uid, ids, enabled, updates, start, halted>>

(* A caller that has permission over another process returns early.  An    *)
(* unknown uid dereferences NULL.                                          *)
KillAllowed(i, running) == ~HasPermission(procs[i].user, procs[running].user)

Kill(target) ==
    /\ InProcess("user")
    /\ LET running == RunningSlot(procs)
           victim == IF target = 0 THEN running ELSE Lookup(procs, target) IN
       IF NoSlot \in {running, victim} THEN Halt("fault")
       ELSE /\ target = 0 \/ KillAllowed(victim, running)
            /\ ProcessKill(victim)

StartTimer(delay) ==
    /\ InProcess("user")
    /\ LET running == RunningSlot(procs) IN
       IF running = NoSlot THEN Halt("no_running")
       ELSE /\ ids < MaxTimerId
            /\ ids' = ids + 1
            /\ timers' = Install(timers,
                   [id |-> ids', uid |-> procs[running].uid, left |-> delay,
                    finished |-> FALSE])
            /\ UNCHANGED <<procs, uid, enabled, can_update, updates, start,
                           cpu, halted>>

CancelTimer(id) ==
    /\ InProcess("user")
    /\ LET running == RunningSlot(procs) IN
       IF running = NoSlot THEN Halt("no_running")
       ELSE /\ timers' = Cancel(timers, procs[running].uid, id)
            /\ UNCHANGED <<procs, uid, ids, enabled, can_update, updates,
                           start, cpu, halted>>

-----------------------------------------------------------------------------
(* Interrupts.                                                             *)

(* scheduler_update(regs, true) on the table P.                            *)
TimerUpdate(P) ==
    CASE ~enabled -> /\ procs' = P
                     /\ UNCHANGED <<updates, cpu>>
      [] enabled /\ ~can_update -> /\ procs' = P
                                   /\ updates' = (updates + 1) % TimeMod
                                   /\ UNCHANGED cpu
      [] OTHER ->
           \E Q \in {AccountAll(P, updates * Tick + Tick)} :
           \E next \in {Reschedule(Q, cpu)} :
              /\ procs' = next.procs
              /\ cpu' = next.cpu
              /\ updates' = 0

TimerIRQ ==
    /\ halted = "no"
    /\ IF Orphans(procs, timers) # {} THEN Halt("no_owner")
       ELSE /\ timers' = CountdownAll(timers)
            /\ \E P \in {PostExpired(procs, timers)} : TimerUpdate(P)
            /\ UNCHANGED <<uid, ids, enabled, can_update, start, halted>>

KeyboardIRQ(burst) ==
    /\ halted = "no"
    /\ LET core == CoreSlot(procs) IN
       IF core = NoSlot THEN Halt("no_core")
       ELSE /\ Len(procs[core].events) < MaxQueue
            /\ procs' = [procs EXCEPT ![core] = Post(@, burst)]
            /\ UNCHANGED <<uid, timers, ids, enabled, can_update, updates,
                           start, cpu, halted>>

-----------------------------------------------------------------------------
Boot == BootStart \/ InsertProcess \/ UnlockTable \/ StartAlive

Syscall ==
    \/ PullEvent
    \/ \E target \in 0..MaxUid, event \in UserEvents : QueueEvent(target, event)
    \/ \E target \in 0..MaxUid : Kill(target)
    \/ \E delay \in Delays : StartTimer(delay)
    \/ \E id \in 0..MaxTimerId : CancelTimer(id)

Next ==
    \/ Boot
    \/ \E user \in Users : ProcessStart(user)
    \/ AliveWait
    \/ Syscall
    \/ ReadEvent
    \/ ReadNothing
    \/ TimerIRQ
    \/ \E burst \in KeyBursts : KeyboardIRQ(burst)

Spec == Init /\ [][Next]_vars

(* The hardware keeps ticking, kernel code that is not waiting for anything *)
(* keeps running between two ticks, and so does the copy of the event that *)
(* the library makes when pull_event returns (os.h).  The few instructions *)
(* of alive_wait_for_events run to their end if they get the 10 ms between *)
(* two ticks again and again, even if now and then they do not.  Nothing   *)
(* is assumed of the code of the processes: it may loop for ever.          *)
Fairness ==
    /\ WF_vars(TimerIRQ)
    /\ WF_vars(Boot)
    /\ SF_vars(AliveWait)
    /\ WF_vars(ReadEvent \/ ReadNothing)

FairSpec == Spec /\ Fairness
=============================================================================
