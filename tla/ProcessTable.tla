---------------------------- MODULE ProcessTable ----------------------------
(***************************************************************************)
(* The process table of core/process/process.c: what a process_t holds,    *)
(* how the table is searched, and what one pass of the scheduler does to   *)
(* it.  The module has no state of its own: the operators take a table P   *)
(* (the growable array "processes") and return the new one.  Kernel.tla    *)
(* composes them with the timers, the keyboard and the CPU.                *)
(*                                                                         *)
(* The registers of a process are abstracted to the place where it resumes *)
(* (Contexts).  Times count milliseconds in unsigned integers of TimeMod   *)
(* values; Tick and Quantum are the code's 10 and 1000.                    *)
(***************************************************************************)
EXTENDS Integers, Sequences, FiniteSets

CONSTANTS
    TimeMod,     \* 2^32 in the code: suspended_time and running_time wrap
    Tick,        \* 10 ms between two timer interrupts
    Quantum      \* 1000 ms shared by the live processes

ASSUME TimeAssumption ==
    /\ TimeMod \in Nat \ {0}
    /\ Tick \in Nat \ {0}
    /\ Quantum \in Nat

-----------------------------------------------------------------------------
(* perm.h: users are bytes, 0xFF runs in the kernel's segments.            *)

UserAlive == 255
User == 0..UserAlive

HasPermission(required, has) == required = 0 \/ has > required - 1

(* EventKinds: event_type of process.h, without the mouse events no driver *)
(* produces.  id is data[0]: the timer's id, 0 for every other event.      *)
EventKinds == {"ALL", "CHAR", "KEY", "KEY_UP", "TIMER", "TERMINATE"}
Event == [kind : EventKinds, id : Nat]
ZeroEvent == [kind |-> "ALL", id |-> 0]

(* main: at the entry of alive_wait_for_events; idle: in its endless loop; *)
(* user: in the process's own code; event: just returned from pull_event   *)
(* with eax = &current_event, which it has not read yet; blocked: returned *)
(* from pull_event with eax untouched.                                     *)
Contexts == {"main", "idle", "user", "event", "blocked"}

Statuses == {"RUNNING", "NORMAL", "SUSPENDED", "DEAD"}
Time == 0..(TimeMod - 1)

Process ==
    [uid : Nat, user : User, core : BOOLEAN, status : Statuses,
     started : BOOLEAN, susp : Time, run : Time,
     events : Seq(Event), cur : Event, regs : Contexts]

ALIVE == 1                      \* processes[0] of the code

(* initialize_alive leaves both times to what is on the boot stack.        *)
AliveProcess(susp, run) ==
    [uid |-> 0, user |-> UserAlive, core |-> FALSE, status |-> "SUSPENDED",
     started |-> TRUE, susp |-> susp, run |-> run,
     events |-> <<>>, cur |-> ZeroEvent, regs |-> "main"]

(* process_create, and the two fields process_start sets before it looks   *)
(* for a place.                                                            *)
NewProcess(newUid, user, core) ==
    [uid |-> newUid, user |-> user, core |-> core, status |-> "NORMAL",
     started |-> FALSE, susp |-> 0, run |-> 0,
     events |-> <<>>, cur |-> ZeroEvent, regs |-> "user"]

-----------------------------------------------------------------------------
(* Searching the table: every search of the code returns the first match,  *)
(* NoSlot stands for NULL.                                                 *)

NoSlot == 0

First(S) ==
    IF S = {} THEN NoSlot ELSE CHOOSE i \in S : \A j \in S : i <= j

Live(P) == {i \in DOMAIN P : P[i].status # "DEAD"}
WithStatus(P, status) == {i \in DOMAIN P : P[i].status = status}

Lookup(P, id) == First({i \in Live(P) : P[i].uid = id})
(* Mutant: the search for the core process takes only a ready one.         *)
CoreSlotIfReady(P) == First({i \in WithStatus(P, "NORMAL") : P[i].core})
CoreSlot(P) == First({i \in Live(P) : P[i].core})
RunningSlot(P) == First(WithStatus(P, "RUNNING"))
DeadSlot(P) == First(WithStatus(P, "DEAD"))

-----------------------------------------------------------------------------
(* Event queues.                                                           *)

Post(p, evs) == [p EXCEPT !.events = @ \o evs]
Pull(p) == [p EXCEPT !.cur = Head(p.events), !.events = Tail(p.events)]

(* A suspended process gets its event as the result of the pull_event that *)
(* suspended it.                                                           *)
(* Mutant: the result is not set.                                          *)
WakeKeepsEax(p) == [Pull(p) EXCEPT !.status = "NORMAL"]
Wake(p) == [Pull(p) EXCEPT !.regs = "event", !.status = "NORMAL"]

(* pull_event on an empty queue, alive's wait loop, and death.             *)
Suspend(p) == [p EXCEPT !.status = "SUSPENDED", !.regs = "blocked"]
Wait(p) == [p EXCEPT !.status = "SUSPENDED", !.started = TRUE]
Bury(p) == [p EXCEPT !.status = "DEAD", !.events = <<>>]

-----------------------------------------------------------------------------
(* The scheduler.                                                          *)

(* The accounting pass of scheduler_update for one process: the time goes  *)
(* to the running or to the waiting side, and a suspended process whose    *)
(* queue is not empty gets its first event and becomes ready.              *)

(* Mutant: the running time does not wrap.                                 *)
RanUnbounded(p, passed) == [p EXCEPT !.run = @ + passed]
Ran(p, passed) == [p EXCEPT !.run = (@ + passed) % TimeMod]
Waited(p, passed) == [p EXCEPT !.susp = (@ + passed) % TimeMod]

(* Mutants: a ready process is handed an event as well; one event is not   *)
(* enough to wake a process.                                               *)
WakesReady(p) == p.status \in {"SUSPENDED", "NORMAL"} /\ p.events # <<>>
WakesOnTwo(p) == p.status = "SUSPENDED" /\ Len(p.events) > 1
Wakes(p) == p.status = "SUSPENDED" /\ p.events # <<>>

Account(p, passed) ==
    CASE p.status = "RUNNING" -> Ran(p, passed)
      [] p.status = "DEAD"    -> p
      [] Wakes(p)             -> Wake(Waited(p, passed))
      [] OTHER                -> Waited(p, passed)

(* Mutant: the ticks that found the table locked are forgotten.            *)
AccountOneTick(P, passed) == [i \in DOMAIN P |-> Account(P[i], Tick)]
AccountAll(P, passed) == [i \in DOMAIN P |-> Account(P[i], passed)]

(* int score = uint32: the upper half of the range is negative.  priority  *)
(* is 0 for every process, nothing sets it.                                *)
Score(p) == IF 2 * p.susp >= TimeMod THEN p.susp - TimeMod ELSE p.susp

(* A ready process that never ran goes first; otherwise the first of those *)
(* with the greatest positive score; NoSlot when there is none.            *)
Best(P) ==
    LET ready == WithStatus(P, "NORMAL")
        fresh == {i \in ready : ~P[i].started}
        waited == {i \in ready : Score(P[i]) > 0}
        longest == {i \in waited : \A j \in waited : Score(P[j]) <= Score(P[i])}
    IN  IF fresh # {} THEN First(fresh) ELSE First(longest)

(* process_switch: the process that loses the CPU saves its registers and  *)
(* is ready; the one that gets it starts with fresh registers, at the      *)
(* entry of its main, unless it was started before.                        *)

(* Mutants: the process that loses the CPU stays RUNNING; only a process   *)
(* that starts becomes RUNNING.                                            *)
PreemptRunning(p, ctx) == [p EXCEPT !.regs = ctx]
ResumeStarting(p, entry) ==
    IF p.started THEN p
    ELSE [p EXCEPT !.status = "RUNNING", !.started = TRUE, !.regs = entry]

Preempt(p, ctx) == [p EXCEPT !.regs = ctx, !.status = "NORMAL"]
Resume(p, entry) ==
    [p EXCEPT !.status = "RUNNING", !.started = TRUE,
              !.regs = IF p.started THEN p.regs ELSE entry]

Entry(i) == IF i = ALIVE THEN "main" ELSE "user"
Resumed(P, i) == [P EXCEPT ![i] = Resume(@, Entry(i))]

(* Mutant: the quantum is compared with the wrong counter.                 *)
QuantumOfWaiting(P, i) == P[i].susp > Quantum \div Cardinality(Live(P))
(* running_time > 1000 / count + priority * 100, count being every process *)
(* that is not dead.                                                       *)
QuantumOver(P, i) == P[i].run > Quantum \div Cardinality(Live(P))

(* The CPU: the slot whose code it executes, and where it is in it.        *)
Cpu(P, i) == [slot |-> i, ctx |-> P[i].regs]

Restart(p) == [p EXCEPT !.started = FALSE]

(* scheduler_update without a running process: the best one, or alive,     *)
(* whose wait loop starts over.                                            *)
Dispatch(P) ==
    LET best == Best(P)
        Q == IF best # NoSlot THEN Resumed(P, best)
             ELSE Resumed([P EXCEPT ![ALIVE] = Restart(@)], ALIVE)
    IN  [procs |-> Q, cpu |-> Cpu(Q, IF best # NoSlot THEN best ELSE ALIVE)]

(* scheduler_update from the timer, after the accounting pass.             *)
Reschedule(P, cpu) ==
    LET current == RunningSlot(P)
        best == Best(P)
        Q == Resumed([P EXCEPT ![current] = Preempt(@, cpu.ctx)], best)
    IN  IF current = NoSlot THEN Dispatch(P)
        ELSE IF QuantumOver(P, current) /\ best # NoSlot
             THEN [procs |-> Q, cpu |-> Cpu(Q, best)]
             ELSE [procs |-> P, cpu |-> cpu]
=============================================================================
