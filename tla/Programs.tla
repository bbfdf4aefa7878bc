------------------------------ MODULE Programs ------------------------------
(***************************************************************************)
(* A process and its library on the kernel: the event loop of kernel.cpp,  *)
(* or any other program written against TomatLib's OS.hpp, over the system *)
(* calls, the timers, the keyboard and the scheduler of Kernel.            *)
(*                                                                         *)
(* There is one process besides alive, the core process of the boot.  The  *)
(* code of the library between two system calls is part of the step that   *)
(* copies an event (ReadEvent): nothing else reads what it works on.       *)
(***************************************************************************)
EXTENDS KernelProperties

CONSTANTS
    Milli,      \* 1000: milliseconds of a second, as the library has it
    Arguments,  \* the times a program passes to StartTimer and Sleep
    Wanted,     \* the kinds of events a program asks for
    MaxChars,   \* bound: characters ever typed, to kmain
    MaxKeys     \* bound: and to another program

ASSUME ProgramsAssumption ==
    /\ Milli \in Nat \ {0} /\ Arguments \subseteq Nat /\ {MaxChars, MaxKeys} \subseteq Nat
    /\ Wanted \subseteq EventKinds \cup {"ANY"}

VARIABLES
    program,    \* "kmain" or "app": what the process executes
    call,       \* the library function it is in
    timer,      \* the local variable of kmain, 0 until it is set
    typed,      \* how many characters were typed
    shown,      \* the characters kmain has written to the terminal
    said,       \* how often it has written "One second passed!"
    ticks       \* timer interrupts since the timer was started that Sleep,
                \* or kmain, waits for (bound: up to its time)

libVars == <<program, call, timer, typed, shown, said, ticks>>
allVars == <<vars, libVars>>

PROCESS == 2                    \* its slot

Functions == {"none", "PullEvent", "Sleep"}
Kinds == Wanted \cup {"ANY", "TIMER"}
(* dying: PullEvent is about to call tomato_os_kill.                       *)
NoCall == [fn |-> "none", kind |-> "ANY", timer |-> 0, asked |-> 0, dying |-> FALSE]

(* (uint32_t)(seconds * 1000)                                              *)
Millis(seconds) == (seconds * Milli) % TimeMod

CharEvent(n) == [kind |-> "CHAR", id |-> n]
KeyEvent == [kind |-> "KEY", id |-> 0]

(* What a key and the library ask of the kernel is what Kernel lets them.  *)
ASSUME LibraryAssumption ==
    /\ \A n \in 1..MaxChars \cup 1..MaxKeys : <<KeyEvent, CharEvent(n)>> \in KeyBursts
    /\ \A time \in Arguments \cup {1} : Millis(time) \in Delays

ProgramsInit ==
    /\ Init
    /\ program \in {"kmain", "app"}
    /\ call = NoCall
    /\ timer = 0 /\ typed = 0 /\ shown = <<>> /\ said = 0 /\ ticks = 0

-----------------------------------------------------------------------------
(* The kernel's own steps.  (ReadNothing is disabled: see PullReturnsEvent.) *)

KernelBoot == Boot /\ UNCHANGED libVars
KernelWait == AliveWait /\ UNCHANGED libVars

(* A timer is waited for, and its time is not over.                        *)
Awaited == Millis(IF call.fn = "Sleep" THEN call.asked ELSE 1)
Counting ==
    /\ call.timer # 0 \/ (timer # 0 /\ said = 0)
    /\ ticks * Tick < Awaited

Tock ==
    /\ TimerIRQ
    /\ ticks' = IF Counting THEN ticks + 1 ELSE ticks
    /\ UNCHANGED <<program, call, timer, typed, shown, said>>

(* A key that has a character sends KEY and CHAR (key_press).              *)
Press ==
    /\ typed < IF program = "kmain" THEN MaxChars ELSE MaxKeys
    /\ KeyboardIRQ(<<KeyEvent, CharEvent(typed + 1)>>)
    /\ typed' = IF halted' = "no" THEN typed + 1 ELSE typed
    /\ UNCHANGED <<program, call, timer, shown, said, ticks>>

-----------------------------------------------------------------------------
(* The library, OS.hpp.                                                    *)

(* Mutant: events of no kind in particular are looked for among the others.*)
AcceptsSame(kind, e) == e.kind = kind
(* The wait loop of PullEventRaw ends with an event of the kind asked for. *)
Accepts(kind, e) == kind = "ANY" \/ e.kind = kind

(* PullEvent ends the process on TERMINATE, if it gets to see it.          *)
Dies(c, e) == Accepts(c.kind, e) /\ e.kind = "TERMINATE"

(* Mutant: Sleep ends with the event of any timer.                         *)
ReturnsOnTimer(c, e) == Accepts(c.kind, e) /\ ~Dies(c, e)
(* The function called returns to the program.  Sleep waits for its timer. *)
Returns(c, e) ==
    /\ Accepts(c.kind, e) /\ ~Dies(c, e)
    /\ c.fn = "Sleep" => e.id = c.timer

(* The call in progress after it has read the event e.                     *)
After(c, e) ==
    IF Returns(c, e) THEN NoCall
    ELSE [c EXCEPT !.dying = Dies(c, e)]

(* pull_event, called from the library.                                    *)
Pull_Event ==
    /\ call.fn # "none" /\ ~call.dying
    /\ PullEvent
    /\ UNCHANGED libVars

(* What kmain does with the event that PullEvent returns.                  *)
Written(e) ==
    /\ shown' = IF e.kind = "CHAR" THEN Append(shown, e.id) ELSE shown
    /\ said' = IF e.kind = "TIMER" /\ e.id = timer THEN said + 1 ELSE said

(* The event is copied; the library goes on waiting or returns it.         *)
Read_Event ==
    LET e == procs[PROCESS].cur IN
    /\ ReadEvent
    /\ call' = After(call, e)
    /\ IF program = "kmain" /\ Returns(call, e) THEN Written(e)
       ELSE UNCHANGED <<shown, said>>
    /\ ticks' = IF call.timer # call'.timer \/ said # said' THEN 0 ELSE ticks
    /\ UNCHANGED <<program, timer, typed>>

(* tomato_os_kill(0) in PullEvent: it never returns.                       *)
Terminate ==
    /\ call.dying
    /\ Kill(0)
    /\ call' = NoCall
    /\ UNCHANGED <<program, timer, typed, shown, said, ticks>>

-----------------------------------------------------------------------------
(* kmain, kernel.cpp.                                                      *)

KmainTimer ==
    /\ program = "kmain" /\ timer = 0
    /\ StartTimer(Millis(1))
    /\ timer' = ids'
    /\ UNCHANGED <<program, call, typed, shown, said, ticks>>

(* The loop: PullEvent() with its first system call.                       *)
KmainPull ==
    /\ program = "kmain" /\ timer # 0 /\ call.fn = "none"
    /\ PullEvent
    /\ call' = [NoCall EXCEPT !.fn = "PullEvent"]
    /\ UNCHANGED <<program, timer, typed, shown, said, ticks>>

-----------------------------------------------------------------------------
(* Any other program: all it can ask of the library.                       *)

InApp == program = "app" /\ call.fn = "none"

AppPull(kind) ==
    /\ InApp /\ InProcess("user")
    /\ call' = [NoCall EXCEPT !.fn = "PullEvent", !.kind = kind]
    /\ UNCHANGED <<vars, program, timer, typed, shown, said, ticks>>

(* Mutant: the timer of Sleep is the one started before.                   *)
AppSleepOld(time) ==
    /\ InApp
    /\ StartTimer(Millis(time))
    /\ call' = [NoCall EXCEPT !.fn = "Sleep", !.kind = "TIMER", !.timer = ids,
                              !.asked = time]
    /\ UNCHANGED <<program, timer, typed, shown, said, ticks>>

(* Sleep passes its milliseconds to StartTimer, which takes seconds.       *)
AppSleep(time) ==
    /\ InApp
    /\ StartTimer(Millis(time))
    /\ call' = [NoCall EXCEPT !.fn = "Sleep", !.kind = "TIMER", !.timer = ids',
                              !.asked = time]
    /\ UNCHANGED <<program, timer, typed, shown, said, ticks>>

AppTimer(seconds) ==
    /\ InApp
    /\ StartTimer(Millis(seconds))
    /\ UNCHANGED libVars

AppQueue(e) == InApp /\ QueueEvent(0, e) /\ UNCHANGED libVars
AppKill == InApp /\ Kill(0) /\ UNCHANGED libVars

-----------------------------------------------------------------------------
Library == Pull_Event \/ Read_Event \/ Terminate
Kmain == KmainTimer \/ KmainPull
App ==
    \/ \E kind \in Wanted : AppPull(kind)
    \/ \E time \in Arguments : AppSleep(time) \/ AppTimer(time)
    \/ \E e \in UserEvents : AppQueue(e)
    \/ AppKill

ProgramsNext == KernelBoot \/ KernelWait \/ Tock \/ Press \/ Library \/ Kmain \/ App

ProgramsSpec == ProgramsInit /\ [][ProgramsNext]_allVars

(* What Kernel assumes, and that the loops of the library and of kmain,    *)
(* which do nothing but system calls, make one whenever they have the CPU  *)
(* for 10 ms, again and again.  The rest of a program may compute for ever.*)
ProgramsFairness ==
    /\ WF_allVars(Tock)
    /\ WF_allVars(KernelBoot)
    /\ SF_allVars(KernelWait)
    /\ SF_allVars(Library)
    /\ SF_allVars(Kmain)

ProgramsFairSpec == ProgramsSpec /\ ProgramsFairness

-----------------------------------------------------------------------------
(* Properties.                                                             *)

Alive == PROCESS \in Live(procs)

(* The characters in a sequence of events carry the numbers behind from,   *)
(* in order and each once, up to to.                                       *)
CharsTo(events, n) == Cardinality({m \in 1..n : events[m].kind = "CHAR"})
Numbered(events, from, to) ==
    /\ \A n \in DOMAIN events :
          events[n].kind = "CHAR" => events[n].id = from + CharsTo(events, n)
    /\ from + CharsTo(events, Len(events)) = to

(* What was typed, from the keyboard interrupt to the terminal: what kmain *)
(* has written and what it still has to read is every character typed, in  *)
(* order and once, whether it was waiting, ready or running.               *)
EchoesTyped ==
    program = "kmain" /\ Alive =>
        /\ \A n \in DOMAIN shown : shown[n] = n
        /\ Numbered(Unread(PROCESS), Len(shown), typed)

(* Nobody acts on a timer before its time is over, whatever other timers   *)
(* of the process expire and whatever else arrives meanwhile: Sleep does   *)
(* not return, and kmain does not write "One second passed!", which it     *)
(* writes once.                                                            *)
NeverEarly ==
    [][/\ call.fn = "Sleep" /\ call'.fn = "none" /\ ~call.dying
            => ticks * Tick >= Millis(call.asked)
       /\ said' # said => said = 0 /\ ticks * Tick >= Millis(1)]_allVars

(* kmain answers: the line is written after all, and so is every character *)
(* typed, though keys come before the second has passed and after, and     *)
(* though kmain is suspended and preempted in between.                     *)
KmainAnswers ==
    program = "kmain" ~> halted # "no" \/ (said = 1 /\ Len(shown) = typed)

(* Sleep returns: its timer fires, wakes the process and is recognised,    *)
(* though the loop destroys the events in front of it.                     *)
SleepEnds == call.fn = "Sleep" ~> call.fn # "Sleep"
=============================================================================
