--------------------------- MODULE ProgramsProofs ---------------------------
(***************************************************************************)
(* A program and its library do on the kernel what Kernel.tla lets them    *)
(* do, act on no timer before its time is over, and write what was typed:  *)
(* theorems about Programs.tla, for every value of its constants.          *)
(***************************************************************************)
EXTENDS Programs, TimerProofs

-----------------------------------------------------------------------------
(* Numbered characters.                                                    *)

LEMMA EventsAre ==
    ASSUME NEW s \in Seq(Event)
    PROVE  /\ Len(s) \in Nat /\ DOMAIN s = 1..Len(s)
           /\ \A n \in 1..Len(s) : s[n] \in Event
OBVIOUS

LEMMA CharsFinite ==
    ASSUME NEW s, NEW n \in Nat
    PROVE  /\ IsFiniteSet({m \in 1..n : s[m].kind = "CHAR"})
           /\ CharsTo(s, n) \in Nat
<1>1. {m \in 1..n : s[m].kind = "CHAR"} \in SUBSET (1..n) /\ 1 \in Int /\ n \in Int
  OBVIOUS
<1>2. IsFiniteSet({m \in 1..n : s[m].kind = "CHAR"})
  BY <1>1, FS_Interval, FS_Subset
<1> QED BY <1>2, FS_CardinalityType DEF CharsTo

LEMMA CharsNone == ASSUME NEW s PROVE CharsTo(s, 0) = 0
<1>1. {m \in 1..0 : s[m].kind = "CHAR"} = {}
  OBVIOUS
<1> QED BY <1>1, FS_EmptySet DEF CharsTo

LEMMA CharsSame ==
    ASSUME NEW s, NEW t, NEW n \in Nat, \A m \in 1..n : t[m] = s[m]
    PROVE  CharsTo(t, n) = CharsTo(s, n)
<1>1. {m \in 1..n : t[m].kind = "CHAR"} = {m \in 1..n : s[m].kind = "CHAR"}
  OBVIOUS
<1> QED BY <1>1 DEF CharsTo

LEMMA CharsStep ==
    ASSUME NEW s, NEW n \in Nat
    PROVE  CharsTo(s, n + 1) =
             IF s[n + 1].kind = "CHAR" THEN CharsTo(s, n) + 1 ELSE CharsTo(s, n)
<1> DEFINE A == {m \in 1..n : s[m].kind = "CHAR"}
<1>1. n + 1 \notin A
  OBVIOUS
<1>2. {m \in 1..(n + 1) : s[m].kind = "CHAR"} =
        IF s[n + 1].kind = "CHAR" THEN A \cup {n + 1} ELSE A
  OBVIOUS
<1>3. IsFiniteSet(A) /\ CharsTo(s, n) \in Nat
  BY CharsFinite
<1>4. Cardinality(A \cup {n + 1}) = Cardinality(A) + 1
  BY <1>1, <1>3, FS_AddElement
<1>5. CharsTo(s, n) = Cardinality(A)
  BY DEF CharsTo
<1>6. CharsTo(s, n + 1) = Cardinality({m \in 1..(n + 1) : s[m].kind = "CHAR"})
  BY DEF CharsTo
<1> HIDE DEF A
<1> QED BY <1>2, <1>3, <1>4, <1>5, <1>6

LEMMA CharsRest ==
    ASSUME NEW s, NEW t, NEW n \in Nat, \A m \in 1..n : t[m] = s[m + 1]
    PROVE  CharsTo(s, n + 1) =
             IF s[1].kind = "CHAR" THEN CharsTo(t, n) + 1 ELSE CharsTo(t, n)
<1> DEFINE A == {m \in 1..n : t[m].kind = "CHAR"}
           B == {m \in 2..(n + 1) : s[m].kind = "CHAR"}
           f == [m \in A |-> m + 1]
<1>1. f \in Bijection(A, B)
  <2>1. \A m \in A : f[m] \in B
    OBVIOUS
  <2>2. \A m, o \in A : f[m] = f[o] => m = o
    OBVIOUS
  <2>3. \A b \in B : b - 1 \in A /\ f[b - 1] = b
    <3> TAKE b \in B
    <3>1. b - 1 \in 1..n /\ (b - 1) + 1 = b
      OBVIOUS
    <3>2. t[b - 1] = s[b]
      BY <3>1
    <3> QED BY <3>1, <3>2
  <2> QED BY <2>1, <2>2, <2>3 DEF Bijection, Injection, Surjection, IsInjective
<1>2. IsFiniteSet(A) /\ CharsTo(t, n) \in Nat
  BY CharsFinite
<1>3. IsFiniteSet(B) /\ Cardinality(B) = Cardinality(A)
  BY <1>1, <1>2, FS_Bijection DEF ExistsBijection
<1>4. 1 \notin B
  OBVIOUS
<1>5. {m \in 1..(n + 1) : s[m].kind = "CHAR"} =
        IF s[1].kind = "CHAR" THEN B \cup {1} ELSE B
  OBVIOUS
<1>6. Cardinality(B \cup {1}) = Cardinality(B) + 1
  BY <1>3, <1>4, FS_AddElement
<1>7. CharsTo(t, n) = Cardinality(A)
  BY DEF CharsTo
<1>8. CharsTo(s, n + 1) = Cardinality({m \in 1..(n + 1) : s[m].kind = "CHAR"})
  BY DEF CharsTo
<1> HIDE DEF A, B
<1> QED BY <1>2, <1>3, <1>5, <1>6, <1>7, <1>8

(* Events without a character join.                                        *)
LEMMA NumberedJoin ==
    ASSUME NEW s \in Seq(Event), NEW e \in Seq(Event), NEW from, NEW to,
           Numbered(s, from, to), \A n \in DOMAIN e : e[n].kind # "CHAR"
    PROVE  Numbered(s \o e, from, to)
<1> DEFINE t == s \o e
<1>1. /\ t \in Seq(Event) /\ Len(t) = Len(s) + Len(e) /\ Len(s) \in Nat /\ Len(e) \in Nat
      /\ \A n \in 1..Len(s) : t[n] = s[n]
      /\ \A n \in 1..Len(e) : t[Len(s) + n] = e[n]
  BY EventsAre, ConcatProperties
<1> HIDE DEF t
<1>2. \A n \in DOMAIN t : t[n].kind = "CHAR" => n \in DOMAIN s
  <2> SUFFICES ASSUME NEW n \in DOMAIN t, n \notin DOMAIN s
               PROVE  t[n].kind # "CHAR"
    OBVIOUS
  <2>1. n - Len(s) \in 1..Len(e) /\ Len(s) + (n - Len(s)) = n
    BY <1>1, EventsAre
  <2>2. t[n] = e[n - Len(s)] /\ n - Len(s) \in DOMAIN e
    BY <1>1, <2>1, EventsAre
  <2> QED BY <2>2
<1>3. ASSUME NEW n \in 0..Len(s)
      PROVE  CharsTo(t, n) = CharsTo(s, n)
  BY <1>1, CharsSame
<1>4. CharsTo(t, Len(t)) = CharsTo(s, Len(s))
  <2>1. {m \in 1..Len(t) : t[m].kind = "CHAR"} = {m \in 1..Len(s) : s[m].kind = "CHAR"}
    <3>1. \A m \in 1..Len(t) : t[m].kind = "CHAR" => m \in 1..Len(s)
      BY <1>1, <1>2, EventsAre
    <3>2. 1..Len(s) \subseteq 1..Len(t)
      BY <1>1
    <3> QED BY <1>1, <3>1, <3>2
  <2> QED BY <2>1 DEF CharsTo
<1>5. ASSUME NEW n \in DOMAIN t, t[n].kind = "CHAR"
      PROVE  t[n].id = from + CharsTo(t, n)
  <2>1. n \in DOMAIN s /\ n \in 1..Len(s) /\ n \in 0..Len(s)
    BY <1>2, <1>5, EventsAre
  <2>2. t[n] = s[n] /\ CharsTo(t, n) = CharsTo(s, n)
    BY <1>1, <1>3, <2>1
  <2> QED BY <1>5, <2>1, <2>2 DEF Numbered
<1>6. from + CharsTo(t, Len(t)) = to
  BY <1>4 DEF Numbered
<1>7. Numbered(t, from, to)
  BY <1>5, <1>6 DEF Numbered
<1> QED BY <1>7 DEF t

(* The next character joins.                                               *)
LEMMA NumberedNext ==
    ASSUME NEW s \in Seq(Event), NEW from \in Nat, NEW to \in Nat, Numbered(s, from, to),
           NEW c \in Event, c.kind = "CHAR", c.id = to + 1
    PROVE  Numbered(Append(s, c), from, to + 1)
<1> DEFINE t == Append(s, c)
<1>1. /\ t \in Seq(Event) /\ Len(t) = Len(s) + 1 /\ Len(s) \in Nat
      /\ \A n \in 1..Len(s) : t[n] = s[n]
      /\ t[Len(s) + 1] = c
  BY EventsAre, AppendProperties
<1> HIDE DEF t
<1>2. ASSUME NEW n \in 0..Len(s)
      PROVE  CharsTo(t, n) = CharsTo(s, n)
  BY <1>1, CharsSame
<1>3. CharsTo(t, Len(t)) = CharsTo(s, Len(s)) + 1 /\ CharsTo(s, Len(s)) \in Nat
  <2>1. Len(s) \in 0..Len(s)
    BY <1>1
  <2>2. CharsTo(s, Len(s)) \in Nat
    BY <1>1, CharsFinite
  <2>3. CharsTo(t, Len(s) + 1) = CharsTo(t, Len(s)) + 1
    BY <1>1, CharsStep
  <2> QED BY <1>1, <1>2, <2>1, <2>2, <2>3
<1>4. from + CharsTo(s, Len(s)) = to
  BY DEF Numbered
<1>5. ASSUME NEW n \in DOMAIN t, t[n].kind = "CHAR"
      PROVE  t[n].id = from + CharsTo(t, n)
  <2>1. n \in 1..Len(s) \/ n = Len(s) + 1
    BY <1>1, EventsAre
  <2>2. CASE n \in 1..Len(s)
    <3>1. t[n] = s[n] /\ CharsTo(t, n) = CharsTo(s, n) /\ n \in DOMAIN s
      BY <1>1, <1>2, <2>2, EventsAre
    <3> QED BY <1>5, <3>1 DEF Numbered
  <2>3. CASE n = Len(s) + 1
    BY <1>1, <1>3, <1>4, <2>3
  <2> QED BY <2>1, <2>2, <2>3
<1>6. from + CharsTo(t, Len(t)) = to + 1
  BY <1>3, <1>4
<1>7. Numbered(t, from, to + 1)
  BY <1>5, <1>6 DEF Numbered
<1> QED BY <1>7 DEF t

(* The first event is taken away.                                          *)
LEMMA NumberedTaken ==
    ASSUME NEW s \in Seq(Event), NEW from \in Nat, NEW to \in Nat,
           Numbered(s, from, to), s # <<>>
    PROVE  IF Head(s).kind = "CHAR"
           THEN Head(s).id = from + 1 /\ Numbered(Tail(s), from + 1, to)
           ELSE Numbered(Tail(s), from, to)
<1> DEFINE t == Tail(s)
           more == IF s[1].kind = "CHAR" THEN 1 ELSE 0
<1>1. /\ t \in Seq(Event) /\ Len(s) \in Nat \ {0} /\ Len(t) = Len(s) - 1 /\ Head(s) = s[1]
      /\ \A n \in 1..(Len(s) - 1) : t[n] = s[n + 1]
  BY EmptySeq, HeadTailProperties, EventsAre
<1> HIDE DEF t
<1>2. ASSUME NEW n \in 0..Len(t)
      PROVE  CharsTo(s, n + 1) = CharsTo(t, n) + more /\ CharsTo(t, n) \in Nat
  <2>1. n \in Nat /\ \A m \in 1..n : t[m] = s[m + 1]
    BY <1>1
  <2>2. CharsTo(t, n) \in Nat
    BY <2>1, CharsFinite
  <2>3. CharsTo(s, n + 1) =
          IF s[1].kind = "CHAR" THEN CharsTo(t, n) + 1 ELSE CharsTo(t, n)
    BY <2>1, CharsRest
  <2>4. CASE s[1].kind = "CHAR"
    BY <2>2, <2>3, <2>4
  <2>5. CASE s[1].kind # "CHAR"
    BY <2>2, <2>3, <2>5
  <2> QED BY <2>4, <2>5
<1>3. more \in 0..1 /\ from + more \in Nat
  OBVIOUS
<1>4. ASSUME NEW n \in DOMAIN t, t[n].kind = "CHAR"
      PROVE  t[n].id = (from + more) + CharsTo(t, n)
  <2>1. n \in 1..Len(t) /\ n \in 0..Len(t) /\ n + 1 \in DOMAIN s /\ t[n] = s[n + 1]
    BY <1>1, EventsAre
  <2>2. t[n].id = from + CharsTo(s, n + 1)
    BY <1>4, <2>1 DEF Numbered
  <2>3. CharsTo(s, n + 1) = CharsTo(t, n) + more /\ CharsTo(t, n) \in Nat
    BY <1>2, <2>1
  <2> QED BY <1>3, <2>2, <2>3
<1>5. (from + more) + CharsTo(t, Len(t)) = to
  <2>1. from + CharsTo(s, Len(s)) = to
    BY DEF Numbered
  <2>2. Len(t) \in 0..Len(t) /\ Len(t) + 1 = Len(s)
    BY <1>1
  <2>3. CharsTo(s, Len(s)) = CharsTo(t, Len(t)) + more /\ CharsTo(t, Len(t)) \in Nat
    BY <1>2, <2>2
  <2> QED BY <1>3, <2>1, <2>3
<1>6. Numbered(t, from + more, to)
  BY <1>4, <1>5 DEF Numbered
<1>7. ASSUME s[1].kind = "CHAR"
      PROVE  s[1].id = from + 1
  <2>1. 1 \in DOMAIN s /\ 0 \in Nat
    BY <1>1, EventsAre
  <2>2. CharsTo(s, 1) = 1
    <3>1. CharsTo(s, 0 + 1) = CharsTo(s, 0) + 1
      BY <1>7, <2>1, CharsStep, 0 + 1 = 1
    <3> QED BY <3>1, CharsNone
  <2> QED BY <1>7, <2>1, <2>2 DEF Numbered
<1>8. CASE s[1].kind = "CHAR"
  BY <1>1, <1>6, <1>7, <1>8 DEF t
<1>9. CASE s[1].kind # "CHAR"
  BY <1>1, <1>6, <1>9 DEF t
<1> QED BY <1>8, <1>9

-----------------------------------------------------------------------------
(* The program's steps on the kernel.                                      *)

(* A system call, an interrupt or a step of the kernel, all as Kernel.tla  *)
(* has them, or a step of the library's own.                               *)
LEMMA StepIsKernel ==
    ASSUME typed \in Nat, [ProgramsNext]_allVars
    PROVE  [Next]_vars
<1>0. 0 \in 0..MaxUid
  BY KernelAssumption
<1>1. CASE KernelBoot
  BY <1>1 DEF KernelBoot, Next
<1>2. CASE KernelWait
  BY <1>2 DEF KernelWait, Next
<1>3. CASE Tock
  BY <1>3 DEF Tock, Next
<1>4. CASE Press
  <2>1. typed + 1 \in 1..MaxChars \cup 1..MaxKeys
    <3>1. MaxChars \in Nat /\ MaxKeys \in Nat
      BY ProgramsAssumption
    <3>2. CASE program = "kmain"
      BY <1>4, <3>1, <3>2 DEF Press
    <3>3. CASE program # "kmain"
      BY <1>4, <3>1, <3>3 DEF Press
    <3> QED BY <3>2, <3>3
  <2>2. <<KeyEvent, CharEvent(typed + 1)>> \in KeyBursts
    BY <2>1, LibraryAssumption
  <2>3. KeyboardIRQ(<<KeyEvent, CharEvent(typed + 1)>>)
    BY <1>4 DEF Press
  <2> QED BY <2>2, <2>3 DEF Next
<1>5. CASE Pull_Event
  BY <1>5 DEF Pull_Event, Next, Syscall
<1>6. CASE Read_Event
  BY <1>6 DEF Read_Event, Next
<1>7. CASE Terminate
  BY <1>0, <1>7 DEF Terminate, Next, Syscall
<1>8. CASE KmainTimer
  <2>1. Millis(1) \in Delays
    BY LibraryAssumption
  <2> QED BY <1>8, <2>1 DEF KmainTimer, Next, Syscall
<1>9. CASE KmainPull
  BY <1>9 DEF KmainPull, Next, Syscall
<1>10. CASE \E kind \in Wanted : AppPull(kind)
  BY <1>10 DEF AppPull
<1>11. CASE \E time \in Arguments : AppSleep(time) \/ AppTimer(time)
  <2>1. PICK time \in Arguments : AppSleep(time) \/ AppTimer(time)
    BY <1>11
  <2>2. Millis(time) \in Delays
    BY LibraryAssumption
  <2>3. StartTimer(Millis(time))
    BY <2>1 DEF AppSleep, AppTimer
  <2> QED BY <2>2, <2>3 DEF Next, Syscall
<1>12. CASE \E e \in UserEvents : AppQueue(e)
  BY <1>0, <1>12 DEF AppQueue, Next, Syscall
<1>13. CASE AppKill
  BY <1>0, <1>13 DEF AppKill, Next, Syscall
<1>14. CASE UNCHANGED allVars
  BY <1>14 DEF allVars
<1> QED
  BY <1>1, <1>2, <1>3, <1>4, <1>5, <1>6, <1>7, <1>8, <1>9, <1>10, <1>11,
     <1>12, <1>13, <1>14 DEF ProgramsNext, Library, Kmain, App

(* Only a key changes how many characters were typed.                      *)
TypedOK == typed \in Nat

LEMMA TypedCounts ==
    ASSUME [ProgramsNext]_allVars
    PROVE  typed' = typed \/ (Press /\ typed' = typed + 1)
<1>1. CASE KernelBoot \/ KernelWait
  BY <1>1 DEF KernelBoot, KernelWait, libVars
<1>2. CASE Tock
  BY <1>2 DEF Tock
<1>3. CASE Press
  BY <1>3 DEF Press
<1>4. CASE Library
  BY <1>4 DEF Library, Pull_Event, Read_Event, Terminate, libVars
<1>5. CASE Kmain
  BY <1>5 DEF Kmain, KmainTimer, KmainPull
<1>6. CASE \E kind \in Wanted : AppPull(kind)
  BY <1>6 DEF AppPull
<1>7. CASE \E time \in Arguments : AppSleep(time) \/ AppTimer(time)
  BY <1>7 DEF AppSleep, AppTimer, libVars
<1>8. CASE \E e \in UserEvents : AppQueue(e)
  BY <1>8 DEF AppQueue, libVars
<1>9. CASE AppKill \/ UNCHANGED allVars
  BY <1>9 DEF AppKill, allVars, libVars
<1> QED
  BY <1>1, <1>2, <1>3, <1>4, <1>5, <1>6, <1>7, <1>8, <1>9 DEF ProgramsNext, App

(* A program and its library do nothing that Kernel.tla does not let the   *)
(* code of a process do: what is proved of the kernel holds under them.    *)
THEOREM ProgramsAreKernel == ProgramsSpec => Spec
<1>1. ProgramsInit => Init /\ TypedOK
  BY DEF ProgramsInit, TypedOK
<1>2. TypedOK /\ [ProgramsNext]_allVars => TypedOK'
  BY TypedCounts DEF TypedOK
<1>3. TypedOK /\ [ProgramsNext]_allVars => [Next]_vars
  BY StepIsKernel DEF TypedOK
<1> QED BY <1>1, <1>2, <1>3, PTL DEF ProgramsSpec, Spec

-----------------------------------------------------------------------------
(* The time of a timer.                                                    *)

(* A tick takes at most its 10 ms from a timer, and expires none that has  *)
(* more than that left.                                                    *)
LEMMA TickTakes ==
    ASSUME NEW t \in Timer, ~t.finished
    PROVE  /\ Countdown(t) \in Timer /\ Countdown(t).id = t.id
           /\ Expires(t) => t.left <= Tick /\ Countdown(t).finished
           /\ ~Expires(t) => Countdown(t).left >= t.left - Tick
<1>1. /\ t.left \in 0..(TimeMod - 1) /\ TimeMod \in Nat \ {0} /\ Tick \in Nat \ {0}
  BY TimeAssumption DEF Timer, Time
<1> DEFINE rest == (t.left - Tick) % TimeMod
<1>2. rest \in Time /\ rest \in 0..(TimeMod - 1)
  BY <1>1 DEF Time
<1>3. t.left >= Tick => rest = t.left - Tick
  BY <1>1
<1>4. rest >= t.left - Tick
  BY <1>1, <1>2, <1>3
<1>5. Expires(t) <=> rest = 0 \/ rest > t.left
  BY DEF Expires
<1> HIDE DEF rest
<1>6. Expires(t) => t.left <= Tick
  BY <1>1, <1>2, <1>3, <1>5
<1>7. CASE Expires(t)
  <2>1. Countdown(t) = [t EXCEPT !.finished = TRUE]
    BY <1>7 DEF Countdown
  <2> QED BY <1>6, <1>7, <2>1 DEF Timer
<1>8. CASE ~Expires(t)
  <2>1. Countdown(t) = [t EXCEPT !.left = rest]
    BY <1>8 DEF Countdown, rest
  <2>2. Countdown(t) \in Timer /\ Countdown(t).left = rest /\ Countdown(t).id = t.id
    BY <1>2, <2>1 DEF Timer
  <2> QED BY <1>4, <1>8, <2>2
<1> QED BY <1>7, <1>8

(* After n ticks, the timer id, started for the given time, has not lost   *)
(* more than n ticks, and if it has fired that was enough of them.         *)
InTime(heard, T, n, id, time) ==
    /\ \A k \in Waiting(T) : T[k].id = id => T[k].left + n * Tick >= Millis(time)
    /\ id \in heard => n * Tick >= Millis(time)

LEMMA MillisType == ASSUME NEW time \in Nat PROVE Millis(time) \in Time
<1>1. time * Milli \in Nat /\ TimeMod \in Nat \ {0}
  BY TimeAssumption, ProgramsAssumption
<1> QED BY <1>1 DEF Millis, Time

LEMMA OneMoreTick ==
    ASSUME NEW n \in Nat
    PROVE  n * Tick \in Nat /\ (n + 1) * Tick = n * Tick + Tick
<1>1. Tick \in Nat
  BY TimeAssumption
<1> QED BY <1>1

LEMMA TickInTime ==
    ASSUME NEW H, NEW T \in Seq(Timer), NEW n \in Nat, NEW id, NEW time \in Nat,
           InTime(H, T, n, id, time),
           NEW G, G \subseteq H \cup {T[k].id : k \in Expiring(T)},
           NEW m, m = IF n * Tick < Millis(time) THEN n + 1 ELSE n
    PROVE  InTime(G, CountdownAll(T), m, id, time)
<1> DEFINE U == CountdownAll(T)
<1>1. DOMAIN U = DOMAIN T /\ \A k \in DOMAIN T : U[k] = Countdown(T[k])
  BY DEF CountdownAll
<1>2. \A k \in DOMAIN T : T[k] \in Timer
  OBVIOUS
<1>3. PICK due : due = Millis(time)
  OBVIOUS
<1>4. PICK before : before = n * Tick
  OBVIOUS
<1>5. PICK now : now = m * Tick
  OBVIOUS
<1>6. /\ due \in Nat /\ before \in Nat /\ Tick \in Nat \ {0}
      /\ before < due => now = before + Tick
      /\ ~(before < due) => now = before
  <2>1. due \in Nat
    BY <1>3, MillisType DEF Time
  <2>2. before \in Nat /\ (n + 1) * Tick = before + Tick
    BY <1>4, OneMoreTick
  <2>3. Tick \in Nat \ {0}
    BY TimeAssumption
  <2>4. CASE before < due
    <3>1. m = n + 1
      BY <1>3, <1>4, <2>4
    <3> QED BY <1>5, <2>1, <2>2, <2>3, <2>4, <3>1
  <2>5. CASE ~(before < due)
    <3>1. m = n
      BY <1>3, <1>4, <2>5
    <3> QED BY <1>4, <1>5, <2>1, <2>2, <2>3, <2>5, <3>1
  <2> QED BY <2>4, <2>5
<1>7. /\ \A k \in Waiting(T) : T[k].id = id => T[k].left + before >= due
      /\ id \in H => before >= due
  BY <1>3, <1>4 DEF InTime
<1> HIDE DEF U
<1>8. ASSUME NEW k \in Waiting(U), U[k].id = id
      PROVE  U[k].left + now >= due
  <2>1. k \in DOMAIN T /\ ~U[k].finished /\ T[k] \in Timer
    BY <1>1, <1>2 DEF Waiting
  <2>2. U[k] = Countdown(T[k])
    BY <1>1, <2>1
  <2>3. ~T[k].finished
    <3> SUFFICES ASSUME T[k].finished PROVE FALSE
      OBVIOUS
    <3>1. Countdown(T[k]) = T[k]
      BY DEF Countdown, Expires
    <3> QED BY <2>1, <2>2, <3>1
  <2>4. ~Expires(T[k]) /\ U[k].id = T[k].id /\ U[k] \in Timer
    BY <2>1, <2>2, <2>3, TickTakes
  <2>5. U[k].left >= T[k].left - Tick
    BY <2>1, <2>2, <2>3, <2>4, TickTakes
  <2>6. T[k].left + before >= due
    <3>1. k \in Waiting(T)
      BY <2>1, <2>3 DEF Waiting
    <3> QED BY <1>7, <1>8, <2>4, <3>1
  <2>7. U[k].left \in Nat /\ T[k].left \in Nat
    BY <2>1, <2>4 DEF Timer, Time
  <2>8. CASE before < due
    <3>1. PICK left, rest \in Nat : left = T[k].left /\ rest = U[k].left
      BY <2>7
    <3>2. rest >= left - Tick /\ left + before >= due /\ now = before + Tick
      BY <1>6, <2>5, <2>6, <2>8, <3>1
    <3>3. rest + now >= due
      BY <1>6, <3>2
    <3> QED BY <3>1, <3>3
  <2>9. CASE ~(before < due)
    BY <1>6, <2>7, <2>9
  <2> QED BY <2>8, <2>9
<1>9. ASSUME id \in G
      PROVE  now >= due
  <2>1. CASE id \in H
    BY <1>6, <1>7, <2>1
  <2>2. CASE \E k \in Expiring(T) : id = T[k].id
    <3>1. PICK k \in Expiring(T) : id = T[k].id
      BY <2>2
    <3>2. k \in DOMAIN T /\ Expires(T[k]) /\ T[k] \in Timer /\ ~T[k].finished
      BY <1>2, <3>1 DEF Expiring, Expires
    <3>3. T[k].left <= Tick
      BY <3>2, TickTakes
    <3>4. T[k].left + before >= due
      BY <1>7, <3>1, <3>2 DEF Waiting
    <3>5. T[k].left \in Nat
      BY <3>2 DEF Timer, Time
    <3> QED BY <1>6, <3>3, <3>4, <3>5
  <2> QED BY <1>9, <2>1, <2>2
<1> QED BY <1>3, <1>5, <1>8, <1>9 DEF InTime, U

-----------------------------------------------------------------------------
(* What the library relies on.                                             *)

(* There is no process but alive and the core process of the boot, and     *)
(* before that there is nothing to echo.                                   *)
OneProcess ==
    /\ DOMAIN procs \subseteq {ALIVE, PROCESS}
    /\ start.phase = "locked" \/ uid = 0 => DOMAIN procs = {ALIVE}
    /\ PROCESS \notin DOMAIN procs => typed = 0 /\ shown = <<>>

(* The timers whose events the process has not read yet.                   *)
Ids(s) == {s[m].id : m \in Told(s)}
Heard == IF PROCESS \in Live(procs) THEN Ids(Unread(PROCESS)) ELSE {}

LibraryOK ==
    /\ program \in {"kmain", "app"}
    /\ call \in [fn : Functions, kind : Kinds, timer : Nat, asked : Nat,
                 dying : BOOLEAN]
    /\ timer \in Nat /\ typed \in Nat /\ shown \in Seq(Nat) /\ said \in Nat
    /\ ticks \in Nat
    /\ call.fn = "Sleep" => /\ program = "app" /\ call.kind = "TIMER"
                            /\ call.timer # 0 /\ ~call.dying
    /\ call.fn # "Sleep" => call.timer = 0
    /\ program = "app" => timer = 0
    /\ program = "kmain" => call.kind = "ANY"
    /\ timer = 0 => said = 0

(* The timer Sleep waits for, and the one kmain does; once kmain has       *)
(* written its line, its timer is neither waiting nor unread.              *)
SleepInTime ==
    call.fn = "Sleep" => InTime(Heard, timers, ticks, call.timer, call.asked)
LineInTime ==
    timer # 0 =>
        IF said = 0 THEN InTime(Heard, timers, ticks, timer, 1)
        ELSE /\ timer \notin Heard
             /\ \A k \in Waiting(timers) : timers[k].id # timer

ProgramsInv ==
    /\ OnceInv
    /\ OneProcess /\ EchoesTyped
    /\ LibraryOK /\ SleepInTime /\ LineInTime

-----------------------------------------------------------------------------
(* The kernel's steps, as the process sees them.                           *)

LEMMA HeardIs ==
    /\ PROCESS \in Live(procs) => Heard = Ids(Unread(PROCESS))
    /\ PROCESS \notin Live(procs) => Heard = {}
    /\ PROCESS \in Live(procs') => Heard' = Ids(Unread(PROCESS)')
    /\ PROCESS \notin Live(procs') => Heard' = {}
<1>1. Heard' = IF PROCESS \in Live(procs') THEN Ids(Unread(PROCESS)') ELSE {}
  BY DEF Heard
<1> QED BY <1>1 DEF Heard

(* A timer whose event is unread was started, and waits no longer.         *)
LEMMA HeardOnce ==
    ASSUME OnceInv
    PROVE  /\ ids \in Nat /\ Heard \subseteq 1..ids
           /\ \A k \in Waiting(timers) : /\ timers[k].id \in 1..ids
                                         /\ timers[k].id \notin Heard
<1>1. Once(Unreads, timers, ids) /\ ids \in Nat
  BY DEF OnceInv, MailInv, KernelInv, RestOK
<1>2. CASE PROCESS \in Live(procs)
  <2>1. /\ Heard = Ids(Unread(PROCESS)) /\ Unreads[PROCESS] = Unread(PROCESS)
        /\ PROCESS \in DOMAIN Unreads
    BY <1>2, HeardIs, UnreadsAre
  <2> QED BY <1>1, <2>1 DEF Once, Ids
<1>3. CASE PROCESS \notin Live(procs)
  BY <1>1, <1>3, HeardIs DEF Once
<1> QED BY <1>2, <1>3

(* The code of a process is that of the one process.                       *)
LEMMA OnProcess ==
    ASSUME MailInv, OneProcess, cpu.ctx \in {"user", "event", "blocked"}
    PROVE  /\ cpu.slot = PROCESS /\ PROCESS # ALIVE /\ PROCESS # NoSlot
           /\ PROCESS \in DOMAIN procs /\ PROCESS \in Live(procs)
<1>1. cpu.slot # NoSlot /\ cpu.slot \in DOMAIN procs
  BY DEF MailInv, KernelInv, Consistent
<1>2. cpu.slot # ALIVE /\ procs[cpu.slot].status # "DEAD"
  BY <1>1 DEF MailInv, Sound, CpuOK
<1> QED BY <1>1, <1>2 DEF OneProcess, Live, PROCESS, ALIVE, NoSlot

LEMMA OtherIsProcess ==
    ASSUME OneProcess, NEW i \in DOMAIN procs, i # ALIVE
    PROVE  i = PROCESS /\ PROCESS \in DOMAIN procs
BY DEF OneProcess

(* The process hears of no timer and no timer changes, unless it goes.     *)
Fades ==
    /\ Heard' \subseteq Heard
    /\ \A k \in Waiting(timers') : k \in Waiting(timers) /\ timers'[k] = timers[k]

LEMMA SameFades ==
    ASSUME PROCESS \in Live(procs') => /\ PROCESS \in Live(procs)
                                       /\ Unread(PROCESS)' = Unread(PROCESS),
           timers' = timers
    PROVE  Fades
<1>1. Heard' \subseteq Heard
  BY HeardIs
<1> QED BY <1>1 DEF Fades

LEMMA SameEchoes ==
    ASSUME EchoesTyped,
           PROCESS \in Live(procs') => /\ PROCESS \in Live(procs)
                                       /\ Unread(PROCESS)' = Unread(PROCESS),
           UNCHANGED <<program, typed, shown>>
    PROVE  EchoesTyped'
<1>1. PICK s, t : s = Unread(PROCESS) /\ t = Unread(PROCESS)'
  OBVIOUS
<1>2. program = "kmain" /\ PROCESS \in Live(procs) =>
         /\ \A n \in DOMAIN shown : shown[n] = n
         /\ Numbered(s, Len(shown), typed)
  BY <1>1 DEF EchoesTyped, Alive
<1>3. program' = "kmain" /\ PROCESS \in Live(procs') =>
         /\ \A n \in DOMAIN shown' : shown'[n] = n
         /\ Numbered(t, Len(shown'), typed')
  BY <1>1, <1>2
<1> QED BY <1>1, <1>3 DEF EchoesTyped, Alive

Calm == OneProcess' /\ EchoesTyped' /\ Fades

LEMMA OneProcessStays ==
    ASSUME OneProcess, DOMAIN procs' = DOMAIN procs,
           start'.phase = "locked" \/ uid' = 0 => start.phase = "locked" \/ uid = 0,
           UNCHANGED <<typed, shown>>
    PROVE  OneProcess'
BY DEF OneProcess

LEMMA QuietCalm ==
    ASSUME ProgramsInv, Quiet, timers' = timers,
           start'.phase = "locked" \/ uid' = 0 => start.phase = "locked" \/ uid = 0,
           UNCHANGED <<program, typed, shown>>
    PROVE  Calm
<1>1. /\ DOMAIN procs' = DOMAIN procs /\ Live(procs') = Live(procs)
      /\ \A i \in Live(procs) : i \in DOMAIN procs
  BY SimilarLive DEF Quiet, Similar, Live
<1>2. PROCESS \in Live(procs') => /\ PROCESS \in Live(procs)
                                  /\ Unread(PROCESS)' = Unread(PROCESS)
  BY <1>1 DEF Quiet
<1>3. OneProcess /\ EchoesTyped
  BY DEF ProgramsInv
<1> QED BY <1>1, <1>2, <1>3, SameFades, SameEchoes, OneProcessStays DEF Calm

(* The process comes into the table, which has no dead slot.               *)
LEMMA InsertCalm ==
    ASSUME ProgramsInv, InsertProcess, UNCHANGED <<program, typed, shown>>
    PROVE  Calm
<1>1. /\ OnceInv /\ MailInv /\ OneProcess /\ EchoesTyped /\ start.phase = "locked"
      /\ procs \in Seq(Process) /\ start.new \in Process
  BY DEF ProgramsInv, OnceInv, MailInv, Sound, TableOK, InsertProcess, KernelInv, RestOK
<1>2. /\ DOMAIN procs = {ALIVE} /\ procs[ALIVE].status # "DEAD"
      /\ uid # 0 /\ uid' = uid /\ start'.phase # "locked"
  BY <1>1, InsertMail
     DEF OneProcess, MailInv, Sound, TableOK, Settled, Placed, UidsOK
<1>3. DeadSlot(procs) = NoSlot
  BY <1>1, <1>2, DeadSlotFound
<1>4. procs' = Append(procs, start.new) /\ timers' = timers
  BY <1>3 DEF InsertProcess
<1>5. DOMAIN procs' = {ALIVE, PROCESS} /\ PROCESS # ALIVE
  <2>1. Len(procs) = 1
    <3>1. DOMAIN procs = 1..Len(procs) /\ Len(procs) \in Nat
      BY <1>1
    <3> QED BY <1>2, <3>1 DEF ALIVE
  <2>2. procs' \in Seq(Process) /\ Len(procs') = 2
    <3>1. PICK P \in Seq(Process), p \in Process : P = procs /\ p = start.new
      BY <1>1
    <3>2. Append(P, p) \in Seq(Process) /\ Len(Append(P, p)) = Len(P) + 1
      BY AppendProperties
    <3> QED BY <1>4, <2>1, <3>1, <3>2
  <2>3. \A i \in 1..2 : i = 1 \/ i = 2
    OBVIOUS
  <2>4. 1 \in 1..2 /\ 2 \in 1..2 /\ 1 # 2
    OBVIOUS
  <2>5. DOMAIN procs' = 1..Len(procs')
    BY <2>2, LenProperties
  <2>6. DOMAIN procs' = {1, 2}
    BY <2>2, <2>3, <2>4, <2>5
  <2> QED BY <2>4, <2>6 DEF ALIVE, PROCESS
<1>6. PROCESS \in Live(procs') => Unread(PROCESS)' = <<>>
  <2>1. PICK k \in DOMAIN procs' :
           /\ Live(procs') = Live(procs) \cup {k} /\ Unread(k)' = <<>>
    BY <1>1, InsertMail
  <2>2. Live(procs) \subseteq {ALIVE}
    BY <1>2 DEF Live
  <2> QED BY <1>5, <2>1, <2>2
<1>7. OneProcess'
  BY <1>2, <1>5 DEF OneProcess
<1>8. Fades
  <2>1. Heard' = {}
    <3>1. CASE PROCESS \in Live(procs')
      BY <1>6, <3>1, HeardIs DEF Ids, Told
    <3> QED BY <3>1, HeardIs
  <2> QED BY <1>4, <2>1 DEF Fades
<1>9. EchoesTyped'
  <2>1. typed' = 0 /\ shown' = <<>>
    BY <1>1, <1>2, <1>5 DEF OneProcess
  <2>2. Numbered(<<>>, 0, 0)
    BY CharsNone DEF Numbered
  <2>3. Len(<<>>) = 0 /\ \A n \in DOMAIN <<>> : <<>>[n] = n
    OBVIOUS
  <2>4. PICK t : t = Unread(PROCESS)'
    OBVIOUS
  <2>5. PROCESS \in Live(procs') =>
           /\ \A n \in DOMAIN shown' : shown'[n] = n
           /\ Numbered(t, Len(shown'), typed')
    BY <1>6, <2>1, <2>2, <2>3, <2>4
  <2> QED BY <2>4, <2>5 DEF EchoesTyped, Alive
<1> QED BY <1>7, <1>8, <1>9 DEF Calm

LEMMA BootCalm ==
    ASSUME ProgramsInv, Boot, UNCHANGED <<program, typed, shown>>
    PROVE  Calm
<1>1. MailInv /\ OneProcess
  BY DEF ProgramsInv, OnceInv
<1>2. CASE BootStart
  <2>1. UserAlive \in User /\ TRUE \in BOOLEAN
    BY DEF User, UserAlive
  <2>2. cpu.ctx # "blocked" /\ start.phase = "idle"
        /\ uid = 0 /\ timers' = timers
    BY <1>2 DEF BootStart, InProcess, BeginStart
  <2>3. Quiet
    BY <1>1, <1>2, <2>1, <2>2, BeginStartMail DEF BootStart
  <2> QED BY <2>2, <2>3, QuietCalm
<1>3. CASE InsertProcess
  BY <1>3, InsertCalm
<1>4. CASE UnlockTable
  <2>1. start'.phase = "idle" /\ uid' = uid /\ timers' = timers
    BY <1>4 DEF UnlockTable, NoStart
  <2> QED BY <1>1, <1>4, <2>1, UnlockMail, QuietCalm
<1>5. CASE StartAlive
  <2>1. start' = start /\ uid' = uid /\ timers' = timers
    BY <1>5 DEF StartAlive
  <2> QED BY <1>1, <1>5, <2>1, StartAliveMail, QuietCalm
<1> QED BY <1>2, <1>3, <1>4, <1>5 DEF Boot

LEMMA RestCalm ==
    ASSUME ProgramsInv, AliveWait \/ PullEvent \/ UNCHANGED vars,
           UNCHANGED <<program, typed, shown>>
    PROVE  Calm
<1>1. MailInv
  BY DEF ProgramsInv, OnceInv
<1>2. start' = start /\ uid' = uid /\ timers' = timers
  BY DEF AliveWait, PullEvent, Halt, vars
<1>3. Quiet
  BY <1>1, AliveWaitMail, PullEventMail, UnchangedQuiet DEF vars
<1> QED BY <1>2, <1>3, QuietCalm

LEMMA HaltCalm ==
    ASSUME ProgramsInv, NEW reason, Halt(reason),
           UNCHANGED <<program, typed, shown>>
    PROVE  Calm
<1>1. MailInv
  BY DEF ProgramsInv, OnceInv
<1>2. start' = start /\ uid' = uid /\ timers' = timers
  BY DEF Halt
<1> QED BY <1>1, <1>2, HaltMail, QuietCalm

(* The process goes, and its timers with it.                               *)
LEMMA KillCalm ==
    ASSUME ProgramsInv, Kill(0), UNCHANGED <<program, typed, shown>>
    PROVE  Calm
<1>1. /\ MailInv /\ KernelInv /\ OneProcess /\ EchoesTyped /\ InProcess("user")
      /\ timers \in Seq(Timer)
  BY DEF ProgramsInv, OnceInv, MailInv, KernelInv, RestOK, Kill
<1>2. 0 \in 0..MaxUid
  BY KernelAssumption
<1>3. CASE Halt("fault")
  BY <1>3, HaltCalm
<1>4. CASE \E i \in Live(procs) : i # ALIVE /\ ProcessKill(i)
  <2>1. PICK i \in Live(procs) : i # ALIVE /\ ProcessKill(i)
    BY <1>4
  <2>2. i \in DOMAIN procs /\ i = PROCESS
    BY <1>1, <2>1, OtherIsProcess DEF Live
  <2>3. Live(procs') = Live(procs) \ {PROCESS} /\ UNCHANGED <<uid, start>>
    BY <1>1, <2>1, <2>2, KillMail
  <2>4. DOMAIN procs' = DOMAIN procs
    <3>1. Follows([procs EXCEPT ![i] = Bury(procs[i])], procs')
      BY <1>1, <2>1, <2>2, KillInv
    <3> QED BY <3>1 DEF Follows
  <2>5. OneProcess'
    BY <1>1, <2>3, <2>4, OneProcessStays
  <2>6. EchoesTyped'
    BY <1>1, <2>3, SameEchoes
  <2>7. timers' = Cancel(timers, procs[i].uid, 0)
    BY <2>1 DEF ProcessKill
  <2>8. \A k \in Waiting(timers') :
           k \in Waiting(timers) /\ timers'[k] = timers[k]
    BY <1>1, <2>7 DEF Cancel, Waiting, Timer
  <2>9. Fades
    BY <2>3, <2>8, HeardIs DEF Fades
  <2> QED BY <2>5, <2>6, <2>9 DEF Calm
<1> QED BY <1>1, <1>2, <1>3, <1>4, KillMailCases

(* No timer is heard of by way of other events.                            *)
LEMMA SentFades ==
    ASSUME MailInv, NEW j \in DOMAIN procs, NEW evs, Sent(j, evs),
           \A m \in DOMAIN evs : evs[m].kind # "TIMER", timers' = timers
    PROVE  Fades
<1>1. Live(procs') = Live(procs) /\ \A i \in Live(procs) : i \in DOMAIN procs
  BY SimilarLive DEF Sent, Live
<1>2. CASE PROCESS \in Live(procs) /\ PROCESS = j
  <2>1. PICK s, t : s = Unread(PROCESS) /\ t = Unread(PROCESS)'
    OBVIOUS
  <2>2. s \in Seq(Event) /\ evs \in Seq(Event) /\ t = s \o evs
    BY <1>1, <1>2, <2>1, UnreadType DEF Sent
  <2>3. Ids(t) \subseteq Ids(s)
    <3> SUFFICES ASSUME NEW m \in DOMAIN t, t[m].kind = "TIMER"
                 PROVE  m \in DOMAIN s /\ s[m] = t[m]
      BY DEF Ids, Told
    <3> QED BY <2>2, PlaceInConcat
  <2>4. Heard = Ids(s) /\ Heard' = Ids(t)
    BY <1>1, <1>2, <2>1, HeardIs
  <2> QED BY <2>3, <2>4 DEF Fades
<1>3. CASE ~(PROCESS \in Live(procs) /\ PROCESS = j)
  BY <1>1, <1>3, SameFades DEF Sent
<1> QED BY <1>2, <1>3

LEMMA QueueCalm ==
    ASSUME ProgramsInv, NEW event \in UserEvents, QueueEvent(0, event),
           program = "app", UNCHANGED <<program, typed, shown>>
    PROVE  Calm
<1>1. MailInv /\ OneProcess /\ 0 \in 0..MaxUid
  BY KernelAssumption DEF ProgramsInv, OnceInv
<1>2. PICK j \in DOMAIN procs : Sent(j, <<event>>)
  BY <1>1, QueueEventMail
<1>3. \A m \in DOMAIN <<event>> : <<event>>[m].kind # "TIMER"
  BY KernelAssumption
<1>4. UNCHANGED <<timers, uid, start>> /\ DOMAIN procs' = DOMAIN procs
  BY <1>2 DEF QueueEvent, Halt, Sent, Similar
<1>5. OneProcess'
  BY <1>1, <1>4, OneProcessStays
<1>6. EchoesTyped'
  <2>1. program' # "kmain"
    OBVIOUS
  <2> QED BY <2>1 DEF EchoesTyped
<1> QED BY <1>1, <1>2, <1>3, <1>4, <1>5, <1>6, SentFades DEF Calm

(* A character joins what the process has to read.                         *)
LEMMA PressCalm ==
    ASSUME ProgramsInv, Press
    PROVE  Calm
<1> DEFINE c == CharEvent(typed + 1)
           burst == <<KeyEvent, c>>
<1>1. /\ MailInv /\ OneProcess /\ EchoesTyped /\ typed \in Nat
      /\ shown \in Seq(Nat) /\ procs \in Seq(Process)
  BY DEF ProgramsInv, OnceInv, LibraryOK, MailInv, Sound, TableOK
<1>2. /\ KeyEvent \in Event /\ KeyEvent.kind = "KEY"
      /\ c \in Event /\ c.kind = "CHAR" /\ c.id = typed + 1
  BY <1>1 DEF KeyEvent, CharEvent, Event, EventKinds
<1>3. UNCHANGED <<program, shown>> /\ KeyboardIRQ(burst)
  BY DEF Press
<1>4. CASE CoreSlot(procs) = NoSlot
  <2>1. Halt("no_core")
    BY <1>3, <1>4 DEF KeyboardIRQ
  <2>2. halted' = "no_core"
    BY <2>1 DEF Halt
  <2>3. typed' = typed
    BY <2>2 DEF Press
  <2> QED BY <1>3, <2>1, <2>3, HaltCalm
<1>5. CASE CoreSlot(procs) # NoSlot
  <2> DEFINE i == CoreSlot(procs)
  <2>1. i \in DOMAIN procs /\ i \in Live(procs) /\ procs[i].core
    BY <1>1, <1>5, CoreSlotFound
  <2>2. i # ALIVE
    BY <1>1, <2>1, NotAlive
  <2>3. i = PROCESS
    BY <1>1, <2>1, <2>2, OtherIsProcess
  <2>4. /\ procs' = [procs EXCEPT ![PROCESS] = Post(procs[PROCESS], burst)]
        /\ UNCHANGED <<uid, timers, ids, enabled, can_update, updates, start,
                       cpu, halted>>
    BY <1>3, <1>5, <2>3 DEF KeyboardIRQ
  <2>5. halted = "no" /\ typed' = typed + 1
    BY <1>3, <2>4 DEF KeyboardIRQ, Press
  <2> HIDE DEF c
  <2>6. burst \in Seq(Event) /\ \A m \in DOMAIN burst : burst[m].kind # "TIMER"
    BY <1>2
  <2> HIDE DEF burst
  <2>7. Sent(PROCESS, burst)
    BY <1>1, <2>1, <2>2, <2>3, <2>4, <2>6, SendMail
  <2>8. DOMAIN procs' = DOMAIN procs /\ Live(procs') = Live(procs)
    BY <2>7, SimilarLive DEF Sent, Similar
  <2>9. OneProcess'
    BY <1>1, <2>1, <2>3, <2>4, <2>8 DEF OneProcess
  <2>10. Fades
    BY <1>1, <2>1, <2>3, <2>4, <2>6, <2>7, SentFades
  <2>11. EchoesTyped'
    <3>1. PICK s, t : s = Unread(PROCESS) /\ t = Unread(PROCESS)'
      OBVIOUS
    <3>2. s \in Seq(Event) /\ t = s \o burst
      BY <1>1, <2>1, <2>3, <2>7, <3>1, UnreadType DEF Sent
    <3>3. /\ <<KeyEvent>> \in Seq(Event)
          /\ \A n \in DOMAIN <<KeyEvent>> : <<KeyEvent>>[n].kind # "CHAR"
      BY <1>2
    <3>4. s \o <<KeyEvent>> \in Seq(Event) /\ t = Append(s \o <<KeyEvent>>, c)
      BY <1>2, <3>2, <3>3 DEF burst
    <3>5. ASSUME Numbered(s, Len(shown), typed)
          PROVE  Numbered(t, Len(shown), typed + 1)
      <4>1. Numbered(s \o <<KeyEvent>>, Len(shown), typed)
        BY <3>2, <3>3, <3>5, NumberedJoin
      <4>2. Len(shown) \in Nat
        BY <1>1
      <4> QED BY <1>1, <1>2, <3>4, <4>1, <4>2, NumberedNext
    <3>6. program = "kmain" =>
             /\ \A n \in DOMAIN shown : shown[n] = n
             /\ Numbered(s, Len(shown), typed)
      BY <1>1, <2>1, <2>3, <3>1 DEF EchoesTyped, Alive
    <3>7. program' = "kmain" =>
             /\ \A n \in DOMAIN shown' : shown'[n] = n
             /\ Numbered(t, Len(shown'), typed')
      BY <1>3, <2>5, <3>5, <3>6
    <3> QED BY <3>1, <3>7 DEF EchoesTyped, Alive
  <2> QED BY <2>9, <2>10, <2>11 DEF Calm
<1> QED BY <1>4, <1>5

(* The process takes the first event it has to read.                       *)
LEMMA ReadTaken ==
    ASSUME ProgramsInv, ReadEvent
    PROVE  /\ PROCESS \in Live(procs) /\ Live(procs') = Live(procs)
           /\ Unread(PROCESS) \in Seq(Event) /\ Unread(PROCESS) # <<>>
           /\ procs[PROCESS].cur = Head(Unread(PROCESS))
           /\ procs[PROCESS].cur \in Event
           /\ Unread(PROCESS)' = Tail(Unread(PROCESS))
<1>1. MailInv /\ OneProcess /\ cpu.ctx = "event"
  BY DEF ProgramsInv, OnceInv, ReadEvent, InProcess
<1>2. cpu.slot = PROCESS /\ PROCESS \in Live(procs) /\ PROCESS \in DOMAIN procs
  BY <1>1, OnProcess
<1>3. procs[PROCESS] \in Process /\ procs' = procs
  BY <1>1, <1>2 DEF MailInv, Sound, TableOK, ReadEvent
<1>4. PICK p \in Process : p = procs[PROCESS]
  BY <1>3
<1>5. Unread(PROCESS) = <<p.cur>> \o p.events
  BY <1>1, <1>2, <1>4 DEF Unread, Given
<1>6. p.cur \in Event /\ p.events \in Seq(Event)
  BY DEF Process
<1>7. Unread(PROCESS)' = p.events
  <2>1. cpu'.slot = PROCESS /\ cpu'.ctx = "user"
    <3>1. cpu' = [cpu EXCEPT !.ctx = "user"]
      BY DEF ReadEvent
    <3>2. cpu \in [slot : {NoSlot} \cup DOMAIN procs, ctx : Contexts \cup {"boot"}]
      BY <1>1 DEF MailInv, KernelInv, Consistent
    <3> QED BY <1>2, <3>1, <3>2
  <2>2. Mine(p, "user") = p.events
    BY MineQueue
  <2> QED BY <1>3, <1>4, <2>1, <2>2, UnreadIsBox DEF Box, At
<1>8. LET s == <<p.cur>> \o p.events IN
      s \in Seq(Event) /\ s # <<>> /\ Head(s) = p.cur /\ Tail(s) = p.events
  BY <1>6
<1> QED BY <1>2, <1>3, <1>4, <1>5, <1>6, <1>7, <1>8

(* It hears of the event's timer for the first and only time.              *)
LEMMA ReadHeard ==
    ASSUME ProgramsInv, ReadEvent
    PROVE  LET e == procs[PROCESS].cur IN
           /\ Heard' \subseteq Heard /\ timers' = timers
           /\ e.kind = "TIMER" => e.id \in Heard /\ e.id \notin Heard'
<1>1. PICK s, t, e : s = Unread(PROCESS) /\ t = Unread(PROCESS)' /\ e = procs[PROCESS].cur
  OBVIOUS
<1>2. /\ PROCESS \in Live(procs) /\ PROCESS \in Live(procs')
      /\ s \in Seq(Event) /\ s # <<>> /\ e = Head(s) /\ t = Tail(s)
  BY <1>1, ReadTaken
<1>3. Heard = Ids(s) /\ Heard' = Ids(t)
  BY <1>1, <1>2, HeardIs
<1>4. \A m, o \in Told(s) : s[m].id = s[o].id => m = o
  <2>1. Once(Unreads, timers, ids)
    BY DEF ProgramsInv, OnceInv
  <2>2. Unreads[PROCESS] = s /\ PROCESS \in DOMAIN Unreads
    BY <1>1, <1>2, UnreadsAre
  <2> QED BY <2>1, <2>2 DEF Once
<1>5. /\ Len(s) \in Nat \ {0} /\ DOMAIN s = 1..Len(s) /\ e = s[1] /\ 1 \in DOMAIN s
      /\ t \in Seq(Event) /\ Len(t) = Len(s) - 1 /\ DOMAIN t = 1..Len(t)
      /\ \A m \in 1..(Len(s) - 1) : t[m] = s[m + 1]
  BY <1>2, EmptySeq, HeadTailProperties, EventsAre
<1>6. ASSUME NEW m \in Told(t)
      PROVE  m + 1 \in Told(s) /\ t[m] = s[m + 1] /\ m + 1 # 1
  BY <1>5 DEF Told
<1>7. Heard' \subseteq Heard
  BY <1>3, <1>6 DEF Ids
<1>8. ASSUME e.kind = "TIMER"
      PROVE  e.id \in Heard /\ e.id \notin Heard'
  <2>1. 1 \in Told(s) /\ s[1].id = e.id
    BY <1>5, <1>8 DEF Told
  <2>2. \A m \in Told(t) : t[m].id # e.id
    BY <1>4, <1>6, <2>1
  <2> QED BY <1>3, <2>1, <2>2 DEF Ids
<1>9. timers' = timers
  BY DEF ReadEvent
<1> QED BY <1>1, <1>7, <1>8, <1>9

(* What is written and what is left to read are still all that was typed.  *)
LEMMA ReadEchoes ==
    ASSUME ProgramsInv, Read_Event
    PROVE  OneProcess' /\ EchoesTyped'
<1>1. /\ OneProcess /\ EchoesTyped /\ LibraryOK /\ ReadEvent
      /\ typed \in Nat /\ shown \in Seq(Nat)
  BY DEF ProgramsInv, LibraryOK, Read_Event
<1>2. PICK s, t, e : s = Unread(PROCESS) /\ t = Unread(PROCESS)' /\ e = procs[PROCESS].cur
  OBVIOUS
<1>3. /\ PROCESS \in Live(procs) /\ PROCESS \in Live(procs') /\ PROCESS \in DOMAIN procs
      /\ s \in Seq(Event) /\ s # <<>> /\ e = Head(s) /\ t = Tail(s) /\ e \in Event
  BY <1>1, <1>2, ReadTaken DEF Live
<1>4. UNCHANGED <<procs, uid, start, program, typed>>
  BY DEF Read_Event, ReadEvent
<1>5. OneProcess'
  BY <1>1, <1>3, <1>4 DEF OneProcess
<1>6. ASSUME program = "kmain"
      PROVE  shown' = IF e.kind = "CHAR" THEN Append(shown, e.id) ELSE shown
  <2>1. call.kind = "ANY" /\ call.fn # "Sleep"
    BY <1>1, <1>6 DEF LibraryOK
  <2>2. Returns(call, e) <=> e.kind # "TERMINATE"
    BY <2>1 DEF Returns, Accepts, Dies
  <2>3. IF Returns(call, e) THEN Written(e) ELSE UNCHANGED <<shown, said>>
    BY <1>2, <1>6 DEF Read_Event
  <2> QED BY <2>2, <2>3 DEF Written
<1>7. ASSUME program = "kmain"
      PROVE  /\ \A n \in DOMAIN shown' : shown'[n] = n
             /\ Numbered(t, Len(shown'), typed)
  <2>1. Len(shown) \in Nat /\ DOMAIN shown = 1..Len(shown)
        /\ \A n \in DOMAIN shown : shown[n] = n
    BY <1>1, <1>3, <1>7 DEF EchoesTyped, Alive
  <2>2. Numbered(s, Len(shown), typed)
    BY <1>1, <1>2, <1>3, <1>7 DEF EchoesTyped, Alive
  <2>3. IF e.kind = "CHAR"
        THEN e.id = Len(shown) + 1 /\ Numbered(t, Len(shown) + 1, typed)
        ELSE Numbered(t, Len(shown), typed)
    BY <1>1, <1>3, <2>1, <2>2, NumberedTaken
  <2>4. CASE e.kind = "CHAR"
    <3>1. shown' = Append(shown, e.id) /\ e.id = Len(shown) + 1 /\ e.id \in Nat
      BY <1>6, <1>7, <2>1, <2>3, <2>4
    <3>2. Len(shown') = Len(shown) + 1 /\ DOMAIN shown' = 1..(Len(shown) + 1)
      BY <1>1, <3>1
    <3>3. ASSUME NEW n \in 1..(Len(shown) + 1) PROVE shown'[n] = n
      <4>1. CASE n \in 1..Len(shown)
        BY <1>1, <2>1, <3>1, <4>1
      <4>2. CASE n = Len(shown) + 1
        BY <1>1, <3>1, <4>2
      <4> QED BY <2>1, <4>1, <4>2
    <3> QED BY <2>3, <2>4, <3>2, <3>3
  <2>5. CASE e.kind # "CHAR"
    BY <1>6, <1>7, <2>1, <2>3, <2>5
  <2> QED BY <2>4, <2>5
<1>8. program' = "kmain" =>
         /\ \A n \in DOMAIN shown' : shown'[n] = n
         /\ Numbered(t, Len(shown'), typed')
  BY <1>4, <1>7
<1>9. EchoesTyped'
  BY <1>2, <1>8 DEF EchoesTyped
<1> QED BY <1>5, <1>9

(* A timer that was started has all its time.                              *)
LEMMA StartInTime ==
    ASSUME ProgramsInv, NEW time \in Nat, Millis(time) \in Delays,
           StartTimer(Millis(time)), UNCHANGED <<program, typed, shown>>
    PROVE  /\ OneProcess' /\ EchoesTyped' /\ Heard' = Heard
           /\ ids' = ids + 1 /\ ids \in Nat
           /\ \A n \in Nat : InTime(Heard', timers', n, ids', time)
           /\ \A k \in Waiting(timers') :
                 \/ timers'[k].id = ids'
                 \/ k \in Waiting(timers) /\ timers'[k] = timers[k]
<1> DEFINE owner == procs[cpu.slot]
           t == [id |-> ids + 1, uid |-> owner.uid, left |-> Millis(time),
                 finished |-> FALSE]
<1>1. /\ OnceInv /\ MailInv /\ OneProcess /\ EchoesTyped
      /\ timers \in Seq(Timer) /\ ids \in Nat
  BY DEF ProgramsInv, OnceInv, MailInv, KernelInv, RestOK
<1>2. RunningSlot(procs) = cpu.slot /\ cpu.slot # NoSlot /\ owner \in Process
  BY <1>1, CallerSettled DEF StartTimer
<1>3. /\ timers' = Install(timers, t) /\ ids' = ids + 1
      /\ UNCHANGED <<procs, cpu, uid, start>>
  BY <1>2 DEF StartTimer
<1>4. t \in Timer /\ t.id = ids + 1 /\ t.left = Millis(time)
  <2>1. owner.uid \in Nat
    BY <1>2 DEF Process
  <2>2. Millis(time) \in Time
    BY MillisType
  <2> HIDE DEF owner
  <2> QED BY <1>1, <2>1, <2>2 DEF Timer
<1> HIDE DEF t
<1>5. PICK new \in DOMAIN timers' :
         /\ timers'[new] = t
         /\ \A k \in DOMAIN timers' \ {new} :
               k \in DOMAIN timers /\ timers'[k] = timers[k]
  BY <1>1, <1>3, <1>4, InstallSpec
<1>6. Unread(PROCESS)' = Unread(PROCESS) /\ Live(procs') = Live(procs)
      /\ DOMAIN procs' = DOMAIN procs
  BY <1>3 DEF Unread, Given
<1>7. OneProcess'
  BY <1>1, <1>3, <1>6, OneProcessStays
<1>8. EchoesTyped'
  BY <1>1, <1>6, SameEchoes
<1>9. Heard' = Heard
  BY <1>6, HeardIs
<1>10. ids + 1 \notin Heard /\ \A k \in Waiting(timers) : timers[k].id # ids + 1
  BY <1>1, HeardOnce
<1>11. ASSUME NEW k \in Waiting(timers')
       PROVE  \/ timers'[k].id = ids' /\ timers'[k].left = Millis(time)
              \/ k \in Waiting(timers) /\ timers'[k] = timers[k]
  BY <1>3, <1>4, <1>5 DEF Waiting
<1>12. ASSUME NEW n \in Nat
       PROVE  InTime(Heard', timers', n, ids', time)
  <2>1. n * Tick \in Nat
    BY OneMoreTick
  <2>2. PICK gone \in Nat, due \in Nat : gone = n * Tick /\ due = Millis(time)
    BY <2>1, MillisType DEF Time
  <2>3. ASSUME NEW k \in Waiting(timers'), timers'[k].id = ids'
        PROVE  timers'[k].left + gone >= due
    <3>1. timers'[k].left = due
      BY <1>3, <1>10, <1>11, <2>2, <2>3
    <3> QED BY <2>2, <3>1
  <2>4. ids' \notin Heard'
    BY <1>3, <1>9, <1>10
  <2> QED BY <2>2, <2>3, <2>4 DEF InTime
<1> QED BY <1>1, <1>3, <1>7, <1>8, <1>9, <1>11, <1>12

(* A tick: the process hears of timers that expire, and of no others.      *)
LEMMA TickSeen ==
    ASSUME ProgramsInv, TimerIRQ, UNCHANGED <<program, typed, shown>>
    PROVE  /\ OneProcess' /\ EchoesTyped'
           /\ \/ Fades
              \/ /\ timers' = CountdownAll(timers)
                 /\ Heard' \subseteq Heard \cup {timers[k].id : k \in Expiring(timers)}
<1>1. /\ MailInv /\ OneProcess /\ EchoesTyped
      /\ timers \in Seq(Timer)
  BY DEF ProgramsInv, OnceInv, MailInv, KernelInv, RestOK
<1>2. UNCHANGED <<uid, start>>
  BY DEF TimerIRQ, Halt
<1>3. CASE Quiet /\ timers' = timers
  <2>1. Calm
    BY <1>2, <1>3, QuietCalm
  <2> QED BY <2>1 DEF Calm
<1>4. CASE Ticked
  <2>1. /\ DOMAIN procs' = DOMAIN procs /\ Live(procs') = Live(procs)
        /\ timers' = CountdownAll(timers)
    BY <1>4, SimilarLive DEF Ticked, Similar
  <2>2. OneProcess'
    BY <1>1, <1>2, <2>1, OneProcessStays
  <2>3. CASE PROCESS \notin Live(procs)
    <3>1. Heard' = {}
      BY <2>1, <2>3, HeardIs
    <3>2. EchoesTyped'
      BY <1>1, <2>1, <2>3, SameEchoes
    <3> QED BY <2>1, <2>2, <3>1, <3>2
  <2>4. CASE PROCESS \in Live(procs)
    <3>1. PICK s, t : s = Unread(PROCESS) /\ t = Unread(PROCESS)'
      OBVIOUS
    <3>2. PICK e : e = TimerEventsFor(procs, timers, PROCESS)
      OBVIOUS
    <3>3. PROCESS \in DOMAIN procs
      BY <2>4 DEF Live
    <3>4. /\ s \in Seq(Event) /\ e \in Seq(Event) /\ t = s \o e
          /\ FromExpiring(e, procs, timers, PROCESS)
      BY <1>1, <1>4, <3>1, <3>2, <3>3, UnreadType, TimerEventsForSpec DEF Ticked
    <3>5. PICK order \in [DOMAIN e -> DOMAIN timers] :
             \A m \in DOMAIN e : /\ Expires(timers[order[m]])
                                 /\ e[m] = TimerEvent(timers[order[m]])
      BY <3>4 DEF FromExpiring
    <3>6. ASSUME NEW m \in DOMAIN e
          PROVE  /\ e[m].kind = "TIMER"
                 /\ \E k \in Expiring(timers) : e[m].id = timers[k].id
      <4>1. order[m] \in Expiring(timers)
        BY <3>5 DEF Expiring
      <4> QED BY <3>5, <4>1 DEF TimerEvent
    <3>7. Ids(t) \subseteq Ids(s) \cup {timers[k].id : k \in Expiring(timers)}
      <4> SUFFICES ASSUME NEW m \in DOMAIN t, t[m].kind = "TIMER"
                   PROVE  \/ m \in DOMAIN s /\ s[m] = t[m]
                          \/ \E k \in Expiring(timers) : t[m].id = timers[k].id
        BY DEF Ids, Told
      <4> QED BY <3>4, <3>6, PlaceInConcat
    <3>8. Heard = Ids(s) /\ Heard' = Ids(t)
      BY <2>1, <2>4, <3>1, HeardIs
    <3>9. EchoesTyped'
      <4>1. program = "kmain" =>
               /\ \A n \in DOMAIN shown : shown[n] = n
               /\ Numbered(s, Len(shown), typed)
        BY <1>1, <2>4, <3>1 DEF EchoesTyped, Alive
      <4>2. \A n \in DOMAIN e : e[n].kind # "CHAR"
        BY <3>6
      <4>3. program' = "kmain" =>
               /\ \A n \in DOMAIN shown' : shown'[n] = n
               /\ Numbered(t, Len(shown'), typed')
        BY <3>4, <4>1, <4>2, NumberedJoin
      <4> QED BY <3>1, <4>3 DEF EchoesTyped
    <3> QED BY <2>1, <2>2, <3>7, <3>8, <3>9
  <2> QED BY <2>3, <2>4
<1> QED BY <1>1, <1>3, <1>4, TimerIRQMail

-----------------------------------------------------------------------------
(* The library's steps.                                                    *)

LEMMA InTimeFades ==
    ASSUME Fades, NEW n \in Nat, NEW m, m = n \/ m = n + 1, NEW id, NEW time \in Nat,
           InTime(Heard, timers, n, id, time), timers \in Seq(Timer)
    PROVE  InTime(Heard', timers', m, id, time)
<1>1. PICK a : a = n * Tick
  OBVIOUS
<1>2. PICK b : b = m * Tick
  OBVIOUS
<1>3. PICK due : due = Millis(time)
  OBVIOUS
<1>4. a \in Nat /\ due \in Nat /\ b \in Nat /\ b >= a
  <2>1. a \in Nat /\ (n + 1) * Tick = a + Tick
    BY <1>1, OneMoreTick
  <2>2. CASE m = n
    BY <1>1, <1>2, <1>3, <2>1, <2>2, MillisType, TimeAssumption DEF Time
  <2>3. CASE m = n + 1
    BY <1>2, <1>3, <2>1, <2>3, MillisType, TimeAssumption DEF Time
  <2> QED BY <2>2, <2>3
<1>5. /\ \A k \in Waiting(timers) : timers[k].id = id => timers[k].left + a >= due
      /\ id \in Heard => a >= due
  BY <1>1, <1>3 DEF InTime
<1>6. ASSUME NEW k \in Waiting(timers'), timers'[k].id = id
      PROVE  timers'[k].left + b >= due
  <2>1. k \in Waiting(timers) /\ timers'[k] = timers[k]
    BY DEF Fades
  <2>2. timers[k].left + a >= due
    BY <1>5, <1>6, <2>1
  <2>3. PICK left : left = timers[k].left
    OBVIOUS
  <2>4. left \in Nat
    <3>1. timers[k] \in Timer
      BY <2>1 DEF Waiting
    <3> QED BY <2>3, <3>1, TimeAssumption DEF Timer, Time
  <2>5. left + a >= due
    BY <2>2, <2>3
  <2>6. left + b >= due
    BY <1>4, <2>4, <2>5
  <2> QED BY <2>1, <2>3, <2>6
<1>7. id \in Heard' => b >= due
  BY <1>4, <1>5 DEF Fades
<1> QED BY <1>2, <1>3, <1>6, <1>7 DEF InTime

(* Nothing is heard, and the library waits for no other timer.             *)
LEMMA LibraryRests ==
    ASSUME ProgramsInv, Fades, LibraryOK', UNCHANGED <<timer, said, ticks>>,
           call'.fn = "Sleep" => call' = call
    PROVE  SleepInTime' /\ LineInTime'
<1>1. /\ LibraryOK /\ SleepInTime /\ LineInTime /\ timers \in Seq(Timer)
      /\ ticks \in Nat
  BY DEF ProgramsInv, LibraryOK, OnceInv, MailInv, KernelInv, RestOK
<1>2. SleepInTime'
  <2> SUFFICES ASSUME call'.fn = "Sleep"
               PROVE  InTime(Heard', timers', ticks', call'.timer, call'.asked)
    BY DEF SleepInTime
  <2>1. InTime(Heard, timers, ticks, call.timer, call.asked)
    BY <1>1 DEF SleepInTime
  <2>2. call.asked \in Nat
    BY <1>1 DEF LibraryOK
  <2>3. InTime(Heard', timers', ticks, call.timer, call.asked)
    BY <1>1, <2>1, <2>2, InTimeFades
  <2> QED BY <2>3
<1>3. LineInTime'
  <2> SUFFICES ASSUME timer' # 0
               PROVE  IF said' = 0 THEN InTime(Heard', timers', ticks', timer', 1)
                      ELSE /\ timer' \notin Heard'
                           /\ \A k \in Waiting(timers') : timers'[k].id # timer'
    BY DEF LineInTime
  <2>1. CASE said = 0
    <3>1. InTime(Heard, timers, ticks, timer, 1) /\ 1 \in Nat
      BY <1>1, <2>1 DEF LineInTime
    <3>2. InTime(Heard', timers', ticks, timer, 1)
      BY <1>1, <3>1, InTimeFades
    <3> QED BY <2>1, <3>2
  <2>2. CASE said # 0
    BY <1>1, <2>2 DEF LineInTime, Fades
  <2> QED BY <2>1, <2>2
<1> QED BY <1>2, <1>3

(* A tick: the time that is waited for passes.                             *)
LEMMA TockInTime ==
    ASSUME ProgramsInv, Tock
    PROVE  OneProcess' /\ EchoesTyped' /\ LibraryOK' /\ SleepInTime' /\ LineInTime'
<1>1. /\ OnceInv /\ LibraryOK /\ SleepInTime /\ LineInTime
      /\ timers \in Seq(Timer) /\ ticks \in Nat
  BY DEF ProgramsInv, LibraryOK, OnceInv, MailInv, KernelInv, RestOK
<1>2. /\ TimerIRQ /\ UNCHANGED <<program, call, timer, typed, shown, said>>
      /\ ticks' = IF Counting THEN ticks + 1 ELSE ticks
  BY DEF Tock
<1>3. /\ OneProcess' /\ EchoesTyped'
      /\ \/ Fades
         \/ /\ timers' = CountdownAll(timers)
            /\ Heard' \subseteq Heard \cup {timers[k].id : k \in Expiring(timers)}
  BY <1>2, TickSeen
<1>4. ticks' \in Nat /\ (ticks' = ticks \/ ticks' = ticks + 1)
  BY <1>1, <1>2
<1>5. LibraryOK'
  BY <1>1, <1>2, <1>4 DEF LibraryOK
<1>6. ASSUME NEW id, NEW time \in Nat, InTime(Heard, timers, ticks, id, time),
             Counting <=> ticks * Tick < Millis(time)
      PROVE  InTime(Heard', timers', ticks', id, time)
  <2>1. CASE Fades
    BY <1>1, <1>4, <1>6, <2>1, InTimeFades
  <2>2. CASE /\ timers' = CountdownAll(timers)
             /\ Heard' \subseteq Heard \cup {timers[k].id : k \in Expiring(timers)}
    <3>1. ticks' = IF ticks * Tick < Millis(time) THEN ticks + 1 ELSE ticks
      BY <1>2, <1>6
    <3>2. InTime(Heard', CountdownAll(timers), ticks', id, time)
      BY <1>1, <1>6, <2>2, <3>1, TickInTime
    <3> QED BY <2>2, <3>2
  <2> QED BY <1>3, <2>1, <2>2
<1>7. SleepInTime'
  <2> SUFFICES ASSUME call.fn = "Sleep"
               PROVE  InTime(Heard', timers', ticks', call.timer, call.asked)
    BY <1>2 DEF SleepInTime
  <2>1. InTime(Heard, timers, ticks, call.timer, call.asked)
    BY <1>1 DEF SleepInTime
  <2>2. call.asked \in Nat /\ call.timer # 0
    BY <1>1 DEF LibraryOK
  <2>3. Counting <=> ticks * Tick < Millis(call.asked)
    BY <2>2 DEF Counting, Awaited
  <2> QED BY <1>6, <2>1, <2>2, <2>3
<1>8. LineInTime'
  <2> SUFFICES ASSUME timer # 0
               PROVE  IF said = 0 THEN InTime(Heard', timers', ticks', timer, 1)
                      ELSE /\ timer \notin Heard'
                           /\ \A k \in Waiting(timers') : timers'[k].id # timer
    BY <1>2 DEF LineInTime
  <2>1. CASE said = 0
    <3>1. InTime(Heard, timers, ticks, timer, 1) /\ 1 \in Nat
      BY <1>1, <2>1 DEF LineInTime
    <3>2. call.fn # "Sleep"
      BY <1>1 DEF LibraryOK
    <3>3. Counting <=> ticks * Tick < Millis(1)
      BY <2>1, <3>2 DEF Counting, Awaited
    <3>4. InTime(Heard', timers', ticks', timer, 1)
      BY <1>6, <3>1, <3>3
    <3> QED BY <2>1, <3>4
  <2>2. CASE said # 0
    <3>1. timer \notin Heard /\ \A k \in Waiting(timers) : timers[k].id # timer
      BY <1>1, <2>2 DEF LineInTime
    <3>2. CASE Fades
      BY <2>2, <3>1, <3>2 DEF Fades
    <3>3. CASE /\ timers' = CountdownAll(timers)
               /\ Heard' \subseteq Heard \cup {timers[k].id : k \in Expiring(timers)}
      <4>1. \A k \in Expiring(timers) : k \in Waiting(timers)
        BY DEF Expiring, Expires, Waiting
      <4>2. \A k \in Waiting(timers') :
               k \in Waiting(timers) /\ timers'[k].id = timers[k].id
        BY <1>1, <3>3, CountdownAllSpec DEF Waiting
      <4> QED BY <2>2, <3>1, <3>3, <4>1, <4>2
    <3> QED BY <1>3, <3>2, <3>3
  <2> QED BY <2>1, <2>2
<1> QED BY <1>3, <1>5, <1>7, <1>8

(* An event is read: Sleep returns and the line is written in time.        *)
Timely ==
    /\ call.fn = "Sleep" /\ call'.fn = "none" /\ ~call.dying
         => ticks * Tick >= Millis(call.asked)
    /\ said' # said => said = 0 /\ ticks * Tick >= Millis(1)

LEMMA ReadInTime ==
    ASSUME ProgramsInv, Read_Event
    PROVE  LibraryOK' /\ SleepInTime' /\ LineInTime' /\ Timely
<1>1. /\ OnceInv /\ LibraryOK /\ SleepInTime /\ LineInTime /\ ReadEvent
      /\ timers \in Seq(Timer) /\ ticks \in Nat
  BY DEF ProgramsInv, LibraryOK, OnceInv, MailInv, KernelInv, RestOK, Read_Event
<1>2. PICK e : e = procs[PROCESS].cur
  OBVIOUS
<1>3. /\ e \in Event /\ Heard' \subseteq Heard /\ timers' = timers
      /\ e.kind = "TIMER" => e.id \in Heard /\ e.id \notin Heard'
  BY <1>1, <1>2, ReadTaken, ReadHeard
<1>4. /\ call' = After(call, e)
      /\ IF program = "kmain" /\ Returns(call, e) THEN Written(e)
         ELSE UNCHANGED <<shown, said>>
      /\ ticks' = IF call.timer # call'.timer \/ said # said' THEN 0 ELSE ticks
      /\ UNCHANGED <<program, timer, typed>>
  BY <1>2 DEF Read_Event
<1>5. Fades
  BY <1>3 DEF Fades
<1>6. 0 \notin Heard /\ \A k \in Waiting(timers) : timers[k].id \notin Heard
  BY <1>1, HeardOnce
<1>7. \/ said' = said /\ (shown' = shown \/ shown' = Append(shown, e.id))
      \/ /\ said' = said + 1 /\ shown' = shown
         /\ e.kind = "TIMER" /\ e.id = timer /\ program = "kmain"
  BY <1>4 DEF Written
<1>8. ticks' \in Nat
  BY <1>1, <1>4
<1>9. shown' \in Seq(Nat) /\ said' \in Nat /\ (timer = 0 => said' = 0)
  <2>1. e.id \in Nat /\ said \in Nat /\ shown \in Seq(Nat) /\ (timer = 0 => said = 0)
    BY <1>1, <1>3 DEF Event, LibraryOK
  <2>2. e.kind = "TIMER" => e.id # 0
    BY <1>3, <1>6
  <2>3. shown' \in Seq(Nat)
    <3>1. Append(shown, e.id) \in Seq(Nat)
      BY <2>1, AppendProperties
    <3> QED BY <1>7, <2>1, <3>1
  <2>4. said' \in Nat
    BY <1>7, <2>1
  <2> QED BY <1>7, <2>1, <2>2, <2>3, <2>4
<1>10. \/ Returns(call, e) /\ call' = NoCall
       \/ ~Returns(call, e) /\ call' = [call EXCEPT !.dying = Dies(call, e)]
  BY <1>4 DEF After
<1>11. /\ call \in [fn : Functions, kind : Kinds, timer : Nat, asked : Nat,
                    dying : BOOLEAN]
       /\ Dies(call, e) \in BOOLEAN
  BY <1>1 DEF LibraryOK, Dies, Accepts
<1>12. NoCall \in [fn : Functions, kind : Kinds, timer : Nat, asked : Nat,
                   dying : BOOLEAN]
       /\ NoCall.fn = "none" /\ NoCall.kind = "ANY" /\ NoCall.timer = 0
  BY DEF NoCall, Functions, Kinds
<1>13. CASE call.fn = "Sleep"
  <2>1. /\ program = "app" /\ call.kind = "TIMER" /\ call.timer # 0 /\ ~call.dying
        /\ timer = 0
    BY <1>1, <1>13 DEF LibraryOK
  <2>2. ~Dies(call, e)
    BY <2>1 DEF Dies, Accepts
  <2>3. said' = said /\ shown' = shown /\ LineInTime'
    BY <1>4, <1>7, <2>1 DEF LineInTime
  <2>4. InTime(Heard, timers, ticks, call.timer, call.asked)
    BY <1>1, <1>13 DEF SleepInTime
  <2>5. CASE Returns(call, e) /\ call' = NoCall
    <3>1. e.kind = "TIMER" /\ e.id = call.timer
      BY <1>13, <2>1, <2>5 DEF Returns, Accepts
    <3>2. ticks * Tick >= Millis(call.asked)
      BY <1>3, <2>4, <3>1 DEF InTime
    <3>3. LibraryOK'
      BY <1>1, <1>4, <1>8, <1>9, <1>12, <2>1, <2>5 DEF LibraryOK
    <3>4. SleepInTime'
      BY <1>12, <2>5 DEF SleepInTime
    <3> QED BY <2>3, <3>2, <3>3, <3>4 DEF Timely
  <2>6. CASE call' = [call EXCEPT !.dying = Dies(call, e)]
    <3>1. call' = call
      <4>1. Dies(call, e) = FALSE
        BY <1>11, <2>2
      <4>2. call.dying = FALSE
        BY <1>11, <2>1
      <4> QED BY <1>11, <2>6, <4>1, <4>2
    <3>2. ticks' = ticks
      BY <1>4, <2>3, <3>1
    <3>3. LibraryOK'
      BY <1>1, <1>4, <2>3, <3>1, <3>2 DEF LibraryOK
    <3>4. SleepInTime' /\ LineInTime'
      BY <1>4, <1>5, <2>3, <3>1, <3>2, <3>3, LibraryRests
    <3> QED BY <2>3, <1>13, <3>1, <3>3, <3>4 DEF Timely
  <2> QED BY <1>10, <2>5, <2>6
<1>14. CASE call.fn # "Sleep"
  <2>1. call.timer = 0
    BY <1>1, <1>14 DEF LibraryOK
  <2>2. /\ call' \in [fn : Functions, kind : Kinds, timer : Nat, asked : Nat,
                      dying : BOOLEAN]
        /\ call'.fn # "Sleep" /\ call'.timer = 0
        /\ call.kind = "ANY" => call'.kind = "ANY"
    <3>1. CASE call' = NoCall
      BY <1>12, <3>1
    <3>2. CASE call' = [call EXCEPT !.dying = Dies(call, e)]
      <4>1. PICK d \in BOOLEAN : d = Dies(call, e)
        BY <1>11
      <4> QED BY <1>11, <1>14, <2>1, <3>2, <4>1
    <3> QED BY <1>10, <3>1, <3>2
  <2>3. LibraryOK'
    BY <1>1, <1>4, <1>8, <1>9, <2>2 DEF LibraryOK
  <2>4. SleepInTime'
    BY <2>2 DEF SleepInTime
  <2>5. CASE said' = said
    <3>1. ticks' = ticks
      BY <1>4, <2>1, <2>2, <2>5
    <3>2. LineInTime'
      BY <1>4, <1>5, <2>2, <2>3, <2>5, <3>1, LibraryRests
    <3> QED BY <1>14, <2>3, <2>4, <2>5, <3>2 DEF Timely
  <2>6. CASE said' # said
    <3>1. said' = said + 1 /\ e.kind = "TIMER" /\ e.id = timer /\ e.id \in Heard
          /\ e.id \notin Heard'
      BY <1>3, <1>7, <2>6
    <3>2. timer # 0
      BY <1>6, <3>1
    <3>3. said = 0
      BY <1>1, <3>1, <3>2 DEF LineInTime
    <3>4. ticks * Tick >= Millis(1)
      BY <1>1, <3>1, <3>2, <3>3 DEF LineInTime, InTime
    <3>5. LineInTime'
      <4>1. timer' = timer /\ said' # 0
        BY <1>4, <3>1, <3>3
      <4> QED BY <1>3, <1>6, <3>1, <4>1 DEF LineInTime
    <3> QED BY <1>14, <2>3, <2>4, <3>3, <3>4, <3>5 DEF Timely
  <2> QED BY <2>5, <2>6
<1> QED BY <1>13, <1>14

(* A timer is started: what Sleep and kmain wait for has all its time.     *)
LEMMA StartLibrary ==
    ASSUME ProgramsInv,
           KmainTimer \/ \E time \in Arguments : AppSleep(time) \/ AppTimer(time)
    PROVE  /\ OneProcess' /\ EchoesTyped' /\ LibraryOK' /\ SleepInTime' /\ LineInTime'
           /\ said' = said /\ call.fn # "Sleep"
<1>1. LibraryOK /\ SleepInTime /\ LineInTime
  BY DEF ProgramsInv
<1>2. CASE KmainTimer
  <2>1. /\ program = "kmain" /\ timer = 0 /\ StartTimer(Millis(1)) /\ timer' = ids'
        /\ UNCHANGED <<program, call, typed, shown, said, ticks>>
    BY <1>2 DEF KmainTimer
  <2>2. 1 \in Nat /\ Millis(1) \in Delays
    BY LibraryAssumption
  <2>3. /\ OneProcess' /\ EchoesTyped' /\ ids' = ids + 1 /\ ids \in Nat
        /\ \A n \in Nat : InTime(Heard', timers', n, ids', 1)
    BY <2>1, <2>2, StartInTime
  <2>4. said = 0 /\ call.fn # "Sleep" /\ ticks \in Nat
    BY <1>1, <2>1 DEF LibraryOK
  <2>5. timer' \in Nat /\ timer' # 0
    BY <2>1, <2>3
  <2>6. LibraryOK'
    BY <1>1, <2>1, <2>5 DEF LibraryOK
  <2>7. SleepInTime'
    BY <2>1, <2>4 DEF SleepInTime
  <2>8. LineInTime'
    BY <2>1, <2>3, <2>4 DEF LineInTime
  <2> QED BY <2>1, <2>3, <2>4, <2>6, <2>7, <2>8
<1>3. CASE \E time \in Arguments : AppSleep(time) \/ AppTimer(time)
  <2>1. PICK time \in Arguments : AppSleep(time) \/ AppTimer(time)
    BY <1>3
  <2>2. time \in Nat /\ Millis(time) \in Delays
    BY ProgramsAssumption, LibraryAssumption
  <2>3. /\ InApp /\ StartTimer(Millis(time))
        /\ UNCHANGED <<program, timer, typed, shown, said, ticks>>
    <3>1. CASE AppSleep(time)
      BY <3>1, Zenon DEF AppSleep
    <3>2. CASE AppTimer(time)
      BY <3>2 DEF AppTimer, libVars
    <3> QED BY <2>1, <3>1, <3>2
  <2>4. program = "app" /\ call.fn = "none"
    BY <2>3 DEF InApp
  <2>5. /\ OneProcess' /\ EchoesTyped' /\ ids' = ids + 1 /\ ids \in Nat
        /\ \A n \in Nat : InTime(Heard', timers', n, ids', time)
    BY <2>2, <2>3, StartInTime
  <2>6. timer' = 0 /\ LineInTime' /\ ticks' \in Nat
    BY <1>1, <2>3, <2>4 DEF LibraryOK, LineInTime
  <2>7. CASE AppTimer(time)
    <3>1. call' = call
      BY <2>7 DEF AppTimer, libVars
    <3>2. LibraryOK'
      BY <1>1, <2>3, <3>1 DEF LibraryOK
    <3>3. SleepInTime'
      BY <2>4, <3>1 DEF SleepInTime
    <3> QED BY <2>3, <2>4, <2>5, <2>6, <3>2, <3>3
  <2>8. CASE AppSleep(time)
    <3>1. call' = [NoCall EXCEPT !.fn = "Sleep", !.kind = "TIMER", !.timer = ids',
                                 !.asked = time]
      BY <2>8, Zenon DEF AppSleep
    <3>2. PICK id \in Nat : id = ids' /\ id # 0
      BY <2>5
    <3>3. call' = [fn |-> "Sleep", kind |-> "TIMER", timer |-> id, asked |-> time,
                   dying |-> FALSE]
      BY <3>1, <3>2 DEF NoCall
    <3>4. /\ call' \in [fn : Functions, kind : Kinds, timer : Nat, asked : Nat,
                        dying : BOOLEAN]
          /\ call'.kind = "TIMER" /\ call'.timer = id /\ call'.asked = time
          /\ call'.fn = "Sleep" /\ ~call'.dying
      BY <2>2, <3>2, <3>3 DEF Functions, Kinds
    <3>5. LibraryOK'
      BY <1>1, <2>3, <2>4, <3>2, <3>4 DEF LibraryOK
    <3>6. SleepInTime'
      BY <2>5, <2>6, <3>2, <3>4 DEF SleepInTime
    <3> QED BY <2>3, <2>4, <2>5, <2>6, <3>5, <3>6
  <2> QED BY <2>1, <2>7, <2>8
<1> QED BY <1>2, <1>3

(* Every other step: the process hears of no timer, and Sleep goes on.     *)
Kept == OneProcess' /\ EchoesTyped' /\ LibraryOK' /\ SleepInTime' /\ LineInTime'

LEMMA CalmLibrary ==
    ASSUME ProgramsInv, Calm, UNCHANGED <<program, timer, shown, said, ticks>>,
           typed' \in Nat,
           \/ call' = call
           \/ /\ call.fn # "Sleep"
              /\ call' \in [fn : Functions, kind : Kinds, timer : Nat, asked : Nat,
                            dying : BOOLEAN]
              /\ call'.fn # "Sleep" /\ call'.timer = 0
              /\ program = "kmain" => call'.kind = "ANY"
    PROVE  Kept /\ Timely
<1>1. LibraryOK /\ Fades /\ OneProcess' /\ EchoesTyped'
  BY DEF ProgramsInv, Calm
<1>2. LibraryOK'
  <2>1. CASE call' = call
    BY <1>1, <2>1 DEF LibraryOK
  <2>2. CASE call' # call
    BY <1>1, <2>2 DEF LibraryOK
  <2> QED BY <2>1, <2>2
<1>3. SleepInTime' /\ LineInTime'
  BY <1>1, <1>2, LibraryRests
<1>4. Timely
  BY DEF Timely
<1> QED BY <1>1, <1>2, <1>3, <1>4 DEF Kept

(* The library is inside PullEvent, or in no function.                     *)
InPull(c, kind) ==
    /\ c \in [fn : Functions, kind : Kinds, timer : Nat, asked : Nat, dying : BOOLEAN]
    /\ c.fn # "Sleep" /\ c.timer = 0 /\ c.kind = kind

LEMMA NoCallType == InPull(NoCall, "ANY")
BY DEF InPull, NoCall, Functions, Kinds

LEMMA AnyCallType == InPull([NoCall EXCEPT !.fn = "PullEvent"], "ANY")
BY DEF InPull, NoCall, Functions, Kinds

LEMMA PullCallType ==
    ASSUME NEW kind \in Kinds, NEW c,
           c = [NoCall EXCEPT !.fn = "PullEvent", !.kind = kind]
    PROVE  InPull(c, kind)
<1>1. PICK p : p = [NoCall EXCEPT !.fn = "PullEvent"]
  OBVIOUS
<1>2. InPull(p, "ANY")
  BY <1>1, AnyCallType
<1>3. c = [p EXCEPT !.kind = kind]
  BY <1>1, Zenon
<1> QED BY <1>2, <1>3 DEF InPull

LEMMA KeepsTime ==
    ASSUME ProgramsInv, [ProgramsNext]_allVars
    PROVE  Kept /\ Timely
<1>1. LibraryOK /\ typed \in Nat
  BY DEF ProgramsInv, LibraryOK
<1>2. CASE KernelBoot
  <2>1. Boot /\ UNCHANGED libVars
    BY <1>2 DEF KernelBoot
  <2>2. UNCHANGED <<program, call, timer, typed, shown, said, ticks>>
    BY <2>1 DEF libVars
  <2>3. Calm
    BY <2>1, <2>2, BootCalm
  <2> QED BY <1>1, <2>2, <2>3, CalmLibrary
<1>3. CASE KernelWait \/ Pull_Event \/ UNCHANGED allVars
  <2>1. /\ AliveWait \/ PullEvent \/ UNCHANGED vars
        /\ UNCHANGED <<program, call, timer, typed, shown, said, ticks>>
    BY <1>3 DEF KernelWait, Pull_Event, allVars, libVars
  <2>2. Calm
    BY <2>1, RestCalm
  <2> QED BY <1>1, <2>1, <2>2, CalmLibrary
<1>4. CASE Tock
  <2>1. said' = said /\ call' = call
    BY <1>4 DEF Tock
  <2> QED BY <1>4, <2>1, TockInTime DEF Kept, Timely
<1>5. CASE Press
  <2>1. UNCHANGED <<program, call, timer, shown, said, ticks>> /\ typed' \in Nat
    BY <1>1, <1>5 DEF Press
  <2> QED BY <1>5, <2>1, PressCalm, CalmLibrary
<1>6. CASE Read_Event
  <2>1. OneProcess' /\ EchoesTyped'
    BY <1>6, ReadEchoes
  <2> QED BY <1>6, <2>1, ReadInTime DEF Kept
<1>7. CASE Terminate
  <2>1. /\ call.dying /\ Kill(0) /\ call' = NoCall
        /\ UNCHANGED <<program, timer, typed, shown, said, ticks>>
    BY <1>7 DEF Terminate
  <2>2. Calm
    BY <2>1, KillCalm
  <2>3. call.fn # "Sleep"
    BY <1>1, <2>1 DEF LibraryOK
  <2>4. /\ NoCall \in [fn : Functions, kind : Kinds, timer : Nat, asked : Nat,
                      dying : BOOLEAN]
        /\ NoCall.fn # "Sleep" /\ NoCall.timer = 0 /\ NoCall.kind = "ANY"
    BY NoCallType DEF InPull
  <2> QED BY <1>1, <2>1, <2>2, <2>3, <2>4, CalmLibrary
<1>8. CASE KmainPull
  <2> DEFINE c == [NoCall EXCEPT !.fn = "PullEvent"]
  <2>1. /\ call.fn = "none" /\ PullEvent /\ call' = c
        /\ UNCHANGED <<program, timer, typed, shown, said, ticks>>
    BY <1>8 DEF KmainPull
  <2>2. /\ c \in [fn : Functions, kind : Kinds, timer : Nat, asked : Nat,
                  dying : BOOLEAN]
        /\ c.fn # "Sleep" /\ c.timer = 0 /\ c.kind = "ANY"
    <3>1. InPull(c, "ANY")
      BY AnyCallType
    <3> HIDE DEF c
    <3> QED BY <3>1 DEF InPull
  <2> HIDE DEF c
  <2>3. Calm
    BY <2>1, RestCalm
  <2> QED BY <1>1, <2>1, <2>2, <2>3, CalmLibrary
<1>9. CASE \E kind \in Wanted : AppPull(kind)
  <2>1. PICK kind \in Wanted : AppPull(kind)
    BY <1>9
  <2> DEFINE c == [NoCall EXCEPT !.fn = "PullEvent", !.kind = kind]
  <2>2. /\ InApp /\ call' = c
        /\ UNCHANGED <<vars, program, timer, typed, shown, said, ticks>>
    BY <2>1, Zenon DEF AppPull
  <2>3. kind \in Kinds
    BY DEF Kinds
  <2>4. /\ c \in [fn : Functions, kind : Kinds, timer : Nat, asked : Nat,
                  dying : BOOLEAN]
        /\ c.fn # "Sleep" /\ c.timer = 0
    <3>1. PICK d : d = c
      OBVIOUS
    <3>2. d = [NoCall EXCEPT !.fn = "PullEvent", !.kind = kind]
      BY <3>1, Zenon
    <3> HIDE DEF c
    <3>3. InPull(d, kind)
      BY <2>3, <3>2, PullCallType, Zenon
    <3> QED BY <3>1, <3>3 DEF InPull
  <2> HIDE DEF c
  <2>5. call.fn # "Sleep" /\ program # "kmain"
    BY <2>2 DEF InApp
  <2>6. Calm
    BY <2>2, RestCalm
  <2> QED BY <1>1, <2>2, <2>4, <2>5, <2>6, CalmLibrary
<1>10. CASE KmainTimer \/ \E time \in Arguments : AppSleep(time) \/ AppTimer(time)
  BY <1>10, StartLibrary DEF Kept, Timely
<1>11. CASE \E e \in UserEvents : AppQueue(e)
  <2>1. PICK e \in UserEvents : AppQueue(e)
    BY <1>11
  <2>2. /\ program = "app" /\ QueueEvent(0, e)
        /\ UNCHANGED <<program, call, timer, typed, shown, said, ticks>>
    BY <2>1 DEF AppQueue, InApp, libVars
  <2>3. Calm
    BY <2>2, QueueCalm
  <2> QED BY <1>1, <2>2, <2>3, CalmLibrary
<1>12. CASE AppKill
  <2>1. Kill(0) /\ UNCHANGED <<program, call, timer, typed, shown, said, ticks>>
    BY <1>12 DEF AppKill, libVars
  <2>2. Calm
    BY <2>1, KillCalm
  <2> QED BY <1>1, <2>1, <2>2, CalmLibrary
<1> QED
  BY <1>2, <1>3, <1>4, <1>5, <1>6, <1>7, <1>8, <1>9, <1>10, <1>11, <1>12
     DEF ProgramsNext, Library, Kmain, App

-----------------------------------------------------------------------------
LEMMA ProgramsStart == ProgramsInit => ProgramsInv
<1> SUFFICES ASSUME ProgramsInit PROVE ProgramsInv
  OBVIOUS
<1>1. /\ Init /\ program \in {"kmain", "app"} /\ call = NoCall /\ timer = 0
      /\ typed = 0 /\ shown = <<>> /\ said = 0 /\ ticks = 0
  BY DEF ProgramsInit
<1>2. OnceInv
  BY <1>1, OnceInit
<1>3. DOMAIN procs = {ALIVE} /\ PROCESS \notin DOMAIN procs
  <2>1. PICK susp \in UninitTimes, run \in UninitTimes :
           procs = <<AliveProcess(susp, run)>>
    BY <1>1 DEF Init
  <2>2. PICK a : a = AliveProcess(susp, run)
    OBVIOUS
  <2>3. procs = <<a>>
    BY <2>1, <2>2
  <2> QED BY <2>3 DEF ALIVE, PROCESS
<1>4. OneProcess
  BY <1>1, <1>3 DEF OneProcess
<1>5. EchoesTyped
  BY <1>3 DEF EchoesTyped, Alive, Live
<1>6. LibraryOK
  BY <1>1, NoCallType DEF LibraryOK, InPull
<1>7. SleepInTime /\ LineInTime
  BY <1>1, NoCallType DEF InPull, SleepInTime, LineInTime
<1> QED BY <1>2, <1>4, <1>5, <1>6, <1>7 DEF ProgramsInv

LEMMA ProgramsStep ==
    ASSUME ProgramsInv, [ProgramsNext]_allVars
    PROVE  ProgramsInv' /\ Timely
<1>1. OnceInv /\ typed \in Nat
  BY DEF ProgramsInv, LibraryOK
<1>2. OnceInv'
  BY <1>1, StepIsKernel, OnceNext
<1> QED BY <1>2, KeepsTime DEF ProgramsInv, Kept

(* What the library and kmain rely on, in every reachable state: they are  *)
(* the code of the only process; the timer they wait for has lost no more  *)
(* than the ticks counted since it was started, and its event is unread    *)
(* only when these were enough; a second line is never to come.            *)
THEOREM ProgramsInvariant == ProgramsSpec => []ProgramsInv
<1>1. ProgramsInv /\ [ProgramsNext]_allVars => ProgramsInv'
  BY ProgramsStep
<1> QED BY <1>1, ProgramsStart, PTL DEF ProgramsSpec

(* kernel.cpp: what was typed is what kmain has written, and then what it  *)
(* still has to read, in order and each character once.                    *)
THEOREM TypedIsEchoed == ProgramsSpec => []EchoesTyped
<1>1. ProgramsInv => EchoesTyped
  BY DEF ProgramsInv
<1> QED BY <1>1, ProgramsInvariant, PTL

(* OS.hpp, kernel.cpp: Sleep does not return, and "One second passed!" is  *)
(* not written, before the timer's time is over; it is written once.       *)
THEOREM NothingEarly == ProgramsSpec => NeverEarly
<1>1. ProgramsInv /\ [ProgramsNext]_allVars => Timely
  BY ProgramsStep
<1>2. Timely => [/\ call.fn = "Sleep" /\ call'.fn = "none" /\ ~call.dying
                     => ticks * Tick >= Millis(call.asked)
                 /\ said' # said => said = 0 /\ ticks * Tick >= Millis(1)]_allVars
  BY DEF Timely
<1> QED BY <1>1, <1>2, ProgramsInvariant, PTL DEF ProgramsSpec, NeverEarly

(* The kernel's theorems hold of these programs, too.                      *)
THEOREM ProgramsTimersOnce == ProgramsSpec => []TimerFiresOnce
BY ProgramsAreKernel, FiresOnce, PTL
=============================================================================
