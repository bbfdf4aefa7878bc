---------------------------- MODULE KernelProofs ----------------------------
(***************************************************************************)
(* Theorems about Kernel.tla, for every value of its constants, and the    *)
(* lemmas about the operators of ProcessTable.tla and Timers.tla that they *)
(* rest on: what these return, preserve and change.                        *)
(*                                                                         *)
(* RunningIsOnCpu and SyscallsAttributed hold each other up: a system call *)
(* finds its caller because the CPU executes the process that is RUNNING,  *)
(* and it leaves only that one RUNNING because it found the right one.     *)
(* With the types they are inductive (KernelInv).                          *)
(***************************************************************************)
EXTENDS KernelProperties, TLAPS, FiniteSetTheorems, SequenceTheorems, WellFoundedInduction

-----------------------------------------------------------------------------
(* Searching.                                                              *)

(* A search finds an element of the set, and NULL only in the empty set:   *)
(* a non-empty set of slots has a least element.                           *)
LEMMA FirstIsMember ==
    ASSUME NEW S \in SUBSET (Nat \ {0})
    PROVE  /\ S = {} => First(S) = NoSlot
           /\ S # {} => First(S) \in S /\ \A j \in S : First(S) <= j
<1>1. CASE S = {}
  BY <1>1 DEF First
<1>2. CASE S # {}
  <2> DEFINE Upto(i) == 1..i
             T == {Upto(i) : i \in S}
             R == StrictSubsetOrdering(Nat)
  <2>1. \A i \in S : Upto(i) \subseteq Nat /\ IsFiniteSet(Upto(i))
    BY FS_Interval
  <2>2. T \subseteq FiniteSubsetsOf(Nat) /\ T # {}
    BY <2>1, <1>2 DEF FiniteSubsetsOf
  <2>3. PICK x \in T : \A y \in T : ~(<<y, x>> \in R)
    <3> HIDE DEF T, R
    <3>1. IsWellFoundedOn(R, FiniteSubsetsOf(Nat))
      BY FS_StrictSubsetOrderingWellFounded DEF R
    <3> QED BY <3>1, <2>2, WFMin
  <2>4. PICK i \in S : x = Upto(i)
    OBVIOUS
  <2>5. \A j \in S : i <= j
    <3> SUFFICES ASSUME NEW j \in S, j < i PROVE FALSE
      OBVIOUS
    <3>1. Upto(j) \subseteq Upto(i) /\ Upto(j) # Upto(i)
      OBVIOUS
    <3>2. <<Upto(j), Upto(i)>> \in R
      BY <3>1, <2>1 DEF StrictSubsetOrdering
    <3> QED BY <3>2, <2>3, <2>4
  <2> QED BY <1>2, <2>5 DEF First
<1> QED BY <1>1, <1>2

(* ... so the searches of the table return a slot with the property they   *)
(* look for, or NULL when no slot has it.                                  *)
LEMMA SlotSearch ==
    ASSUME NEW S, NEW P \in Seq(S), NEW T \in SUBSET (DOMAIN P)
    PROVE  /\ First(T) \in T \cup {NoSlot}
           /\ First(T) = NoSlot <=> T = {}
           /\ First(T) # NoSlot => First(T) \in DOMAIN P
<1>1. T \in SUBSET (Nat \ {0})
  OBVIOUS
<1> QED BY <1>1, FirstIsMember DEF NoSlot

LEMMA RunningSlotFound ==
    ASSUME NEW S, NEW P \in Seq(S)
    PROVE  /\ RunningSlot(P) = NoSlot <=> WithStatus(P, "RUNNING") = {}
           /\ RunningSlot(P) # NoSlot =>
                /\ RunningSlot(P) \in DOMAIN P
                /\ P[RunningSlot(P)].status = "RUNNING"
<1>1. WithStatus(P, "RUNNING") \in SUBSET (DOMAIN P)
  BY DEF WithStatus
<1> QED BY <1>1, SlotSearch DEF RunningSlot, WithStatus

LEMMA DeadSlotFound ==
    ASSUME NEW S, NEW P \in Seq(S), DeadSlot(P) # NoSlot
    PROVE  DeadSlot(P) \in DOMAIN P /\ P[DeadSlot(P)].status = "DEAD"
<1>1. WithStatus(P, "DEAD") \in SUBSET (DOMAIN P)
  BY DEF WithStatus
<1> QED BY <1>1, SlotSearch DEF DeadSlot, WithStatus

LEMMA NoneDead ==
    ASSUME NEW S, NEW P \in Seq(S), DeadSlot(P) = NoSlot
    PROVE  \A i \in DOMAIN P : P[i].status # "DEAD"
<1> DEFINE dead == WithStatus(P, "DEAD")
<1>1. dead \in SUBSET (DOMAIN P)
  BY DEF WithStatus
<1>2. dead = {}
  <2>1. DeadSlot(P) = First(dead)
    BY DEF DeadSlot
  <2> HIDE DEF dead
  <2> QED BY <1>1, <2>1, SlotSearch
<1> QED BY <1>2 DEF WithStatus

LEMMA LookupFound ==
    ASSUME NEW S, NEW P \in Seq(S), NEW id
    PROVE  /\ Lookup(P, id) # NoSlot <=> \E i \in Live(P) : P[i].uid = id
           /\ Lookup(P, id) # NoSlot =>
                /\ Lookup(P, id) \in DOMAIN P
                /\ P[Lookup(P, id)].status # "DEAD"
                /\ P[Lookup(P, id)].uid = id
<1> DEFINE T == {i \in Live(P) : P[i].uid = id}
<1>1. T \in SUBSET (DOMAIN P)
  BY DEF Live
<1>2. Lookup(P, id) \in T \cup {NoSlot} /\ (Lookup(P, id) = NoSlot <=> T = {})
  <2> HIDE DEF T
  <2>1. First(T) \in T \cup {NoSlot} /\ (First(T) = NoSlot <=> T = {})
    BY <1>1, SlotSearch
  <2> QED BY <2>1 DEF Lookup, T
<1>3. NoSlot \notin DOMAIN P
  BY DEF NoSlot
<1> QED BY <1>1, <1>2, <1>3 DEF Live

LEMMA CoreSlotFound ==
    ASSUME NEW S, NEW P \in Seq(S), CoreSlot(P) # NoSlot
    PROVE  CoreSlot(P) \in Live(P) /\ CoreSlot(P) \in DOMAIN P
           /\ P[CoreSlot(P)].core
<1> DEFINE cores == {i \in Live(P) : P[i].core}
<1>1. cores \in SUBSET (DOMAIN P)
  BY DEF Live
<1>2. CoreSlot(P) = First(cores)
  BY DEF CoreSlot
<1>3. CoreSlot(P) \in cores
  <2> HIDE DEF cores
  <2> QED BY <1>1, <1>2, SlotSearch
<1> QED BY <1>3 DEF Live

LEMMA CoreSlotNone ==
    ASSUME NEW S, NEW P \in Seq(S), CoreSlot(P) = NoSlot
    PROVE  ~\E i \in Live(P) : P[i].core
<1> DEFINE cores == {i \in Live(P) : P[i].core}
<1>1. cores \in SUBSET (DOMAIN P)
  BY DEF Live
<1>2. CoreSlot(P) = First(cores)
  BY DEF CoreSlot
<1>3. cores = {}
  <2> HIDE DEF cores
  <2> QED BY <1>1, <1>2, SlotSearch
<1> QED BY <1>3

(* The scheduler chooses a ready process.                                  *)
LEMMA BestIsReady ==
    ASSUME NEW S, NEW P \in Seq(S), Best(P) # NoSlot
    PROVE  Best(P) \in DOMAIN P /\ P[Best(P)].status = "NORMAL"
<1> DEFINE ready == WithStatus(P, "NORMAL")
           fresh == {i \in ready : ~P[i].started}
           waited == {i \in ready : Score(P[i]) > 0}
           longest == {i \in waited :
                         \A j \in waited : Score(P[j]) <= Score(P[i])}
<1>1. fresh \in SUBSET (DOMAIN P) /\ longest \in SUBSET (DOMAIN P)
  BY DEF WithStatus
<1>2. Best(P) = First(fresh) \/ Best(P) = First(longest)
  BY DEF Best
<1>3. Best(P) \in fresh \/ Best(P) \in longest
  <2> HIDE DEF fresh, longest
  <2> QED BY <1>1, <1>2, SlotSearch
<1> QED BY <1>3 DEF WithStatus

-----------------------------------------------------------------------------
(* Updating one process: the types, the new status, and that the uid stays. *)

LEMMA PullType ==
    ASSUME NEW p \in Process, p.events # <<>>
    PROVE  /\ Pull(p) \in Process
           /\ Pull(p).uid = p.uid /\ Pull(p).status = p.status
<1>1. Head(p.events) \in Event /\ Tail(p.events) \in Seq(Event)
  <2>1. p.events \in Seq(Event)
    BY DEF Process
  <2> QED BY <2>1, HeadTailProperties
<1> QED BY <1>1 DEF Pull, Process

LEMMA PostType ==
    ASSUME NEW p \in Process, NEW evs \in Seq(Event)
    PROVE  /\ Post(p, evs) \in Process
           /\ Post(p, evs).uid = p.uid /\ Post(p, evs).status = p.status
<1>1. p.events \o evs \in Seq(Event)
  <2>1. p.events \in Seq(Event)
    BY DEF Process
  <2> QED BY <2>1, ConcatProperties
<1> QED BY <1>1 DEF Post, Process

LEMMA WakeType ==
    ASSUME NEW p \in Process, p.events # <<>>
    PROVE  /\ Wake(p) \in Process
           /\ Wake(p).uid = p.uid /\ Wake(p).status = "NORMAL"
BY PullType DEF Wake, Process, Statuses, Contexts

LEMMA SuspendType ==
    ASSUME NEW p \in Process
    PROVE  /\ Suspend(p) \in Process
           /\ Suspend(p).uid = p.uid /\ Suspend(p).status = "SUSPENDED"
BY DEF Suspend, Process, Statuses, Contexts

LEMMA WaitType ==
    ASSUME NEW p \in Process
    PROVE  /\ Wait(p) \in Process
           /\ Wait(p).uid = p.uid /\ Wait(p).status = "SUSPENDED"
BY DEF Wait, Process, Statuses, Contexts

LEMMA BuryType ==
    ASSUME NEW p \in Process
    PROVE  /\ Bury(p) \in Process
           /\ Bury(p).uid = p.uid /\ Bury(p).status = "DEAD"
<1>1. <<>> \in Seq(Event)
  OBVIOUS
<1> QED BY <1>1 DEF Bury, Process, Statuses

LEMMA RestartType ==
    ASSUME NEW p \in Process
    PROVE  /\ Restart(p) \in Process
           /\ Restart(p).uid = p.uid /\ Restart(p).status = p.status
BY DEF Restart, Process

LEMMA PreemptType ==
    ASSUME NEW p \in Process, NEW ctx \in Contexts
    PROVE  /\ Preempt(p, ctx) \in Process
           /\ Preempt(p, ctx).uid = p.uid /\ Preempt(p, ctx).status = "NORMAL"
BY DEF Preempt, Process, Statuses

LEMMA ResumeType ==
    ASSUME NEW p \in Process, NEW entry \in Contexts
    PROVE  /\ Resume(p, entry) \in Process
           /\ Resume(p, entry).uid = p.uid
           /\ Resume(p, entry).status = "RUNNING"
<1> DEFINE regs == IF p.started THEN p.regs ELSE entry
<1>1. regs \in Contexts
  BY DEF Process
<1>2. Resume(p, entry) = [p EXCEPT !.status = "RUNNING", !.started = TRUE,
                                   !.regs = regs]
  BY DEF Resume
<1> HIDE DEF regs
<1> QED BY <1>1, <1>2 DEF Process, Statuses

LEMMA NewProcessType ==
    ASSUME NEW u \in Nat, NEW user \in User, NEW core \in BOOLEAN
    PROVE  /\ NewProcess(u, user, core) \in Process
           /\ NewProcess(u, user, core).status = "NORMAL"
<1>1. <<>> \in Seq(Event) /\ ZeroEvent \in Event /\ 0 \in Time
  BY TimeAssumption DEF ZeroEvent, Event, EventKinds, Time
<1> QED BY <1>1 DEF NewProcess, Process, Statuses, Contexts

(* The accounting pass changes no uid, and no status but that of a         *)
(* suspended process, which becomes ready.                                 *)
LEMMA AccountType ==
    ASSUME NEW p \in Process, NEW passed \in Nat
    PROVE  /\ Account(p, passed) \in Process
           /\ Account(p, passed).uid = p.uid
           /\ Account(p, passed).status = "RUNNING" <=> p.status = "RUNNING"
           /\ Account(p, passed).status = "DEAD" <=> p.status = "DEAD"
<1>1. \A t \in Time : (t + passed) % TimeMod \in Time
  BY TimeAssumption DEF Time
<1>2. p.run \in Time /\ p.susp \in Time
  BY DEF Process
<1>3. /\ Ran(p, passed) \in Process
      /\ Ran(p, passed).uid = p.uid /\ Ran(p, passed).status = p.status
  BY <1>1, <1>2 DEF Ran, Process
<1>4. /\ Waited(p, passed) \in Process
      /\ Waited(p, passed).uid = p.uid /\ Waited(p, passed).status = p.status
      /\ Waited(p, passed).events = p.events
  BY <1>1, <1>2 DEF Waited, Process
<1>5. p.events # <<>> =>
        /\ Wake(Waited(p, passed)) \in Process
        /\ Wake(Waited(p, passed)).uid = p.uid
        /\ Wake(Waited(p, passed)).status = "NORMAL"
  BY <1>4, WakeType
<1> QED BY <1>3, <1>4, <1>5 DEF Account, Wakes

-----------------------------------------------------------------------------
(* The scheduler on a whole table.                                         *)

(* What no pass of the scheduler does: move a process, or revive or bury   *)
(* one.                                                                    *)
Follows(P, Q) ==
    /\ DOMAIN Q = DOMAIN P
    /\ \A i \in DOMAIN P :
         /\ Q[i].uid = P[i].uid
         /\ P[i].status # "DEAD" => Q[i].status # "DEAD"

LEMMA UpdateSlot ==
    ASSUME NEW S, NEW P \in Seq(S), NEW i \in DOMAIN P, NEW p \in S
    PROVE  /\ [P EXCEPT ![i] = p] \in Seq(S)
           /\ DOMAIN [P EXCEPT ![i] = p] = DOMAIN P
           /\ [P EXCEPT ![i] = p][i] = p
           /\ \A j \in DOMAIN P : j # i => [P EXCEPT ![i] = p][j] = P[j]
OBVIOUS

LEMMA ResumedSpec ==
    ASSUME NEW P \in Seq(Process), NEW i \in DOMAIN P
    PROVE  /\ Resumed(P, i) \in Seq(Process)
           /\ Follows(P, Resumed(P, i))
           /\ Resumed(P, i)[i].status = "RUNNING"
           /\ \A j \in DOMAIN P : j # i => Resumed(P, i)[j] = P[j]
           /\ Cpu(Resumed(P, i), i) \in [slot : DOMAIN P, ctx : Contexts]
           /\ Cpu(Resumed(P, i), i).slot = i
<1> DEFINE p == Resume(P[i], Entry(i))
<1>1. P[i] \in Process /\ Entry(i) \in Contexts
  BY DEF Entry, Contexts
<1>2. p \in Process /\ p.uid = P[i].uid /\ p.status = "RUNNING"
  BY <1>1, ResumeType
<1>3. Resumed(P, i) = [P EXCEPT ![i] = p]
  BY DEF Resumed
<1>4. p.regs \in Contexts
  <2> HIDE DEF p
  <2> QED BY <1>2 DEF Process
<1> HIDE DEF p
<1>5. /\ Resumed(P, i) \in Seq(Process)
      /\ DOMAIN Resumed(P, i) = DOMAIN P
      /\ Resumed(P, i)[i] = p
      /\ \A j \in DOMAIN P : j # i => Resumed(P, i)[j] = P[j]
  BY <1>2, <1>3, UpdateSlot
<1>6. Follows(P, Resumed(P, i))
  BY <1>2, <1>5 DEF Follows
<1> QED BY <1>2, <1>4, <1>5, <1>6 DEF Cpu

(* Without a running process, a process gets the CPU and no other status   *)
(* changes.                                                                *)
LEMMA DispatchSpec ==
    ASSUME NEW P \in Seq(Process), ALIVE \in DOMAIN P
    PROVE  /\ Dispatch(P).procs \in Seq(Process)
           /\ Follows(P, Dispatch(P).procs)
           /\ Dispatch(P).cpu \in [slot : DOMAIN P, ctx : Contexts]
           /\ Dispatch(P).procs[Dispatch(P).cpu.slot].status = "RUNNING"
           /\ \A j \in DOMAIN P : j # Dispatch(P).cpu.slot =>
                 Dispatch(P).procs[j].status = P[j].status
<1> DEFINE best == Best(P)
           A == [P EXCEPT ![ALIVE] = Restart(P[ALIVE])]
<1>1. CASE best # NoSlot
  <2>1. best \in DOMAIN P
    BY <1>1, BestIsReady
  <2>2. Dispatch(P) = [procs |-> Resumed(P, best),
                       cpu |-> Cpu(Resumed(P, best), best)]
    BY <1>1 DEF Dispatch
  <2> HIDE DEF best
  <2> QED BY <2>1, <2>2, ResumedSpec
<1>2. CASE best = NoSlot
  <2>1. /\ Restart(P[ALIVE]) \in Process
        /\ Restart(P[ALIVE]).uid = P[ALIVE].uid
        /\ Restart(P[ALIVE]).status = P[ALIVE].status
    BY RestartType
  <2>2. /\ A \in Seq(Process) /\ DOMAIN A = DOMAIN P
        /\ A[ALIVE] = Restart(P[ALIVE])
        /\ \A j \in DOMAIN P : j # ALIVE => A[j] = P[j]
    BY <2>1, UpdateSlot
  <2>3. Dispatch(P) = [procs |-> Resumed(A, ALIVE),
                       cpu |-> Cpu(Resumed(A, ALIVE), ALIVE)]
    BY <1>2 DEF Dispatch
  <2> HIDE DEF best, A
  <2>4. /\ Resumed(A, ALIVE) \in Seq(Process)
        /\ Follows(A, Resumed(A, ALIVE))
        /\ Resumed(A, ALIVE)[ALIVE].status = "RUNNING"
        /\ \A j \in DOMAIN A : j # ALIVE => Resumed(A, ALIVE)[j] = A[j]
        /\ Cpu(Resumed(A, ALIVE), ALIVE) \in [slot : DOMAIN A, ctx : Contexts]
        /\ Cpu(Resumed(A, ALIVE), ALIVE).slot = ALIVE
    BY <2>2, ResumedSpec
  <2>5. Follows(P, Resumed(A, ALIVE))
    BY <2>1, <2>2, <2>4 DEF Follows
  <2> QED BY <2>2, <2>3, <2>4, <2>5
<1> QED BY <1>1, <1>2

(* After a tick, either nothing moves, or the CPU goes to a process that   *)
(* becomes the only one RUNNING.                                           *)
LEMMA RescheduleSpec ==
    ASSUME NEW P \in Seq(Process), ALIVE \in DOMAIN P,
           NEW c, c.slot # NoSlot => c.ctx \in Contexts,
           \A i \in WithStatus(P, "RUNNING") : i = c.slot
    PROVE  /\ Reschedule(P, c).procs \in Seq(Process)
           /\ Follows(P, Reschedule(P, c).procs)
           /\ \/ Reschedule(P, c) = [procs |-> P, cpu |-> c]
              \/ /\ Reschedule(P, c).cpu \in [slot : DOMAIN P, ctx : Contexts]
                 /\ Reschedule(P, c).procs[Reschedule(P, c).cpu.slot].status
                      = "RUNNING"
           /\ \A i \in WithStatus(Reschedule(P, c).procs, "RUNNING") :
                 i = Reschedule(P, c).cpu.slot
<1> DEFINE current == RunningSlot(P)
           best == Best(P)
           A == [P EXCEPT ![current] = Preempt(P[current], c.ctx)]
<1>1. CASE current = NoSlot
  <2>1. WithStatus(P, "RUNNING") = {}
    BY <1>1, RunningSlotFound
  <2>2. Reschedule(P, c) = Dispatch(P)
    BY <1>1 DEF Reschedule
  <2> QED BY <2>1, <2>2, DispatchSpec DEF WithStatus, Follows
<1>2. CASE current # NoSlot /\ QuantumOver(P, current) /\ best # NoSlot
  <2>1. /\ current \in DOMAIN P /\ current = c.slot
        /\ P[current].status = "RUNNING"
    BY <1>2, RunningSlotFound DEF WithStatus
  <2>2. best \in DOMAIN P /\ P[best].status = "NORMAL"
    BY <1>2, BestIsReady
  <2>3. Reschedule(P, c) = [procs |-> Resumed(A, best),
                            cpu |-> Cpu(Resumed(A, best), best)]
    BY <1>2 DEF Reschedule
  <2>4. /\ Preempt(P[current], c.ctx) \in Process
        /\ Preempt(P[current], c.ctx).uid = P[current].uid
        /\ Preempt(P[current], c.ctx).status = "NORMAL"
    <3>1. P[current] \in Process /\ c.ctx \in Contexts
      BY <1>2, <2>1
    <3> QED BY <3>1, PreemptType
  <2> HIDE DEF current, best
  <2>5. /\ A \in Seq(Process) /\ DOMAIN A = DOMAIN P
        /\ A[current] = Preempt(P[current], c.ctx)
        /\ \A j \in DOMAIN P : j # current => A[j] = P[j]
    BY <2>1, <2>4, UpdateSlot
  <2> HIDE DEF A
  <2>6. /\ Resumed(A, best) \in Seq(Process)
        /\ Follows(A, Resumed(A, best))
        /\ Resumed(A, best)[best].status = "RUNNING"
        /\ \A j \in DOMAIN A : j # best => Resumed(A, best)[j] = A[j]
        /\ Cpu(Resumed(A, best), best) \in [slot : DOMAIN A, ctx : Contexts]
        /\ Cpu(Resumed(A, best), best).slot = best
    BY <2>2, <2>5, ResumedSpec
  <2>7. Follows(P, Resumed(A, best))
    BY <2>4, <2>5, <2>6 DEF Follows
  <2>8. \A i \in WithStatus(Resumed(A, best), "RUNNING") : i = best
    BY <2>1, <2>2, <2>4, <2>5, <2>6, <2>7 DEF WithStatus, Follows
  <2> QED BY <2>2, <2>3, <2>5, <2>6, <2>7, <2>8
<1>3. CASE current # NoSlot /\ ~(QuantumOver(P, current) /\ best # NoSlot)
  <2>1. Reschedule(P, c) = [procs |-> P, cpu |-> c]
    BY <1>3 DEF Reschedule
  <2> QED BY <2>1 DEF Follows
<1> QED BY <1>1, <1>2, <1>3

LEMMA AccountAllSpec ==
    ASSUME NEW P \in Seq(Process), NEW passed \in Nat
    PROVE  /\ AccountAll(P, passed) \in Seq(Process)
           /\ Follows(P, AccountAll(P, passed))
           /\ \A i \in DOMAIN P : AccountAll(P, passed)[i].status = "RUNNING"
                                  <=> P[i].status = "RUNNING"
<1>1. \A i \in DOMAIN P :
        /\ Account(P[i], passed) \in Process
        /\ Account(P[i], passed).uid = P[i].uid
        /\ Account(P[i], passed).status = "RUNNING" <=> P[i].status = "RUNNING"
        /\ Account(P[i], passed).status = "DEAD" <=> P[i].status = "DEAD"
  <2> TAKE i \in DOMAIN P
  <2>1. P[i] \in Process
    OBVIOUS
  <2> QED BY <2>1, AccountType
<1>2. AccountAll(P, passed) \in [1..Len(P) -> Process]
  BY <1>1 DEF AccountAll
<1>3. AccountAll(P, passed) \in Seq(Process)
  BY <1>2
<1> QED BY <1>1, <1>3 DEF AccountAll, Follows

-----------------------------------------------------------------------------
(* Times: arithmetic modulo m.                                             *)

LEMMA Division ==
    ASSUME NEW m \in Int, m > 0, NEW a \in Int
    PROVE  a = m * (a \div m) + (a % m)
OBVIOUS

LEMMA Divided ==
    ASSUME NEW m \in Int, m > 0, NEW a \in Int
    PROVE  \E q \in Int, r \in 0..(m - 1) : a = m * q + r /\ a % m = r
<1> DEFINE q == a \div m
           r == a % m
<1>1. q \in Int /\ r \in 0..(m - 1)
  OBVIOUS
<1>2. a = m * q + r /\ a % m = r
  BY Division
<1> HIDE DEF q, r
<1> QED BY <1>1, <1>2

LEMMA Remainder ==
    ASSUME NEW m \in Int, m > 0, NEW q \in Int, NEW r \in 0..(m - 1)
    PROVE  (m * q + r) % m = r
OBVIOUS

LEMMA ModMultiple ==
    ASSUME NEW m \in Int, m > 0, NEW a \in Int, NEW k \in Int
    PROVE  (a + m * k) % m = a % m
<1>1. PICK q \in Int, r \in 0..(m - 1) : a = m * q + r /\ a % m = r
  BY Divided
<1>2. a + m * k = m * (q + k) + r
  <2>1. m * q \in Int /\ m * k \in Int
    OBVIOUS
  <2>2. m * (q + k) = m * q + m * k
    OBVIOUS
  <2> QED BY <1>1, <2>1, <2>2
<1>3. q + k \in Int
  OBVIOUS
<1> QED BY <1>1, <1>2, <1>3, Remainder

(* Wrapping a summand wraps the sum.                                       *)
LEMMA ModInSum ==
    ASSUME NEW m \in Int, m > 0, NEW a \in Int, NEW b \in Int
    PROVE  ((a % m) + b) % m = (a + b) % m
<1>1. PICK q \in Int, r \in 0..(m - 1) : a = m * q + r /\ a % m = r
  BY Divided
<1> DEFINE c == (a % m) + b
<1>2. a + b = c + m * q
  <2>1. m * q \in Int
    OBVIOUS
  <2> QED BY <1>1, <2>1
<1>3. c \in Int
  BY <1>1
<1> HIDE DEF c
<1>4. (c + m * q) % m = c % m
  BY <1>3, ModMultiple
<1> QED BY <1>2, <1>4 DEF c

-----------------------------------------------------------------------------
(* Timers.                                                                 *)

Orders(S) == {s \in [1..Cardinality(S) -> S] :
                 \A m, n \in 1..Cardinality(S) : m < n => s[m] < s[n]}

(* A finite set of slots can be put in order: take a smallest set that     *)
(* cannot, and order it by its least element and an order of the rest.     *)
LEMMA AscendingSpec ==
    ASSUME NEW S \in SUBSET (Nat \ {0}), IsFiniteSet(S)
    PROVE  /\ Ascending(S) \in [1..Cardinality(S) -> S]
           /\ \A m, n \in 1..Cardinality(S) :
                 m < n => Ascending(S)[m] < Ascending(S)[n]
<1> DEFINE Slots == Nat \ {0}
           Bad == {U \in FiniteSubsetsOf(Slots) : Orders(U) = {}}
           R == StrictSubsetOrdering(Slots)
<1>1. Orders(S) # {}
  <2> SUFFICES ASSUME Orders(S) = {} PROVE FALSE
    OBVIOUS
  <2>1. S \in Bad /\ Bad \subseteq FiniteSubsetsOf(Slots)
    BY DEF FiniteSubsetsOf
  <2>2. PICK U \in Bad : \A V \in Bad : ~(<<V, U>> \in R)
    <3> HIDE DEF Bad, R
    <3>1. IsWellFoundedOn(R, FiniteSubsetsOf(Slots))
      BY FS_StrictSubsetOrderingWellFounded DEF R
    <3> QED BY <3>1, <2>1, WFMin
  <2>3. U \in SUBSET Slots /\ IsFiniteSet(U) /\ Orders(U) = {}
    BY <2>2 DEF FiniteSubsetsOf
  <2>4. U # {}
    <3> SUFFICES ASSUME U = {} PROVE FALSE
      OBVIOUS
    <3>1. Cardinality(U) = 0
      BY FS_EmptySet
    <3>2. [k \in 1..0 |-> k] \in Orders(U)
      BY <3>1 DEF Orders
    <3> QED BY <3>2, <2>3
  <2> DEFINE least == First(U)
             V == U \ {least}
             n == Cardinality(V)
  <2>5. least \in U /\ \A j \in U : least <= j
    BY <2>3, <2>4, FirstIsMember
  <2>6. IsFiniteSet(V) /\ n \in Nat /\ Cardinality(U) = n + 1
    <3> HIDE DEF least
    <3>1. IsFiniteSet(V) /\ Cardinality(V) = Cardinality(U) - 1
      BY <2>3, <2>5, FS_RemoveElement
    <3>2. Cardinality(U) \in Nat /\ Cardinality(V) \in Nat
      BY <2>3, <3>1, FS_CardinalityType
    <3> QED BY <3>1, <3>2
  <2>7. PICK s \in Orders(V) : TRUE
    <3>1. V \in FiniteSubsetsOf(Slots) /\ <<V, U>> \in R
      BY <2>3, <2>5, <2>6 DEF FiniteSubsetsOf, StrictSubsetOrdering
    <3> QED BY <3>1, <2>2
  <2> HIDE DEF least, V, n
  <2>8. /\ s \in [1..n -> V]
        /\ \A m, k \in 1..n : m < k => s[m] < s[k]
    BY <2>7 DEF Orders, n
  <2> DEFINE t == [k \in 1..(n + 1) |-> IF k = 1 THEN least ELSE s[k - 1]]
  <2>9. \A k \in 1..n : s[k] \in U /\ s[k] \in Nat /\ least < s[k]
    <3> TAKE k \in 1..n
    <3>1. s[k] \in U /\ s[k] # least
      BY <2>8 DEF V
    <3>2. s[k] \in Nat /\ least \in Nat /\ least <= s[k]
      BY <2>3, <2>5, <3>1
    <3> QED BY <3>1, <3>2
  <2>10. t \in [1..(n + 1) -> U]
    BY <2>5, <2>6, <2>9
  <2>11. \A m, k \in 1..(n + 1) : m < k => t[m] < t[k]
    BY <2>6, <2>8, <2>9
  <2>12. t \in Orders(U)
    BY <2>6, <2>10, <2>11 DEF Orders
  <2> QED BY <2>12, <2>3
<1> QED BY <1>1 DEF Ascending, Orders

(* Each of the events e is that of another expiring timer of the process   *)
(* in slot i.                                                              *)
FromExpiring(e, P, T, i) ==
    \E order \in [DOMAIN e -> DOMAIN T] :
        /\ \A m \in DOMAIN e : /\ Expires(T[order[m]])
                               /\ Lookup(P, T[order[m]].uid) = i
                               /\ e[m] = TimerEvent(T[order[m]])
        /\ \A m, n \in DOMAIN e : order[m] = order[n] => m = n

LEMMA TimerEventsForSpec ==
    ASSUME NEW P, NEW T \in Seq(Timer), NEW i
    PROVE  /\ TimerEventsFor(P, T, i) \in Seq(Event)
           /\ FromExpiring(TimerEventsFor(P, T, i), P, T, i)
<1> DEFINE due == {k \in Expiring(T) : Lookup(P, T[k].uid) = i}
           order == Ascending(due)
<1>1. due \in SUBSET (1..Len(T))
  BY DEF Expiring
<1>2. due \in SUBSET (Nat \ {0}) /\ IsFiniteSet(due)
        /\ Cardinality(due) \in Nat
  <2> HIDE DEF due
  <2>1. Len(T) \in Nat /\ IsFiniteSet(1..Len(T))
    BY LenProperties, FS_Interval
  <2>2. IsFiniteSet(due)
    BY <1>1, <2>1, FS_Subset
  <2>3. Cardinality(due) \in Nat
    BY <2>2, FS_CardinalityType
  <2>4. due \in SUBSET (Nat \ {0})
    BY <1>1, <2>1
  <2> QED BY <2>2, <2>3, <2>4
<1>3. /\ order \in [1..Cardinality(due) -> due]
      /\ \A m, n \in 1..Cardinality(due) : m < n => order[m] < order[n]
  <2> HIDE DEF due
  <2> QED BY <1>2, AscendingSpec
<1>7. \A k \in due : Expires(T[k]) /\ Lookup(P, T[k].uid) = i
  BY DEF Expiring
<1>4. \A k \in DOMAIN T : TimerEvent(T[k]) \in Event
  <2> TAKE k \in DOMAIN T
  <2>1. T[k] \in Timer
    OBVIOUS
  <2> QED BY <2>1 DEF TimerEvent, Event, EventKinds, Timer
<1> HIDE DEF due, order
<1>5. \A n \in 1..Cardinality(due) : TimerEvent(T[order[n]]) \in Event
  <2> TAKE n \in 1..Cardinality(due)
  <2>1. order[n] \in due
    BY <1>3
  <2>2. order[n] \in 1..Len(T)
    BY <2>1, <1>1
  <2>3. DOMAIN T = 1..Len(T)
    BY LenProperties
  <2> QED BY <2>2, <2>3, <1>4
<1>6. TimerEventsFor(P, T, i)
        = [n \in 1..Cardinality(due) |-> TimerEvent(T[order[n]])]
  BY DEF TimerEventsFor, due, order
<1> DEFINE e == TimerEventsFor(P, T, i)
<1>8. /\ e \in Seq(Event) /\ DOMAIN e = 1..Cardinality(due)
      /\ \A m \in DOMAIN e : e[m] = TimerEvent(T[order[m]])
  BY <1>2, <1>5, <1>6
<1> HIDE DEF e
<1>9. order \in [DOMAIN e -> DOMAIN T]
  <2>1. due \subseteq DOMAIN T
    BY <1>1, LenProperties
  <2> QED BY <1>3, <1>8, <2>1
<1>10. \A m \in DOMAIN e : Expires(T[order[m]]) /\ Lookup(P, T[order[m]].uid) = i
  BY <1>3, <1>7, <1>8
<1>11. \A m, n \in DOMAIN e : order[m] = order[n] => m = n
  <2> SUFFICES ASSUME NEW m \in DOMAIN e, NEW n \in DOMAIN e, m < n
               PROVE  order[m] # order[n]
    BY <1>8
  <2>1. order[m] < order[n] /\ order[m] \in Nat /\ order[n] \in Nat
    BY <1>2, <1>3, <1>8
  <2> QED BY <2>1
<1>12. FromExpiring(e, P, T, i)
  <2>1. \A m \in DOMAIN e : /\ Expires(T[order[m]])
                           /\ Lookup(P, T[order[m]].uid) = i
                           /\ e[m] = TimerEvent(T[order[m]])
    BY <1>8, <1>10
  <2> QED BY <1>9, <1>11, <2>1 DEF FromExpiring
<1> QED BY <1>8, <1>12 DEF e

LEMMA PostExpiredSpec ==
    ASSUME NEW P \in Seq(Process), NEW T \in Seq(Timer)
    PROVE  /\ PostExpired(P, T) \in Seq(Process)
           /\ Follows(P, PostExpired(P, T))
           /\ \A i \in DOMAIN P : PostExpired(P, T)[i].status = P[i].status
<1> DEFINE p(i) == Post(P[i], TimerEventsFor(P, T, i))
<1>1. \A i \in DOMAIN P : /\ p(i) \in Process
                         /\ p(i).uid = P[i].uid /\ p(i).status = P[i].status
  <2> TAKE i \in DOMAIN P
  <2>1. TimerEventsFor(P, T, i) \in Seq(Event)
    BY TimerEventsForSpec
  <2>2. P[i] \in Process
    OBVIOUS
  <2> QED BY <2>1, <2>2, PostType
<1>2. PostExpired(P, T) = [i \in DOMAIN P |-> p(i)]
  BY DEF PostExpired
<1> HIDE DEF p
<1>3. PostExpired(P, T) \in Seq(Process)
  BY <1>1, <1>2
<1> QED BY <1>1, <1>2, <1>3 DEF Follows

(* A tick keeps the ids and owners of the timers, and starts none again.   *)
LEMMA CountdownAllSpec ==
    ASSUME NEW T \in Seq(Timer)
    PROVE  /\ CountdownAll(T) \in Seq(Timer)
           /\ DOMAIN CountdownAll(T) = DOMAIN T
           /\ \A k \in DOMAIN T :
                 /\ CountdownAll(T)[k].uid = T[k].uid
                 /\ CountdownAll(T)[k].id = T[k].id
                 /\ T[k].finished \/ Expires(T[k])
                      => CountdownAll(T)[k].finished
<1>1. \A t \in Timer : /\ Countdown(t) \in Timer
                       /\ Countdown(t).uid = t.uid
                       /\ Countdown(t).id = t.id
                       /\ t.finished \/ Expires(t) => Countdown(t).finished
  <2> TAKE t \in Timer
  <2>1. (t.left - Tick) % TimeMod \in Time
    BY TimeAssumption DEF Timer, Time
  <2>2. /\ [t EXCEPT !.left = (@ - Tick) % TimeMod] \in Timer
        /\ [t EXCEPT !.left = (@ - Tick) % TimeMod].uid = t.uid
        /\ [t EXCEPT !.left = (@ - Tick) % TimeMod].id = t.id
    BY <2>1 DEF Timer
  <2>3. /\ [t EXCEPT !.finished = TRUE] \in Timer
        /\ [t EXCEPT !.finished = TRUE].uid = t.uid
        /\ [t EXCEPT !.finished = TRUE].id = t.id
        /\ [t EXCEPT !.finished = TRUE].finished
    BY DEF Timer
  <2> QED BY <2>2, <2>3 DEF Countdown
<1>2. CountdownAll(T) \in [1..Len(T) -> Timer]
  BY <1>1 DEF CountdownAll
<1>3. CountdownAll(T) \in Seq(Timer)
  BY <1>2
<1> QED BY <1>1, <1>3 DEF CountdownAll

(* Cancelling everything of a process leaves no unfinished timer of it.    *)
LEMMA CancelSpec ==
    ASSUME NEW T \in Seq(Timer), NEW owner, NEW id
    PROVE  /\ Cancel(T, owner, id) \in Seq(Timer)
           /\ DOMAIN Cancel(T, owner, id) = DOMAIN T
           /\ \A k \in DOMAIN T :
                 /\ Cancel(T, owner, id)[k].uid = T[k].uid
                 /\ Cancel(T, owner, id)[k].id = T[k].id
                 /\ T[k].finished => Cancel(T, owner, id)[k].finished
                 /\ id = 0 /\ T[k].uid = owner
                      => Cancel(T, owner, id)[k].finished
<1>1. \A t \in Timer : /\ [t EXCEPT !.finished = TRUE] \in Timer
                       /\ [t EXCEPT !.finished = TRUE].uid = t.uid
                       /\ [t EXCEPT !.finished = TRUE].id = t.id
                       /\ [t EXCEPT !.finished = TRUE].finished
  BY DEF Timer
<1>2. Cancel(T, owner, id) \in [1..Len(T) -> Timer]
  BY <1>1 DEF Cancel
<1>3. Cancel(T, owner, id) \in Seq(Timer)
  BY <1>2
<1>4. ASSUME NEW k \in DOMAIN T
      PROVE  /\ Cancel(T, owner, id)[k].uid = T[k].uid
             /\ Cancel(T, owner, id)[k].id = T[k].id
             /\ T[k].finished => Cancel(T, owner, id)[k].finished
             /\ id = 0 /\ T[k].uid = owner
                  => Cancel(T, owner, id)[k].finished
  <2>1. T[k] \in Timer
    OBVIOUS
  <2>2. Cancel(T, owner, id)[k] = IF T[k].uid = owner /\ id \in {0, T[k].id}
                                 THEN [T[k] EXCEPT !.finished = TRUE]
                                 ELSE T[k]
    BY DEF Cancel
  <2>3. \/ Cancel(T, owner, id)[k] = [T[k] EXCEPT !.finished = TRUE]
        \/ /\ Cancel(T, owner, id)[k] = T[k]
           /\ ~(id = 0 /\ T[k].uid = owner)
    BY <2>2
  <2> QED BY <1>1, <2>1, <2>3
<1> QED BY <1>2, <1>3, <1>4

(* A new timer replaces a finished one or comes last.                      *)
LEMMA InstallSpec ==
    ASSUME NEW T \in Seq(Timer), NEW t \in Timer
    PROVE  /\ Install(T, t) \in Seq(Timer)
           /\ \E new \in DOMAIN Install(T, t) :
                 /\ Install(T, t)[new] = t
                 /\ \A k \in DOMAIN Install(T, t) \ {new} :
                       k \in DOMAIN T /\ Install(T, t)[k] = T[k]
<1> DEFINE F == {k \in DOMAIN T : T[k].finished}
           free == First(F)
           U == Install(T, t)
<1>1. F \in SUBSET (DOMAIN T)
  OBVIOUS
<1>2. free # NoSlot => free \in DOMAIN T
  <2> HIDE DEF F
  <2> QED BY <1>1, SlotSearch
<1>3. U = IF free # NoSlot THEN [T EXCEPT ![free] = t] ELSE Append(T, t)
  BY DEF Install
<1> HIDE DEF free, U
<1>4. CASE free # NoSlot
  <2>1. /\ U \in Seq(Timer) /\ free \in DOMAIN U /\ U[free] = t
        /\ \A k \in DOMAIN U \ {free} : k \in DOMAIN T /\ U[k] = T[k]
    BY <1>2, <1>3, <1>4, UpdateSlot
  <2> QED BY <2>1 DEF U
<1>5. CASE free = NoSlot
  <2> DEFINE S == Timer
  <2>1. T \in Seq(S) /\ t \in S /\ U = Append(T, t)
    BY <1>3, <1>5
  <2> HIDE DEF S
  <2>2. U \in Seq(S) /\ Len(U) = Len(T) + 1 /\ Len(T) \in Nat
    BY <2>1
  <2>3. /\ Len(T) + 1 \in DOMAIN U /\ U[Len(T) + 1] = t
        /\ \A k \in DOMAIN U \ {Len(T) + 1} : k \in DOMAIN T /\ U[k] = T[k]
    BY <2>1, <2>2
  <2> QED BY <2>2, <2>3 DEF S, U
<1> QED BY <1>4, <1>5
-----------------------------------------------------------------------------
(* The process table and the CPU.                                          *)

(* The table P and the CPU c agree.                                        *)
Consistent(P, c) ==
    /\ P \in Seq(Process) /\ ALIVE \in DOMAIN P
    /\ c \in [slot : {NoSlot} \cup DOMAIN P, ctx : Contexts \cup {"boot"}]
    /\ c.slot = NoSlot <=> c.ctx = "boot"
    /\ \A i \in WithStatus(P, "RUNNING") : i = c.slot
    /\ c.ctx \in {"user", "event"} => P[c.slot].status = "RUNNING"

RestOK ==
    /\ uid \in Nat
    /\ timers \in Seq(Timer)
    /\ ids \in Nat
    /\ enabled \in BOOLEAN
    /\ can_update \in BOOLEAN
    /\ updates \in Time
    /\ start \in [phase : {"idle", "locked", "pushed"}, new : Process]
    /\ start.new.status = "NORMAL"
    /\ halted \in HaltReasons /\ halted # "no_running"

KernelInv == Consistent(procs, cpu) /\ RestOK

-----------------------------------------------------------------------------
(* Giving the CPU away when nobody is RUNNING.                             *)
LEMMA DispatchConsistent ==
    ASSUME NEW P \in Seq(Process), ALIVE \in DOMAIN P,
           WithStatus(P, "RUNNING") = {}
    PROVE  /\ Consistent(Dispatch(P).procs, Dispatch(P).cpu)
           /\ Follows(P, Dispatch(P).procs)
<1> DEFINE Q == Dispatch(P).procs
           c == Dispatch(P).cpu
<1>1. /\ Q \in Seq(Process) /\ Follows(P, Q)
      /\ c \in [slot : DOMAIN P, ctx : Contexts]
      /\ Q[c.slot].status = "RUNNING"
      /\ \A j \in DOMAIN P : j # c.slot => Q[j].status = P[j].status
  BY DispatchSpec
<1> HIDE DEF Q, c
<1>2. DOMAIN Q = DOMAIN P
  BY <1>1 DEF Follows
<1>3. \A i \in WithStatus(Q, "RUNNING") : i = c.slot
  BY <1>1, <1>2 DEF WithStatus
<1>4. c.slot \in DOMAIN P /\ c.slot # NoSlot /\ c.ctx # "boot"
  BY <1>1 DEF NoSlot, Contexts
<1>5. Consistent(Q, c)
  BY <1>1, <1>2, <1>3, <1>4 DEF Consistent
<1> QED BY <1>1, <1>5 DEF Q, c

(* A tick.                                                                 *)
LEMMA RescheduleConsistent ==
    ASSUME NEW P, NEW c, Consistent(P, c)
    PROVE  /\ Consistent(Reschedule(P, c).procs, Reschedule(P, c).cpu)
           /\ Follows(P, Reschedule(P, c).procs)
<1> DEFINE Q == Reschedule(P, c).procs
           d == Reschedule(P, c).cpu
<1>1. /\ P \in Seq(Process) /\ ALIVE \in DOMAIN P
      /\ c.slot # NoSlot => c.ctx \in Contexts
      /\ \A i \in WithStatus(P, "RUNNING") : i = c.slot
  BY DEF Consistent
<1>2. /\ Q \in Seq(Process) /\ Follows(P, Q)
      /\ \/ Reschedule(P, c) = [procs |-> P, cpu |-> c]
         \/ /\ d \in [slot : DOMAIN P, ctx : Contexts]
            /\ Q[d.slot].status = "RUNNING"
      /\ \A i \in WithStatus(Q, "RUNNING") : i = d.slot
  BY <1>1, RescheduleSpec
<1>3. CASE Reschedule(P, c) = [procs |-> P, cpu |-> c]
  <2>1. Q = P /\ d = c
    BY <1>3
  <2> QED BY <1>2, <2>1
<1>4. CASE /\ d \in [slot : DOMAIN P, ctx : Contexts]
           /\ Q[d.slot].status = "RUNNING"
  <2> HIDE DEF Q, d
  <2>1. DOMAIN Q = DOMAIN P
    BY <1>2 DEF Follows
  <2>2. d.slot # NoSlot /\ d.ctx # "boot"
    BY <1>1, <1>4 DEF NoSlot, Contexts
  <2>3. Consistent(Q, d)
    BY <1>1, <1>2, <1>4, <2>1, <2>2 DEF Consistent
  <2> QED BY <1>2, <2>3 DEF Q, d
<1> QED BY <1>2, <1>3, <1>4

(* Changing one process without making it RUNNING.                         *)
LEMMA UpdateConsistent ==
    ASSUME NEW P, NEW c, Consistent(P, c), NEW i \in DOMAIN P,
           NEW p \in Process,
           \/ p.status = P[i].status
           \/ p.status # "RUNNING" /\ (c.ctx \in {"user", "event"} => i # c.slot)
    PROVE  Consistent([P EXCEPT ![i] = p], c)
<1> DEFINE Q == [P EXCEPT ![i] = p]
<1>1. /\ Q \in Seq(Process) /\ DOMAIN Q = DOMAIN P /\ Q[i] = p
      /\ \A j \in DOMAIN P : j # i => Q[j] = P[j]
  BY UpdateSlot DEF Consistent
<1> HIDE DEF Q
<1>2. \A j \in WithStatus(Q, "RUNNING") : j = c.slot
  BY <1>1 DEF Consistent, WithStatus
<1>3. c.ctx \in {"user", "event"} => Q[c.slot].status = "RUNNING"
  <2> SUFFICES ASSUME c.ctx \in {"user", "event"}
               PROVE  Q[c.slot].status = "RUNNING"
    OBVIOUS
  <2>1. c.slot \in DOMAIN P /\ P[c.slot].status = "RUNNING"
    BY DEF Consistent
  <2> QED BY <1>1, <2>1
<1>4. Consistent(Q, c)
  BY <1>1, <1>2, <1>3 DEF Consistent
<1> QED BY <1>4 DEF Q

(* A system call finds the process whose code makes it.                    *)
LEMMA CallerFound ==
    ASSUME KernelInv, InProcess("user")
    PROVE  /\ RunningSlot(procs) = cpu.slot /\ cpu.slot # NoSlot
           /\ cpu.slot \in DOMAIN procs
           /\ procs[cpu.slot] \in Process
           /\ procs[cpu.slot].status = "RUNNING"
<1>1. /\ procs \in Seq(Process)
      /\ cpu.slot \in DOMAIN procs /\ procs[cpu.slot].status = "RUNNING"
      /\ \A i \in WithStatus(procs, "RUNNING") : i = cpu.slot
  BY DEF KernelInv, Consistent, InProcess
<1>2. cpu.slot \in WithStatus(procs, "RUNNING")
  BY <1>1 DEF WithStatus
<1>3. RunningSlot(procs) # NoSlot /\ RunningSlot(procs) \in DOMAIN procs
        /\ procs[RunningSlot(procs)].status = "RUNNING"
  BY <1>1, <1>2, RunningSlotFound
<1>4. RunningSlot(procs) = cpu.slot
  BY <1>1, <1>3 DEF WithStatus
<1> QED BY <1>1, <1>3, <1>4

-----------------------------------------------------------------------------
LEMMA InitInv == Init => KernelInv
<1> SUFFICES ASSUME Init PROVE KernelInv
  OBVIOUS
<1>1. PICK susp \in UninitTimes, run \in UninitTimes :
         procs = <<AliveProcess(susp, run)>>
  BY DEF Init
<1>2. <<>> \in Seq(Event) /\ ZeroEvent \in Event /\ 0 \in Time
  BY TimeAssumption DEF ZeroEvent, Event, EventKinds, Time
<1>3. /\ AliveProcess(susp, run) \in Process
      /\ AliveProcess(susp, run).status = "SUSPENDED"
  <2>1. susp \in Time /\ run \in Time /\ UserAlive \in User
    BY KernelAssumption DEF User, UserAlive
  <2> QED
    BY <1>2, <2>1 DEF AliveProcess, Process, Statuses, Contexts
<1> DEFINE a == AliveProcess(susp, run)
<1> HIDE DEF a
<1>4. a \in Process /\ a.status = "SUSPENDED" /\ procs = <<a>>
  BY <1>1, <1>3 DEF a
<1>5. /\ procs \in Seq(Process) /\ DOMAIN procs = {1}
      /\ procs[1].status = "SUSPENDED"
  BY <1>4
<1>6. Consistent(procs, cpu)
  BY <1>5 DEF Init, Consistent, ALIVE, NoSlot, WithStatus
<1>7. NewProcess(0, 0, FALSE) \in Process
        /\ NewProcess(0, 0, FALSE).status = "NORMAL"
  <2>1. 0 \in User
    BY DEF User, UserAlive
  <2> QED BY <2>1, NewProcessType
<1>8. start \in [phase : {"idle", "locked", "pushed"}, new : Process]
        /\ start.new.status = "NORMAL"
  BY <1>7 DEF Init, NoStart
<1>9. RestOK
  <2>1. timers \in Seq(Timer)
    BY DEF Init
  <2>2. halted \in HaltReasons /\ halted # "no_running"
    BY DEF Init, HaltReasons
  <2> QED BY <1>2, <1>8, <2>1, <2>2 DEF Init, RestOK
<1> QED BY <1>6, <1>9 DEF KernelInv

(* Stopping, in any state.                                                 *)
LEMMA HaltInv ==
    ASSUME KernelInv, NEW reason \in HaltReasons \ {"no_running"}, Halt(reason)
    PROVE  KernelInv'
BY DEF KernelInv, Consistent, RestOK, Halt

LEMMA StartInv ==
    ASSUME KernelInv, NEW user \in User, NEW core \in BOOLEAN,
           BeginStart(user, core)
    PROVE  KernelInv'
<1>1. uid' \in Nat
  BY DEF KernelInv, RestOK, BeginStart
<1>2. /\ NewProcess(uid', user, core) \in Process
      /\ NewProcess(uid', user, core).status = "NORMAL"
  BY <1>1, NewProcessType
<1>3. Consistent(procs, cpu)'
  BY DEF KernelInv, Consistent, BeginStart
<1>4. start' \in [phase : {"idle", "locked", "pushed"}, new : Process]
        /\ start'.new.status = "NORMAL"
  BY <1>2 DEF BeginStart
<1> QED BY <1>1, <1>3, <1>4 DEF KernelInv, RestOK, BeginStart

LEMMA InsertInv ==
    ASSUME KernelInv, InsertProcess
    PROVE  KernelInv'
<1>1. start.new \in Process /\ start.new.status = "NORMAL"
  BY DEF KernelInv, RestOK
<1>2. NoStart \in [phase : {"idle", "locked", "pushed"}, new : Process]
        /\ NoStart.new.status = "NORMAL"
  <2>1. 0 \in User
    BY DEF User, UserAlive
  <2> QED BY <2>1, NewProcessType DEF NoStart
<1>3. RestOK'
  <2>1. start' = NoStart \/ start' = [start EXCEPT !.phase = "pushed"]
    BY DEF InsertProcess
  <2>2. start' \in [phase : {"idle", "locked", "pushed"}, new : Process]
          /\ start'.new.status = "NORMAL"
    BY <1>2, <2>1 DEF KernelInv, RestOK
  <2> QED BY <2>2 DEF KernelInv, RestOK, InsertProcess
<1>4. CASE DeadSlot(procs) # NoSlot
  <2> DEFINE dead == DeadSlot(procs)
  <2>1. dead \in DOMAIN procs /\ procs[dead].status = "DEAD"
    BY <1>4, DeadSlotFound DEF KernelInv, Consistent
  <2>2. procs' = [procs EXCEPT ![dead] = start.new] /\ cpu' = cpu
    BY <1>4 DEF InsertProcess
  <2> HIDE DEF dead
  <2>3. cpu.ctx \in {"user", "event"} => dead # cpu.slot
    BY <2>1 DEF KernelInv, Consistent
  <2>4. Consistent([procs EXCEPT ![dead] = start.new], cpu)
    BY <1>1, <2>1, <2>3, UpdateConsistent DEF KernelInv
  <2>5. Consistent(procs, cpu)'
    BY <2>2, <2>4 DEF Consistent
  <2> QED BY <1>3, <2>5 DEF KernelInv
<1>5. CASE DeadSlot(procs) = NoSlot
  <2>1. procs' = Append(procs, start.new) /\ cpu' = cpu
    BY <1>5 DEF InsertProcess
  <2>2. procs \in Seq(Process)
    BY DEF KernelInv, Consistent
  <2>3. /\ procs' \in Seq(Process)
        /\ DOMAIN procs' = DOMAIN procs \cup {Len(procs) + 1}
        /\ \A i \in DOMAIN procs : procs'[i] = procs[i]
        /\ procs'[Len(procs) + 1] = start.new
    <3> DEFINE S == Process
    <3>1. procs \in Seq(S) /\ start.new \in S
      BY <1>1, <2>2
    <3> HIDE DEF S
    <3>2. procs' \in Seq(S) /\ Len(procs') = Len(procs) + 1
      BY <2>1, <3>1
    <3> QED BY <2>1, <3>1, <3>2 DEF S
  <2>4. \A i \in WithStatus(procs', "RUNNING") : i = cpu.slot
    BY <1>1, <2>3 DEF KernelInv, Consistent, WithStatus
  <2>5. Consistent(procs, cpu)'
    BY <2>1, <2>3, <2>4 DEF KernelInv, Consistent
  <2> QED BY <1>3, <2>5 DEF KernelInv
<1> QED BY <1>4, <1>5

LEMMA UnlockInv ==
    ASSUME KernelInv, UnlockTable
    PROVE  KernelInv'
<1>1. NoStart \in [phase : {"idle", "locked", "pushed"}, new : Process]
        /\ NoStart.new.status = "NORMAL"
  <2>1. 0 \in User
    BY DEF User, UserAlive
  <2> QED BY <2>1, NewProcessType DEF NoStart
<1> QED BY <1>1 DEF KernelInv, Consistent, RestOK, UnlockTable

-----------------------------------------------------------------------------
(* The caller, or the process just killed, gives up the CPU.               *)
LEMMA YieldInv ==
    ASSUME KernelInv, NEW P \in Seq(Process), DOMAIN P = DOMAIN procs,
           WithStatus(P, "RUNNING") = {}, NEW ctx, Yield(P, ctx),
           \/ can_update'
           \/ cpu.ctx # "boot" /\ ctx \in Contexts \ {"user", "event"}
    PROVE  Consistent(procs, cpu)' /\ Follows(P, procs')
<1>1. ALIVE \in DOMAIN P
  BY DEF KernelInv, Consistent
<1>2. CASE can_update'
  <2>1. procs' = Dispatch(P).procs /\ cpu' = Dispatch(P).cpu
    BY <1>2 DEF Yield
  <2>2. /\ Consistent(Dispatch(P).procs, Dispatch(P).cpu)
        /\ Follows(P, Dispatch(P).procs)
    BY <1>1, DispatchConsistent
  <2> QED BY <2>1, <2>2 DEF Consistent
<1>3. CASE ~can_update'
  <2>1. procs' = P /\ cpu' = [cpu EXCEPT !.ctx = ctx]
    BY <1>3 DEF Yield
  <2>2. /\ cpu \in [slot : {NoSlot} \cup DOMAIN procs, ctx : Contexts \cup {"boot"}]
        /\ cpu.slot # NoSlot
        /\ ctx \in Contexts /\ ctx \notin {"user", "event", "boot"}
    BY <1>3 DEF KernelInv, Consistent, Contexts
  <2>3. /\ cpu' \in [slot : {NoSlot} \cup DOMAIN P, ctx : Contexts \cup {"boot"}]
        /\ cpu'.slot # NoSlot /\ cpu'.ctx = ctx
    BY <2>1, <2>2
  <2>4. Consistent(P, cpu')
    BY <1>1, <2>2, <2>3 DEF Consistent
  <2> QED BY <2>1, <2>4 DEF Consistent, Follows
<1> QED BY <1>2, <1>3

LEMMA StartAliveInv ==
    ASSUME KernelInv, StartAlive
    PROVE  KernelInv' /\ Follows(procs, procs')
<1>1. cpu.ctx = "boot" /\ cpu.slot = NoSlot /\ procs \in Seq(Process)
  BY DEF KernelInv, Consistent, StartAlive, InProcess
<1>2. WithStatus(procs, "RUNNING") = {}
  <2>1. NoSlot \notin DOMAIN procs
    BY <1>1 DEF NoSlot
  <2> QED BY <1>1, <2>1 DEF KernelInv, Consistent, WithStatus
<1>3. Consistent(procs, cpu)' /\ Follows(procs, procs')
  <2>1. CASE can_update'
    BY <1>1, <1>2, <2>1, YieldInv DEF StartAlive
  <2>2. CASE ~can_update'
    <3>1. procs' = procs /\ cpu' = [cpu EXCEPT !.ctx = "boot"]
      BY <2>2 DEF StartAlive, Yield
    <3>2. cpu' = cpu
      BY <1>1, <3>1 DEF KernelInv, Consistent
    <3> QED BY <3>1, <3>2 DEF KernelInv, Consistent, Follows
  <2> QED BY <2>1, <2>2
<1>4. RestOK'
  BY DEF KernelInv, RestOK, StartAlive
<1> QED BY <1>3, <1>4 DEF KernelInv

LEMMA AliveWaitInv ==
    ASSUME KernelInv, AliveWait
    PROVE  KernelInv' /\ Follows(procs, procs')
<1> DEFINE p == Wait(procs[ALIVE])
<1>1. procs \in Seq(Process) /\ ALIVE \in DOMAIN procs /\ cpu.ctx = "main"
  BY DEF KernelInv, Consistent, AliveWait, InProcess
<1>2. p \in Process /\ p.uid = procs[ALIVE].uid /\ p.status = "SUSPENDED"
  BY <1>1, WaitType
<1>3. procs' = [procs EXCEPT ![ALIVE] = p] /\ cpu' = [cpu EXCEPT !.ctx = "idle"]
  BY DEF AliveWait
<1> HIDE DEF p
<1>4. Consistent([procs EXCEPT ![ALIVE] = p], cpu)
  BY <1>1, <1>2, UpdateConsistent DEF KernelInv
<1>5. Consistent(procs, cpu)'
  BY <1>1, <1>3, <1>4 DEF KernelInv, Consistent, Contexts
<1>6. Follows(procs, procs')
  BY <1>1, <1>2, <1>3, UpdateSlot DEF Follows
<1>7. RestOK'
  BY DEF KernelInv, RestOK, AliveWait
<1> QED BY <1>5, <1>6, <1>7 DEF KernelInv

LEMMA PullEventInv ==
    ASSUME KernelInv, PullEvent
    PROVE  KernelInv' /\ Follows(procs, procs')
<1> DEFINE i == cpu.slot
<1>1. /\ RunningSlot(procs) = i /\ i # NoSlot /\ i \in DOMAIN procs
      /\ procs[i] \in Process /\ procs[i].status = "RUNNING"
  BY CallerFound DEF PullEvent
<1>2. /\ procs \in Seq(Process) /\ cpu.ctx = "user"
      /\ \A j \in WithStatus(procs, "RUNNING") : j = i
  BY DEF KernelInv, Consistent, PullEvent, InProcess
<1>3. RestOK'
  BY <1>1 DEF KernelInv, RestOK, PullEvent
<1>4. CASE procs[i].events # <<>>
  <2> DEFINE p == Pull(procs[i])
  <2>1. p \in Process /\ p.uid = procs[i].uid /\ p.status = procs[i].status
    BY <1>1, <1>4, PullType
  <2>2. procs' = [procs EXCEPT ![i] = p] /\ cpu' = [cpu EXCEPT !.ctx = "event"]
    BY <1>1, <1>4 DEF PullEvent
  <2> HIDE DEF p
  <2>3. Consistent([procs EXCEPT ![i] = p], cpu)
    BY <1>1, <2>1, UpdateConsistent DEF KernelInv
  <2>4. Consistent(procs, cpu)'
    BY <1>1, <1>2, <2>2, <2>3 DEF KernelInv, Consistent, Contexts
  <2>5. Follows(procs, procs')
    BY <1>1, <1>2, <2>1, <2>2, UpdateSlot DEF Follows
  <2> QED BY <1>3, <2>4, <2>5 DEF KernelInv
<1>5. CASE procs[i].events = <<>>
  <2> DEFINE p == Suspend(procs[i])
             P == [procs EXCEPT ![i] = p]
  <2>1. p \in Process /\ p.uid = procs[i].uid /\ p.status = "SUSPENDED"
    BY <1>1, SuspendType
  <2>2. Yield(P, "blocked")
    BY <1>1, <1>5 DEF PullEvent
  <2> HIDE DEF p
  <2>3. /\ P \in Seq(Process) /\ DOMAIN P = DOMAIN procs /\ P[i] = p
        /\ \A j \in DOMAIN procs : j # i => P[j] = procs[j]
    BY <1>1, <1>2, <2>1, UpdateSlot
  <2> HIDE DEF P
  <2>4. WithStatus(P, "RUNNING") = {}
    BY <1>2, <2>1, <2>3 DEF WithStatus
  <2>5. Consistent(procs, cpu)' /\ Follows(P, procs')
    BY <1>2, <2>2, <2>3, <2>4, YieldInv DEF Contexts
  <2>6. Follows(procs, P)
    BY <1>1, <2>1, <2>3 DEF Follows
  <2>7. Follows(procs, procs')
    BY <2>3, <2>5, <2>6 DEF Follows
  <2> QED BY <1>3, <2>5, <2>7 DEF KernelInv
<1> QED BY <1>4, <1>5

LEMMA ReadEventInv ==
    ASSUME KernelInv, ReadEvent
    PROVE  KernelInv' /\ Follows(procs, procs')
BY DEF KernelInv, Consistent, RestOK, ReadEvent, InProcess, Contexts, Follows

LEMMA QueueEventInv ==
    ASSUME KernelInv, NEW target, NEW event \in UserEvents,
           QueueEvent(target, event)
    PROVE  KernelInv' /\ Follows(procs, procs')
<1> DEFINE to == IF target = 0 THEN RunningSlot(procs) ELSE Lookup(procs, target)
           p == Post(procs[to], <<event>>)
<1>1. RunningSlot(procs) # NoSlot /\ procs \in Seq(Process)
  BY CallerFound DEF QueueEvent, KernelInv, Consistent
<1>2. /\ to # NoSlot /\ procs' = [procs EXCEPT ![to] = p] /\ cpu' = cpu
      /\ UNCHANGED <<uid, timers, ids, enabled, can_update, updates, start,
                     halted>>
  BY <1>1 DEF QueueEvent
<1>3. to \in DOMAIN procs
  BY <1>1, <1>2, RunningSlotFound, LookupFound
<1>4. <<event>> \in Seq(Event)
  <2>1. event \in Event
    BY KernelAssumption
  <2> QED BY <2>1
<1> HIDE DEF to
<1>5. p \in Process /\ p.uid = procs[to].uid /\ p.status = procs[to].status
  <2>1. procs[to] \in Process
    BY <1>1, <1>3
  <2> QED BY <2>1, <1>4, PostType
<1> HIDE DEF p
<1>6. Consistent([procs EXCEPT ![to] = p], cpu)
  BY <1>3, <1>5, UpdateConsistent DEF KernelInv
<1>7. Consistent(procs, cpu)'
  BY <1>2, <1>6 DEF Consistent
<1>8. Follows(procs, procs')
  BY <1>1, <1>2, <1>3, <1>5, UpdateSlot DEF Follows
<1>9. RestOK'
  BY <1>2 DEF KernelInv, RestOK
<1> QED BY <1>7, <1>8, <1>9 DEF KernelInv

(* The killed process is the only one that dies, and it is the RUNNING one *)
(* exactly if its code is on the CPU.                                      *)
LEMMA KillInv ==
    ASSUME KernelInv, InProcess("user"), NEW i \in DOMAIN procs, ProcessKill(i)
    PROVE  /\ KernelInv'
           /\ Follows([procs EXCEPT ![i] = Bury(procs[i])], procs')
<1> DEFINE p == Bury(procs[i])
           P == [procs EXCEPT ![i] = p]
<1>1. /\ procs \in Seq(Process) /\ cpu.ctx = "user"
      /\ \A j \in WithStatus(procs, "RUNNING") : j = cpu.slot
      /\ procs[cpu.slot].status = "RUNNING" /\ timers \in Seq(Timer)
  BY DEF KernelInv, Consistent, RestOK, InProcess
<1>2. p \in Process /\ p.uid = procs[i].uid /\ p.status = "DEAD"
  BY <1>1, BuryType
<1>3. /\ timers' = Cancel(timers, procs[i].uid, 0) /\ can_update' = TRUE
      /\ IF procs[i].status = "RUNNING" THEN Yield(P, "user")
         ELSE procs' = P /\ cpu' = cpu
      /\ UNCHANGED <<uid, ids, enabled, updates, start, halted>>
  BY DEF ProcessKill
<1> HIDE DEF p
<1>4. /\ P \in Seq(Process) /\ DOMAIN P = DOMAIN procs /\ P[i] = p
      /\ \A j \in DOMAIN procs : j # i => P[j] = procs[j]
  BY <1>1, <1>2, UpdateSlot
<1>5. RestOK'
  <2>1. timers' \in Seq(Timer)
    BY <1>1, <1>3, CancelSpec
  <2> QED BY <1>3, <2>1 DEF KernelInv, RestOK
<1>6. CASE procs[i].status = "RUNNING"
  <2>1. i = cpu.slot
    BY <1>1, <1>6 DEF WithStatus
  <2> HIDE DEF P
  <2>2. WithStatus(P, "RUNNING") = {}
    BY <1>1, <1>2, <1>4, <2>1 DEF WithStatus
  <2>3. Consistent(procs, cpu)' /\ Follows(P, procs')
    BY <1>3, <1>4, <1>6, <2>2, YieldInv
  <2> QED BY <1>5, <2>3 DEF KernelInv, P, p
<1>7. CASE procs[i].status # "RUNNING"
  <2>1. i # cpu.slot
    BY <1>1, <1>7
  <2>2. Consistent(P, cpu)
    BY <1>2, <2>1, UpdateConsistent DEF KernelInv
  <2>3. procs' = P /\ cpu' = cpu
    BY <1>3, <1>7
  <2>4. Follows(P, procs')
    BY <2>3 DEF Follows
  <2>5. Consistent(procs, cpu)'
    BY <2>2, <2>3 DEF Consistent
  <2> QED BY <1>5, <2>4, <2>5 DEF KernelInv, p
<1> QED BY <1>6, <1>7

(* kill either stops the kernel or kills a process of the table.           *)
LEMMA KillCases ==
    ASSUME KernelInv, NEW target, Kill(target)
    PROVE  \/ Halt("fault")
           \/ \E i \in DOMAIN procs : ProcessKill(i)
<1> DEFINE victim == IF target = 0 THEN RunningSlot(procs)
                     ELSE Lookup(procs, target)
<1>1. victim # NoSlot => victim \in DOMAIN procs
  <2>1. procs \in Seq(Process)
    BY DEF KernelInv, Consistent
  <2> QED BY <2>1, RunningSlotFound, LookupFound
<1>2. \/ Halt("fault")
      \/ victim # NoSlot /\ ProcessKill(victim)
  BY DEF Kill
<1> HIDE DEF victim
<1> QED BY <1>1, <1>2

LEMMA StartTimerInv ==
    ASSUME KernelInv, NEW delay \in Delays, StartTimer(delay)
    PROVE  KernelInv' /\ Follows(procs, procs')
<1>1. RunningSlot(procs) # NoSlot /\ RunningSlot(procs) = cpu.slot
        /\ procs[cpu.slot] \in Process
  BY CallerFound DEF StartTimer
<1> DEFINE t == [id |-> ids + 1, uid |-> procs[cpu.slot].uid, left |-> delay,
                 finished |-> FALSE]
<1>2. t \in Timer
  <2>1. ids \in Nat /\ procs[cpu.slot].uid \in Nat /\ delay \in Time
    BY <1>1, KernelAssumption DEF KernelInv, RestOK, Process
  <2> QED BY <2>1 DEF Timer
<1>3. /\ timers' = Install(timers, t) /\ ids' = ids + 1
      /\ UNCHANGED <<procs, uid, enabled, can_update, updates, start, cpu,
                     halted>>
  BY <1>1 DEF StartTimer
<1> HIDE DEF t
<1>4. timers' \in Seq(Timer)
  BY <1>2, <1>3, InstallSpec DEF KernelInv, RestOK
<1> QED BY <1>3, <1>4 DEF KernelInv, Consistent, RestOK, Follows

LEMMA CancelTimerInv ==
    ASSUME KernelInv, NEW id, CancelTimer(id)
    PROVE  KernelInv' /\ Follows(procs, procs')
<1>1. RunningSlot(procs) # NoSlot
  BY CallerFound DEF CancelTimer
<1>2. /\ timers' = Cancel(timers, procs[RunningSlot(procs)].uid, id)
      /\ UNCHANGED <<procs, uid, ids, enabled, can_update, updates, start,
                     cpu, halted>>
  BY <1>1 DEF CancelTimer
<1>3. timers' \in Seq(Timer)
  BY <1>2, CancelSpec DEF KernelInv, RestOK
<1> QED BY <1>2, <1>3 DEF KernelInv, Consistent, RestOK, Follows

LEMMA TimerUpdateInv ==
    ASSUME KernelInv, NEW P, Consistent(P, cpu), TimerUpdate(P)
    PROVE  /\ Consistent(procs, cpu)' /\ Follows(P, procs')
           /\ updates' \in Time
<1>1. updates \in Time /\ 0 \in Time /\ (updates + 1) % TimeMod \in Time
  BY TimeAssumption DEF KernelInv, RestOK, Time
<1>2. CASE procs' = P /\ cpu' = cpu
  BY <1>1, <1>2 DEF TimerUpdate, Consistent, Follows
<1>3. CASE enabled /\ can_update
  <2> DEFINE passed == updates * Tick + Tick
             Q == AccountAll(P, passed)
  <2>1. /\ procs' = Reschedule(Q, cpu).procs
        /\ cpu' = Reschedule(Q, cpu).cpu
        /\ updates' = 0
    BY <1>3 DEF TimerUpdate
  <2>2. passed \in Nat
    BY <1>1, TimeAssumption DEF Time
  <2>3. P \in Seq(Process)
    BY DEF Consistent
  <2> HIDE DEF passed
  <2>4. /\ Q \in Seq(Process) /\ Follows(P, Q)
        /\ \A i \in DOMAIN P : Q[i].status = "RUNNING" <=> P[i].status = "RUNNING"
    BY <2>2, <2>3, AccountAllSpec
  <2> HIDE DEF Q
  <2>5. Consistent(Q, cpu)
    <3>1. DOMAIN Q = DOMAIN P
      BY <2>4 DEF Follows
    <3>2. \A i \in WithStatus(Q, "RUNNING") : i = cpu.slot
      BY <2>4, <3>1 DEF Consistent, WithStatus
    <3>3. cpu.ctx \in {"user", "event"} => cpu.slot \in DOMAIN P
      BY DEF Consistent
    <3> QED BY <2>4, <3>1, <3>2, <3>3 DEF Consistent
  <2>6. /\ Consistent(Reschedule(Q, cpu).procs, Reschedule(Q, cpu).cpu)
        /\ Follows(Q, Reschedule(Q, cpu).procs)
    BY <2>5, RescheduleConsistent
  <2>7. Follows(P, procs')
    BY <2>1, <2>4, <2>6 DEF Follows
  <2> QED BY <1>1, <2>1, <2>6, <2>7 DEF Consistent
<1> QED BY <1>2, <1>3 DEF TimerUpdate

LEMMA TimerIRQInv ==
    ASSUME KernelInv, TimerIRQ, Orphans(procs, timers) = {}
    PROVE  /\ KernelInv' /\ Follows(procs, procs')
           /\ timers' = CountdownAll(timers)
<1> DEFINE P == PostExpired(procs, timers)
<1>1. /\ timers' = CountdownAll(timers) /\ TimerUpdate(P)
      /\ UNCHANGED <<uid, ids, enabled, can_update, start, halted>>
  BY DEF TimerIRQ
<1>2. procs \in Seq(Process) /\ timers \in Seq(Timer)
  BY DEF KernelInv, Consistent, RestOK
<1>3. /\ P \in Seq(Process) /\ Follows(procs, P)
      /\ \A i \in DOMAIN procs : P[i].status = procs[i].status
  BY <1>2, PostExpiredSpec
<1> HIDE DEF P
<1>4. Consistent(P, cpu)
  <2>1. DOMAIN P = DOMAIN procs
    BY <1>3 DEF Follows
  <2>2. \A i \in WithStatus(P, "RUNNING") : i = cpu.slot
    BY <1>3, <2>1 DEF KernelInv, Consistent, WithStatus
  <2>3. cpu.ctx \in {"user", "event"} => cpu.slot \in DOMAIN procs
    BY DEF KernelInv, Consistent
  <2> QED BY <1>3, <2>1, <2>2, <2>3 DEF KernelInv, Consistent
<1>5. Consistent(procs, cpu)' /\ Follows(P, procs') /\ updates' \in Time
  BY <1>1, <1>4, TimerUpdateInv
<1>6. timers' \in Seq(Timer)
  BY <1>1, <1>2, CountdownAllSpec
<1>7. RestOK'
  BY <1>1, <1>5, <1>6 DEF KernelInv, RestOK
<1>8. Follows(procs, procs')
  BY <1>3, <1>5 DEF Follows
<1> QED BY <1>1, <1>5, <1>7, <1>8 DEF KernelInv

LEMMA KeyboardInv ==
    ASSUME KernelInv, NEW burst \in KeyBursts, KeyboardIRQ(burst)
    PROVE  /\ KernelInv' /\ Follows(procs, procs')
<1> DEFINE core == CoreSlot(procs)
           p == Post(procs[core], burst)
<1>1. CASE core = NoSlot
  <2>1. Halt("no_core")
    BY <1>1 DEF KeyboardIRQ
  <2> QED BY <2>1, HaltInv DEF HaltReasons, Halt, Follows
<1>2. CASE core # NoSlot
  <2>1. procs \in Seq(Process) /\ core \in DOMAIN procs
    BY <1>2, CoreSlotFound DEF KernelInv, Consistent
  <2>2. /\ procs' = [procs EXCEPT ![core] = p] /\ cpu' = cpu
        /\ UNCHANGED <<uid, timers, ids, enabled, can_update, updates, start,
                       halted>>
    BY <1>2 DEF KeyboardIRQ
  <2> HIDE DEF core
  <2>3. burst \in Seq(Event)
    BY KernelAssumption
  <2>4. p \in Process /\ p.uid = procs[core].uid
          /\ p.status = procs[core].status
    BY <2>1, <2>3, PostType
  <2> HIDE DEF p
  <2>5. Consistent([procs EXCEPT ![core] = p], cpu)
    BY <2>1, <2>4, UpdateConsistent DEF KernelInv
  <2>6. Consistent(procs, cpu)'
    BY <2>2, <2>5 DEF Consistent
  <2>7. Follows(procs, procs')
    BY <2>1, <2>2, <2>4, UpdateSlot DEF Follows
  <2>8. RestOK'
    BY <2>2 DEF KernelInv, RestOK
  <2> QED BY <2>6, <2>7, <2>8 DEF KernelInv
<1> QED BY <1>1, <1>2

-----------------------------------------------------------------------------
(* Every step but the death of a process and the insertion of one leaves   *)
(* every process where it is, alive if it was.                             *)
LEMMA NextInv ==
    ASSUME KernelInv, [Next]_vars
    PROVE  KernelInv'
<1>1. CASE BootStart
  <2>1. UserAlive \in User
    BY DEF User, UserAlive
  <2> QED BY <1>1, <2>1, StartInv DEF BootStart
<1>2. CASE InsertProcess
  BY <1>2, InsertInv
<1>3. CASE UnlockTable
  BY <1>3, UnlockInv
<1>4. CASE StartAlive
  BY <1>4, StartAliveInv
<1>5. CASE \E user \in Users : ProcessStart(user)
  <2>1. PICK user \in Users : ProcessStart(user)
    BY <1>5
  <2>2. user \in User
    BY KernelAssumption
  <2> QED BY <2>1, <2>2, StartInv DEF ProcessStart
<1>6. CASE AliveWait
  BY <1>6, AliveWaitInv
<1>7. CASE PullEvent
  BY <1>7, PullEventInv
<1>8. CASE \E target \in 0..MaxUid, event \in UserEvents :
              QueueEvent(target, event)
  BY <1>8, QueueEventInv
<1>9. CASE \E target \in 0..MaxUid : Kill(target)
  <2>1. PICK target \in 0..MaxUid : Kill(target)
    BY <1>9
  <2>2. InProcess("user")
    BY <2>1 DEF Kill
  <2>3. CASE Halt("fault")
    BY <2>3, HaltInv DEF HaltReasons
  <2>4. CASE \E i \in DOMAIN procs : ProcessKill(i)
    BY <2>2, <2>4, KillInv
  <2> QED BY <2>1, <2>3, <2>4, KillCases
<1>10. CASE \E delay \in Delays : StartTimer(delay)
  BY <1>10, StartTimerInv
<1>11. CASE \E id \in 0..MaxTimerId : CancelTimer(id)
  BY <1>11, CancelTimerInv
<1>12. CASE ReadEvent
  BY <1>12, ReadEventInv
<1>13. CASE ReadNothing
  BY <1>13, HaltInv DEF ReadNothing, HaltReasons
<1>14. CASE TimerIRQ
  <2>1. CASE Orphans(procs, timers) = {}
    BY <1>14, <2>1, TimerIRQInv
  <2>2. CASE Orphans(procs, timers) # {}
    BY <1>14, <2>2, HaltInv DEF TimerIRQ, HaltReasons
  <2> QED BY <2>1, <2>2
<1>15. CASE \E burst \in KeyBursts : KeyboardIRQ(burst)
  BY <1>15, KeyboardInv
<1>16. CASE UNCHANGED vars
  BY <1>16 DEF KernelInv, Consistent, RestOK, vars
<1> QED
  BY <1>1, <1>2, <1>3, <1>4, <1>5, <1>6, <1>7, <1>8, <1>9, <1>10, <1>11,
     <1>12, <1>13, <1>14, <1>15, <1>16 DEF Next, Boot, Syscall

(* The types, the RUNNING process and the CPU agree at every step of every *)
(* handler and of everything that handlers interrupt.                      *)
THEOREM KernelInvariant == Spec => []KernelInv
<1>1. Init => KernelInv
  BY InitInv
<1>2. KernelInv /\ [Next]_vars => KernelInv'
  BY NextInv
<1> QED BY <1>1, <1>2, PTL DEF Spec

(* The state of the kernel has its types in every reachable state:         *)
(* whatever the tables' sizes, the number of ticks and the interleaving,   *)
(* the CPU's slot is a slot of the table and no search result is used out  *)
(* of its range.                                                           *)
THEOREM TypeCorrect == Spec => []TypeOK
<1>1. KernelInv => TypeOK
  BY DEF KernelInv, Consistent, RestOK, TypeOK
<1> QED BY <1>1, KernelInvariant, PTL

(* At most one process is RUNNING, and it is the one on the CPU.           *)
THEOREM RunningOnCpu == Spec => []RunningIsOnCpu
<1>1. KernelInv => RunningIsOnCpu
  BY DEF KernelInv, Consistent, RunningIsOnCpu
<1> QED BY <1>1, KernelInvariant, PTL

(* Whoever makes a system call is the process found RUNNING: a system call *)
(* never acts for another process, and none of the handlers panics.        *)
THEOREM SyscallsFindCaller == Spec => []SyscallsAttributed
<1>1. KernelInv => SyscallsAttributed
  BY DEF KernelInv, Consistent, RestOK, SyscallsAttributed
<1> QED BY <1>1, KernelInvariant, PTL

-----------------------------------------------------------------------------
(* Timers die with their process.                                          *)

(* Every unfinished timer of T belongs to a live process of P.             *)
Owned(T, P) ==
    \A k \in DOMAIN T : ~T[k].finished => \E i \in Live(P) : P[i].uid = T[k].uid

OwnerInv == KernelInv /\ Owned(timers, procs) /\ halted # "no_owner"

(* Timers may finish and processes may change, as long as none dies.       *)
LEMMA OwnedFollows ==
    ASSUME NEW T, NEW U, NEW P, NEW Q, Owned(T, P), Follows(P, Q),
           DOMAIN U = DOMAIN T,
           \A k \in DOMAIN T : /\ U[k].uid = T[k].uid
                               /\ T[k].finished => U[k].finished
    PROVE  Owned(U, Q)
<1> SUFFICES ASSUME NEW k \in DOMAIN U, ~U[k].finished
             PROVE  \E i \in Live(Q) : Q[i].uid = U[k].uid
  BY DEF Owned
<1>1. PICK i \in Live(P) : P[i].uid = T[k].uid
  BY DEF Owned
<1>2. i \in Live(Q) /\ Q[i].uid = P[i].uid
  BY <1>1 DEF Live, Follows
<1> QED BY <1>1, <1>2

(* A step that touches no timer.                                           *)
LEMMA OwnedStutters ==
    ASSUME Owned(timers, procs), Follows(procs, procs'), timers' = timers
    PROVE  Owned(timers, procs)'
BY OwnedFollows DEF Owned

LEMMA InsertOwned ==
    ASSUME OwnerInv, InsertProcess
    PROVE  Owned(timers, procs)'
<1> SUFFICES ASSUME NEW k \in DOMAIN timers, ~timers[k].finished
             PROVE  \E i \in Live(procs') : procs'[i].uid = timers[k].uid
  BY DEF Owned, InsertProcess
<1>1. PICK i \in Live(procs) : procs[i].uid = timers[k].uid
  BY DEF OwnerInv, Owned
<1>2. procs \in Seq(Process) /\ i \in DOMAIN procs /\ procs[i].status # "DEAD"
  BY <1>1 DEF OwnerInv, KernelInv, Consistent, Live
<1>3. i \in DOMAIN procs' /\ procs'[i] = procs[i]
  <2>1. CASE DeadSlot(procs) # NoSlot
    BY <1>2, <2>1, DeadSlotFound DEF InsertProcess
  <2>2. CASE DeadSlot(procs) = NoSlot
    BY <1>2, <2>2 DEF InsertProcess
  <2> QED BY <2>1, <2>2
<1> QED BY <1>1, <1>2, <1>3 DEF Live

(* The timers of the process that dies are cancelled; the owner of any     *)
(* other timer is another process.                                         *)
LEMMA KillOwned ==
    ASSUME OwnerInv, InProcess("user"), NEW i \in DOMAIN procs, ProcessKill(i)
    PROVE  Owned(timers, procs)'
<1> DEFINE P == [procs EXCEPT ![i] = Bury(procs[i])]
<1>1. procs \in Seq(Process) /\ timers \in Seq(Timer)
  BY DEF OwnerInv, KernelInv, Consistent, RestOK
<1>2. Follows(P, procs')
  BY KillInv DEF OwnerInv
<1>3. timers' = Cancel(timers, procs[i].uid, 0)
  BY DEF ProcessKill
<1>4. Bury(procs[i]) \in Process
  BY <1>1, BuryType
<1>5. DOMAIN P = DOMAIN procs /\ \A j \in DOMAIN procs : j # i => P[j] = procs[j]
  OBVIOUS
<1> HIDE DEF P
<1>6. Owned(timers', P)
  <2> SUFFICES ASSUME NEW k \in DOMAIN timers', ~timers'[k].finished
               PROVE  \E j \in Live(P) : P[j].uid = timers'[k].uid
    BY DEF Owned
  <2>1. /\ k \in DOMAIN timers /\ timers'[k].uid = timers[k].uid
        /\ ~timers[k].finished /\ timers[k].uid # procs[i].uid
    BY <1>1, <1>3, CancelSpec
  <2>2. PICK j \in Live(procs) : procs[j].uid = timers[k].uid
    BY <2>1 DEF OwnerInv, Owned
  <2>3. j \in DOMAIN procs /\ j # i /\ procs[j].status # "DEAD"
    BY <2>1, <2>2 DEF Live
  <2>4. j \in Live(P) /\ P[j] = procs[j]
    BY <1>5, <2>3 DEF Live
  <2> QED BY <2>1, <2>2, <2>4
<1>7. Owned(timers', procs')
  BY <1>2, <1>6, OwnedFollows
<1> QED BY <1>7 DEF Owned

LEMMA StartTimerOwned ==
    ASSUME OwnerInv, NEW delay \in Delays, StartTimer(delay)
    PROVE  Owned(timers, procs)'
<1> DEFINE t == [id |-> ids + 1, uid |-> procs[cpu.slot].uid, left |-> delay,
                 finished |-> FALSE]
<1>1. /\ RunningSlot(procs) # NoSlot /\ RunningSlot(procs) = cpu.slot
      /\ cpu.slot \in DOMAIN procs /\ procs[cpu.slot] \in Process
      /\ procs[cpu.slot].status = "RUNNING"
  BY CallerFound DEF StartTimer, OwnerInv
<1>2. timers' = Install(timers, t) /\ procs' = procs
  BY <1>1 DEF StartTimer
<1>3. t \in Timer /\ timers \in Seq(Timer)
  <2>1. ids \in Nat /\ procs[cpu.slot].uid \in Nat /\ delay \in Time
    BY <1>1, KernelAssumption DEF OwnerInv, KernelInv, RestOK, Process
  <2> QED BY <2>1 DEF Timer, OwnerInv, KernelInv, RestOK
<1>4. t.uid = procs[cpu.slot].uid /\ cpu.slot \in Live(procs)
  BY <1>1 DEF Live
<1> HIDE DEF t
<1>5. \A k \in DOMAIN timers' :
         timers'[k] = t \/ (k \in DOMAIN timers /\ timers'[k] = timers[k])
  <2>1. PICK new \in DOMAIN timers' :
           /\ timers'[new] = t
           /\ \A k \in DOMAIN timers' \ {new} :
                 k \in DOMAIN timers /\ timers'[k] = timers[k]
    BY <1>2, <1>3, InstallSpec
  <2> QED BY <2>1
<1> QED BY <1>2, <1>4, <1>5 DEF OwnerInv, Owned

(* No expiring timer is without its process.                               *)
LEMMA NoOrphans ==
    ASSUME OwnerInv
    PROVE  Orphans(procs, timers) = {}
<1> SUFFICES ASSUME NEW k \in Orphans(procs, timers)
             PROVE  FALSE
  OBVIOUS
<1>1. /\ k \in DOMAIN timers /\ ~timers[k].finished
      /\ Lookup(procs, timers[k].uid) = NoSlot
  BY DEF Orphans, Expiring, Expires
<1>2. \E i \in Live(procs) : procs[i].uid = timers[k].uid
  BY <1>1 DEF OwnerInv, Owned
<1> QED BY <1>1, <1>2, LookupFound DEF OwnerInv, KernelInv, Consistent

LEMMA OwnerNext ==
    ASSUME OwnerInv, [Next]_vars
    PROVE  OwnerInv'
<1>1. KernelInv'
  BY NextInv DEF OwnerInv
<1> SUFFICES Owned(timers, procs)' /\ halted' # "no_owner"
  BY <1>1 DEF OwnerInv
<1>2. CASE \/ BootStart \/ UnlockTable \/ \E user \in Users : ProcessStart(user)
           \/ ReadNothing \/ UNCHANGED vars
  BY <1>2 DEF OwnerInv, Owned, BootStart, ProcessStart, BeginStart, UnlockTable,
              ReadNothing, Halt, vars
<1>3. CASE InsertProcess
  BY <1>3, InsertOwned DEF OwnerInv, InsertProcess
<1>4. CASE StartAlive
  BY <1>4, StartAliveInv, OwnedStutters DEF OwnerInv, StartAlive
<1>5. CASE AliveWait
  BY <1>5, AliveWaitInv, OwnedStutters DEF OwnerInv, AliveWait
<1>6. CASE PullEvent
  <2>1. RunningSlot(procs) # NoSlot
    BY <1>6, CallerFound DEF OwnerInv, PullEvent
  <2> QED BY <1>6, <2>1, PullEventInv, OwnedStutters DEF OwnerInv, PullEvent
<1>7. CASE \E target \in 0..MaxUid, event \in UserEvents :
              QueueEvent(target, event)
  <2>1. PICK target \in 0..MaxUid, event \in UserEvents :
           QueueEvent(target, event)
    BY <1>7
  <2>2. RunningSlot(procs) # NoSlot
    BY <2>1, CallerFound DEF OwnerInv, QueueEvent
  <2>3. Follows(procs, procs')
    BY <2>1, QueueEventInv DEF OwnerInv
  <2>4. timers' = timers /\ halted' = halted
    BY <2>1, <2>2 DEF QueueEvent
  <2> QED BY <2>3, <2>4, OwnedStutters DEF OwnerInv
<1>8. CASE \E target \in 0..MaxUid : Kill(target)
  <2>1. PICK target \in 0..MaxUid : Kill(target)
    BY <1>8
  <2>2. InProcess("user")
    BY <2>1 DEF Kill
  <2>3. CASE Halt("fault")
    BY <2>3 DEF OwnerInv, Owned, Halt
  <2>4. CASE \E i \in DOMAIN procs : ProcessKill(i)
    BY <2>2, <2>4, KillOwned DEF ProcessKill, OwnerInv
  <2> QED BY <2>1, <2>3, <2>4, KillCases DEF OwnerInv
<1>9. CASE \E delay \in Delays : StartTimer(delay)
  <2>1. PICK delay \in Delays : StartTimer(delay)
    BY <1>9
  <2>2. RunningSlot(procs) # NoSlot
    BY <2>1, CallerFound DEF OwnerInv, StartTimer
  <2> QED BY <2>1, <2>2, StartTimerOwned DEF OwnerInv, StartTimer
<1>10. CASE \E id \in 0..MaxTimerId : CancelTimer(id)
  <2>1. PICK id \in 0..MaxTimerId : CancelTimer(id)
    BY <1>10
  <2>2. RunningSlot(procs) # NoSlot
    BY <2>1, CallerFound DEF OwnerInv, CancelTimer
  <2>3. /\ timers' = Cancel(timers, procs[RunningSlot(procs)].uid, id)
        /\ halted' = halted
    BY <2>1, <2>2 DEF CancelTimer
  <2>4. timers \in Seq(Timer)
    BY DEF OwnerInv, KernelInv, RestOK
  <2>5. Follows(procs, procs')
    BY <2>1, CancelTimerInv DEF OwnerInv
  <2>6. Owned(timers', procs')
    BY <2>3, <2>4, <2>5, CancelSpec, OwnedFollows DEF OwnerInv
  <2> QED BY <2>3, <2>6 DEF OwnerInv, Owned
<1>11. CASE ReadEvent
  BY <1>11 DEF OwnerInv, Owned, ReadEvent
<1>12. CASE TimerIRQ
  <2>1. Orphans(procs, timers) = {}
    BY NoOrphans
  <2>2. timers' = CountdownAll(timers) /\ Follows(procs, procs')
    BY <1>12, <2>1, TimerIRQInv DEF OwnerInv
  <2>3. timers \in Seq(Timer)
    BY DEF OwnerInv, KernelInv, RestOK
  <2>4. Owned(timers', procs')
    BY <2>2, <2>3, CountdownAllSpec, OwnedFollows DEF OwnerInv
  <2>5. halted' = halted
    BY <1>12, <2>1 DEF TimerIRQ
  <2> QED BY <2>4, <2>5 DEF OwnerInv, Owned
<1>13. CASE \E burst \in KeyBursts : KeyboardIRQ(burst)
  <2>1. PICK burst \in KeyBursts : KeyboardIRQ(burst)
    BY <1>13
  <2>2. timers' = timers /\ halted' \in {halted, "no_core"}
    BY <2>1 DEF KeyboardIRQ, Halt
  <2>3. Follows(procs, procs')
    BY <2>1, KeyboardInv DEF OwnerInv
  <2> QED BY <2>2, <2>3, OwnedStutters DEF OwnerInv
<1> QED
  BY <1>2, <1>3, <1>4, <1>5, <1>6, <1>7, <1>8, <1>9, <1>10, <1>11, <1>12,
     <1>13 DEF Next, Boot, Syscall

LEMMA InitOwned == Init => OwnerInv
<1> SUFFICES ASSUME Init PROVE OwnerInv
  OBVIOUS
<1>1. Owned(timers, procs)
  BY DEF Init, Owned
<1> QED BY <1>1, InitInv DEF OwnerInv, Init

(* Every unfinished timer has a live owner, in every reachable state.      *)
THEOREM OwnerInvariant == Spec => []OwnerInv
<1>1. OwnerInv /\ [Next]_vars => OwnerInv'
  BY OwnerNext
<1> QED BY <1>1, InitOwned, PTL DEF Spec

(* No unfinished timer outlives its process, so the timer interrupt never  *)
(* panics for want of an owner: by process_kill cancelling every timer of  *)
(* its victim, and by timers being started for the live caller only.       *)
THEOREM TimersDieWithOwner == Spec => []TimerOwnerAlive
<1>1. OwnerInv => TimerOwnerAlive
  <2> SUFFICES ASSUME OwnerInv PROVE TimerOwnerAlive
    OBVIOUS
  <2>1. procs \in Seq(Process)
    BY DEF OwnerInv, KernelInv, Consistent
  <2> QED BY <2>1, LookupFound DEF OwnerInv, Owned, TimerOwnerAlive
<1> QED BY <1>1, OwnerInvariant, PTL
=============================================================================
