----------------------------- MODULE MailProofs -----------------------------
(***************************************************************************)
(* The event queues implement mailboxes: theorems about what a process has *)
(* not read yet, for every value of Kernel.tla's constants.  The last      *)
(* section is about the lock of the process table.                         *)
(*                                                                         *)
(* What is unread of a process is in its queue, in current_event, and in   *)
(* whether it stopped right behind a pull_event: on the CPU, in its saved  *)
(* registers, or in those that it gets when it is woken.  The invariant    *)
(* says which of these a process can be in (MailInv); with it, every step  *)
(* does to Unread what it does to a mailbox.                               *)
(***************************************************************************)
EXTENDS KernelProofs

(* What a process that stopped at ctx has not read yet.                    *)
Mine(p, ctx) == (IF ctx = "event" THEN <<p.cur>> ELSE <<>>) \o p.events

(* Where the process in slot i goes on: the CPU knows it of its own.       *)
At(P, c, i) == IF c.slot = i THEN c.ctx ELSE P[i].regs
Box(P, c, i) == Mine(P[i], At(P, c, i))

(* A process in its slot: a suspended one has not been given an event, a   *)
(* ready one is not in the middle of a pull_event that had none, and alive *)
(* has neither a queue nor a keyboard.                                     *)
Placed(i, p) ==
    IF i = ALIVE
    THEN /\ p.uid = 0 /\ p.events = <<>> /\ ~p.core /\ p.status # "DEAD"
         /\ p.regs \in {"main", "idle"}
    ELSE p.regs \in {"user", "event", "blocked"}

Settled(i, p) ==
    /\ p.status = "SUSPENDED" => p.regs # "event"
    /\ p.status = "NORMAL" => p.regs # "blocked"
    /\ p.status \in {"RUNNING", "SUSPENDED"} => p.started
    /\ ~p.started => p.regs # "event"
    /\ Placed(i, p)

TableOK(P) ==
    /\ P \in Seq(Process) /\ ALIVE \in DOMAIN P
    /\ \A i \in DOMAIN P : Settled(i, P[i])

(* The CPU executes a live process, and of alive only its own loop.        *)
CpuOK(P, c) ==
    /\ c.slot # NoSlot => P[c.slot].status # "DEAD"
    /\ c.slot = ALIVE => c.ctx \in {"main", "idle"}
    /\ c.slot \notin {NoSlot, ALIVE} => c.ctx \in {"user", "event", "blocked"}

(* A uid is one process's, and the next one is nobody's.                   *)
UidsOK ==
    /\ uid <= MaxUid
    /\ \A i \in Live(procs) : procs[i].uid <= uid
    /\ \A i, j \in Live(procs) : procs[i].uid = procs[j].uid => i = j
    /\ start.phase = "locked" =>
        /\ start.new.uid = uid /\ start.new.events = <<>>
        /\ start.new.regs = "user"
        /\ uid # 0 /\ \A i \in Live(procs) : procs[i].uid # uid

(* Alive starts no timer.                                                  *)
TimersOK == \A k \in DOMAIN timers : timers[k].uid # 0

(* Only a locked table leaves a process behind its failed pull_event.      *)
BlockedOK == cpu.ctx = "blocked" => ~can_update /\ start.phase = "idle"

Sound ==
    /\ TableOK(procs) /\ CpuOK(procs, cpu)
    /\ UidsOK /\ TimersOK /\ BlockedOK

MailInv == KernelInv /\ Sound

-----------------------------------------------------------------------------
(* One process.                                                            *)

LEMMA MineType ==
    ASSUME NEW p \in Process, NEW ctx
    PROVE  Mine(p, ctx) \in Seq(Event)
<1>1. p.events \in Seq(Event) /\ <<p.cur>> \in Seq(Event) /\ <<>> \in Seq(Event)
  BY DEF Process
<1> QED BY <1>1, ConcatProperties DEF Mine

(* Without anything given, what is unread is the queue.                    *)
LEMMA MineQueue ==
    ASSUME NEW p \in Process, NEW ctx, ctx # "event"
    PROVE  Mine(p, ctx) = p.events
<1>1. p.events \in Seq(Event)
  BY DEF Process
<1> QED BY <1>1, ConcatEmptySeq DEF Mine

LEMMA PullKeeps ==
    ASSUME NEW p \in Process, p.events # <<>>
    PROVE  /\ Pull(p) \in Process /\ Pull(p).uid = p.uid /\ Pull(p).core = p.core
           /\ Pull(p).status = p.status /\ Pull(p).started = p.started
           /\ Pull(p).regs = p.regs
<1>1. Pull(p) = [p EXCEPT !.cur = Head(p.events), !.events = Tail(p.events)]
  BY DEF Pull
<1>2. /\ Pull(p).core = p.core /\ Pull(p).started = p.started
      /\ Pull(p).regs = p.regs
  BY <1>1 DEF Process
<1> QED BY <1>2, PullType

LEMMA SuspendKeeps ==
    ASSUME NEW p \in Process
    PROVE  /\ Suspend(p) \in Process /\ Suspend(p).uid = p.uid
           /\ Suspend(p).core = p.core /\ Suspend(p).status = "SUSPENDED"
           /\ Suspend(p).started = p.started /\ Suspend(p).regs = "blocked"
           /\ Suspend(p).events = p.events
<1>1. Suspend(p) = [p EXCEPT !.status = "SUSPENDED", !.regs = "blocked"]
  BY DEF Suspend
<1>2. /\ Suspend(p).core = p.core /\ Suspend(p).started = p.started
      /\ Suspend(p).regs = "blocked" /\ Suspend(p).events = p.events
  BY <1>1 DEF Process
<1> QED BY <1>2, SuspendType

LEMMA PostKeeps ==
    ASSUME NEW p \in Process, NEW evs \in Seq(Event)
    PROVE  /\ Post(p, evs) \in Process /\ Post(p, evs).uid = p.uid
           /\ Post(p, evs).core = p.core /\ Post(p, evs).status = p.status
           /\ Post(p, evs).started = p.started /\ Post(p, evs).regs = p.regs
           /\ Post(p, evs).events = p.events \o evs /\ Post(p, evs).cur = p.cur
<1>1. Post(p, evs) = [p EXCEPT !.events = p.events \o evs]
  BY DEF Post
<1>2. /\ Post(p, evs).core = p.core /\ Post(p, evs).started = p.started
      /\ Post(p, evs).regs = p.regs /\ Post(p, evs).cur = p.cur
      /\ Post(p, evs).events = p.events \o evs
  BY <1>1 DEF Process
<1> QED BY <1>2, PostType

LEMMA BuryKeeps ==
    ASSUME NEW p \in Process
    PROVE  /\ Bury(p) \in Process /\ Bury(p).uid = p.uid /\ Bury(p).core = p.core
           /\ Bury(p).status = "DEAD" /\ Bury(p).started = p.started
           /\ Bury(p).regs = p.regs
<1>1. Bury(p) = [p EXCEPT !.status = "DEAD", !.events = <<>>]
  BY DEF Bury
<1>2. /\ Bury(p).core = p.core /\ Bury(p).started = p.started
      /\ Bury(p).regs = p.regs
  BY <1>1 DEF Process
<1> QED BY <1>2, BuryType

(* Handing out the first event does not change what is unread.             *)
LEMMA PullMine ==
    ASSUME NEW p \in Process, p.events # <<>>
    PROVE  Mine(Pull(p), "event") = p.events
<1>1. p.events \in Seq(Event)
  BY DEF Process
<1>2. <<Head(p.events)>> \o Tail(p.events) = p.events
  <2> DEFINE s == p.events
  <2>1. /\ Head(s) = s[1] /\ Head(s) \in Event /\ Tail(s) \in Seq(Event)
        /\ Len(Tail(s)) = Len(s) - 1 /\ Len(s) \in Nat
        /\ \A i \in 1..Len(Tail(s)) : Tail(s)[i] = s[i + 1]
    BY <1>1, HeadTailProperties
  <2> HIDE DEF s
  <2>2. <<Head(s)>> \in Seq(Event) /\ Len(<<Head(s)>>) = 1 /\ <<Head(s)>>[1] = s[1]
    BY <2>1
  <2>3. /\ <<Head(s)>> \o Tail(s) \in Seq(Event)
        /\ Len(<<Head(s)>> \o Tail(s)) = Len(s)
        /\ \A i \in 1..Len(s) : (<<Head(s)>> \o Tail(s))[i] = s[i]
    BY <2>1, <2>2, ConcatProperties
  <2> QED BY <2>3, <1>1, SeqEqual DEF s
<1>3. Pull(p).cur = Head(p.events) /\ Pull(p).events = Tail(p.events)
  BY DEF Pull, Process
<1> QED BY <1>2, <1>3 DEF Mine

(* Reading the event takes the first of what is unread.                    *)
LEMMA ReadMine ==
    ASSUME NEW p \in Process
    PROVE  Mine(p, "event") # <<>> /\ Tail(Mine(p, "event")) = p.events
<1>1. p.events \in Seq(Event) /\ p.cur \in Event
  BY DEF Process
<1> DEFINE s == <<p.cur>> \o p.events
<1>2. /\ s \in Seq(Event) /\ Len(s) = 1 + Len(p.events)
      /\ \A i \in 1..Len(s) : s[i] = IF i = 1 THEN p.cur ELSE p.events[i - 1]
  BY <1>1, ConcatProperties
<1>3. s # <<>>
  BY <1>1, <1>2, LenProperties, EmptySeq
<1>4. /\ Tail(s) \in Seq(Event) /\ Len(Tail(s)) = Len(s) - 1
      /\ \A i \in 1..Len(Tail(s)) : Tail(s)[i] = s[i + 1]
  <2> HIDE DEF s
  <2> QED BY <1>2, <1>3, HeadTailProperties
<1>5. Tail(s) = p.events
  <2> HIDE DEF s
  <2>1. Len(p.events) \in Nat /\ Len(Tail(s)) = Len(p.events)
    BY <1>1, <1>2, <1>4, LenProperties
  <2>2. \A i \in 1..Len(p.events) : Tail(s)[i] = p.events[i]
    BY <1>2, <1>4, <2>1
  <2> QED BY <1>1, <1>4, <2>1, <2>2, SeqEqual
<1>6. Mine(p, "event") = s
  BY DEF Mine
<1> HIDE DEF s
<1> QED BY <1>3, <1>5, <1>6

(* Posting appends to what is unread.                                      *)
LEMMA PostMine ==
    ASSUME NEW p \in Process, NEW evs \in Seq(Event), NEW ctx
    PROVE  Mine(Post(p, evs), ctx) = Mine(p, ctx) \o evs
<1>1. p.events \in Seq(Event) /\ <<p.cur>> \in Seq(Event) /\ <<>> \in Seq(Event)
  BY DEF Process
<1>2. Post(p, evs).events = p.events \o evs /\ Post(p, evs).cur = p.cur
  BY DEF Post, Process
<1> DEFINE front == IF ctx = "event" THEN <<p.cur>> ELSE <<>>
<1>3. front \in Seq(Event)
  BY <1>1
<1>4. Mine(p, ctx) = front \o p.events
  BY DEF Mine
<1>5. Mine(Post(p, evs), ctx) = front \o (p.events \o evs)
  BY <1>2 DEF Mine
<1> HIDE DEF front
<1>6. (front \o p.events) \o evs = front \o (p.events \o evs)
  <2> DEFINE q == p.events
             S == Event
  <2>1. front \in Seq(S) /\ q \in Seq(S) /\ evs \in Seq(S)
    BY <1>1, <1>3
  <2> HIDE DEF q, S
  <2>2. (front \o q) \o evs = front \o (q \o evs)
    BY <2>1, ConcatAssociative
  <2> QED BY <2>2 DEF q
<1> QED BY <1>4, <1>5, <1>6

(* The accounting pass changes nothing of what is unread: it hands the     *)
(* first event to a process that waits for it.                             *)
LEMMA AccountMine ==
    ASSUME NEW i, NEW p \in Process, Settled(i, p), NEW passed \in Nat
    PROVE  LET q == Account(p, passed) IN
           /\ q \in Process /\ Settled(i, q)
           /\ q.uid = p.uid /\ q.core = p.core
           /\ q.status = "RUNNING" <=> p.status = "RUNNING"
           /\ q.status = "DEAD" <=> p.status = "DEAD"
           /\ Mine(q, q.regs) = Mine(p, p.regs)
           /\ ~Wakes(p) => q.events = p.events /\ q.cur = p.cur
<1> DEFINE q == Account(p, passed)
<1>1. /\ q \in Process /\ q.uid = p.uid
      /\ q.status = "RUNNING" <=> p.status = "RUNNING"
      /\ q.status = "DEAD" <=> p.status = "DEAD"
  BY AccountType
<1>2. ASSUME NEW r, r \in {p, Ran(p, passed), Waited(p, passed)}
      PROVE  /\ r.uid = p.uid /\ r.core = p.core /\ r.status = p.status
             /\ r.started = p.started /\ r.events = p.events /\ r.cur = p.cur
             /\ r.regs = p.regs
  BY <1>2 DEF Ran, Waited, Process
<1>3. CASE q \in {p, Ran(p, passed), Waited(p, passed)} /\ ~Wakes(p)
  <2> HIDE DEF q
  <2>1. Settled(i, q) /\ q.core = p.core /\ q.events = p.events /\ q.cur = p.cur
        /\ q.regs = p.regs
    BY <1>2, <1>3 DEF Settled, Placed
  <2> QED BY <1>1, <2>1 DEF Mine, q
<1>4. CASE q = Wake(Waited(p, passed)) /\ Wakes(p)
  <2> DEFINE w == Waited(p, passed)
  <2>1. w.uid = p.uid /\ w.core = p.core /\ w.status = "SUSPENDED" /\ w.events = p.events
        /\ w.started = p.started /\ w.cur = p.cur /\ w.regs = p.regs
    BY <1>2, <1>4 DEF Wakes
  <2>2. w \in Process
    <3>1. (p.susp + passed) % TimeMod \in Time
      BY TimeAssumption DEF Process, Time
    <3> QED BY <3>1 DEF Waited, Process
  <2>3. p.events # <<>> /\ p.status = "SUSPENDED" /\ i # ALIVE
    BY <1>4 DEF Wakes, Settled, Placed
  <2> HIDE DEF w
  <2>4. /\ Pull(w) \in Process /\ Pull(w).core = p.core
        /\ Pull(w).started = p.started /\ Mine(Pull(w), "event") = p.events
    BY <2>1, <2>2, <2>3, PullKeeps, PullMine
  <2>5. /\ Wake(w).regs = "event" /\ Wake(w).core = p.core
        /\ Wake(w).status = "NORMAL" /\ Wake(w).started = p.started
        /\ Wake(w).cur = Pull(w).cur /\ Wake(w).events = Pull(w).events
    BY <2>4 DEF Wake, Process
  <2>6. Mine(Wake(w), "event") = p.events
    BY <2>4, <2>5 DEF Mine
  <2>7. Mine(p, p.regs) = p.events
    BY <2>3, MineQueue DEF Settled
  <2> HIDE DEF q
  <2>8. p.started
    BY <2>3 DEF Settled
  <2> QED BY <1>1, <1>4, <2>3, <2>5, <2>6, <2>7, <2>8 DEF Settled, Placed, w, q
<1>5. \/ q \in {p, Ran(p, passed), Waited(p, passed)} /\ ~Wakes(p)
      \/ q = Wake(Waited(p, passed)) /\ Wakes(p)
  BY DEF Account, Wakes
<1> QED BY <1>3, <1>4, <1>5

-----------------------------------------------------------------------------
(* The scheduler on a whole table.                                         *)

(* The processes of Q are those of P, in other states.                     *)
Similar(P, Q) ==
    /\ DOMAIN Q = DOMAIN P
    /\ \A i \in DOMAIN P : /\ Q[i].uid = P[i].uid /\ Q[i].core = P[i].core
                           /\ Q[i].status = "DEAD" <=> P[i].status = "DEAD"

(* A process that is in no other state than where it stopped gets the CPU. *)
LEMMA ResumedMine ==
    ASSUME NEW P \in Seq(Process), ALIVE \in DOMAIN P, NEW i \in DOMAIN P,
           P[i].status # "DEAD", Placed(i, P[i]),
           P[i].started => P[i].regs # "blocked",
           ~P[i].started => P[i].regs # "event",
           \A j \in DOMAIN P \ {i} : Settled(j, P[j])
    PROVE  LET Q == Resumed(P, i)
               d == Cpu(Q, i) IN
           /\ TableOK(Q) /\ CpuOK(Q, d) /\ d.ctx # "blocked" /\ d.slot = i
           /\ Similar(P, Q)
           /\ \A j \in DOMAIN P : Box(Q, d, j) = Mine(P[j], P[j].regs)
<1> DEFINE Q == Resumed(P, i)
           d == Cpu(Q, i)
           p == P[i]
           q == Resume(p, Entry(i))
           regs == IF p.started THEN p.regs ELSE Entry(i)
<1>1. p \in Process
  OBVIOUS
<1>2. /\ q.uid = p.uid /\ q.core = p.core /\ q.status = "RUNNING"
      /\ q.started = TRUE /\ q.events = p.events /\ q.cur = p.cur /\ q.regs = regs
  <2> HIDE DEF regs
  <2>1. q = [p EXCEPT !.status = "RUNNING", !.started = TRUE, !.regs = regs]
    BY DEF Resume, regs
  <2> HIDE DEF p, q
  <2> QED BY <1>1, <2>1 DEF Process
<1>3. /\ Q \in Seq(Process) /\ DOMAIN Q = DOMAIN P /\ Q[i] = q
      /\ \A j \in DOMAIN P : j # i => Q[j] = P[j]
  <2>1. Q \in Seq(Process) /\ Follows(P, Q)
        /\ \A j \in DOMAIN P : j # i => Q[j] = P[j]
    BY ResumedSpec
  <2>2. Q[i] = q
    BY DEF Resumed
  <2> QED BY <2>1, <2>2 DEF Follows
<1>4. d.slot = i /\ d.ctx = regs
  BY <1>2, <1>3 DEF Cpu
<1>5. regs # "blocked" /\ (regs = "event" <=> p.regs = "event")
      /\ IF i = ALIVE THEN regs \in {"main", "idle"}
         ELSE regs \in {"user", "event"}
  BY DEF Placed, Entry
<1> HIDE DEF Q, d, q, regs
<1>6. Settled(i, q)
  BY <1>2, <1>5 DEF Settled, Placed
<1>7. TableOK(Q)
  BY <1>3, <1>6 DEF TableOK
<1>8. CpuOK(Q, d)
  <2>1. Q[d.slot].status = "RUNNING"
    BY <1>2, <1>3, <1>4
  <2> QED BY <2>1, <1>4, <1>5 DEF CpuOK
<1>9. Similar(P, Q)
  BY <1>2, <1>3 DEF Similar
<1>10. ASSUME NEW j \in DOMAIN P PROVE Box(Q, d, j) = Mine(P[j], P[j].regs)
  <2>1. CASE j = i
    BY <2>1, <1>2, <1>3, <1>4, <1>5 DEF Box, At, Mine
  <2>2. CASE j # i
    BY <2>2, <1>3, <1>4 DEF Box, At
  <2> QED BY <2>1, <2>2
<1> QED BY <1>4, <1>5, <1>7, <1>8, <1>9, <1>10 DEF Q, d

(* Without a RUNNING process, the CPU goes to a ready one or to alive.     *)
LEMMA DispatchMine ==
    ASSUME NEW P, TableOK(P)
    PROVE  LET Q == Dispatch(P).procs
               d == Dispatch(P).cpu IN
           /\ TableOK(Q) /\ CpuOK(Q, d) /\ d.ctx # "blocked" /\ d.slot # NoSlot
           /\ Similar(P, Q)
           /\ \A j \in DOMAIN P : Box(Q, d, j) = Mine(P[j], P[j].regs)
<1> DEFINE best == Best(P)
           A == [P EXCEPT ![ALIVE] = Restart(P[ALIVE])]
<1>1. P \in Seq(Process) /\ ALIVE \in DOMAIN P /\ \A i \in DOMAIN P : Settled(i, P[i])
  BY DEF TableOK
<1>2. CASE best # NoSlot
  <2>1. best \in DOMAIN P /\ P[best].status = "NORMAL"
    BY <1>1, <1>2, BestIsReady
  <2>2. /\ Dispatch(P).procs = Resumed(P, best)
        /\ Dispatch(P).cpu = Cpu(Resumed(P, best), best)
    BY <1>2 DEF Dispatch
  <2> HIDE DEF best
  <2>3. /\ P[best].status # "DEAD" /\ Placed(best, P[best])
        /\ P[best].regs # "blocked"
        /\ ~P[best].started => P[best].regs # "event"
    BY <1>1, <2>1 DEF Settled
  <2> QED BY <1>1, <1>2, <2>1, <2>2, <2>3, ResumedMine
<1>3. CASE best = NoSlot
  <2> DEFINE r == Restart(P[ALIVE])
  <2>1. P[ALIVE] \in Process /\ Settled(ALIVE, P[ALIVE])
    BY <1>1
  <2>2. /\ r \in Process /\ r.uid = P[ALIVE].uid /\ r.status = P[ALIVE].status
        /\ r.core = P[ALIVE].core /\ r.regs = P[ALIVE].regs
        /\ r.events = P[ALIVE].events /\ r.cur = P[ALIVE].cur /\ ~r.started
    BY <2>1, RestartType DEF Restart, Process
  <2> HIDE DEF r
  <2>3. /\ A \in Seq(Process) /\ DOMAIN A = DOMAIN P /\ A[ALIVE] = r
        /\ \A j \in DOMAIN P : j # ALIVE => A[j] = P[j]
    BY <1>1, <2>2, UpdateSlot DEF r
  <2>4. /\ Dispatch(P).procs = Resumed(A, ALIVE)
        /\ Dispatch(P).cpu = Cpu(Resumed(A, ALIVE), ALIVE)
    BY <1>3 DEF Dispatch
  <2> HIDE DEF A, best
  <2>5. /\ r.status # "DEAD" /\ Placed(ALIVE, r) /\ r.regs \in {"main", "idle"}
    BY <2>1, <2>2 DEF Settled, Placed
  <2> DEFINE Q == Resumed(A, ALIVE)
             d == Cpu(Q, ALIVE)
  <2>6. /\ TableOK(Q) /\ CpuOK(Q, d) /\ d.ctx # "blocked" /\ d.slot = ALIVE
        /\ Similar(A, Q)
        /\ \A j \in DOMAIN A : Box(Q, d, j) = Mine(A[j], A[j].regs)
    BY <1>1, <2>2, <2>3, <2>5, ResumedMine
  <2>7. Similar(P, A)
    BY <2>2, <2>3 DEF Similar
  <2>8. \A j \in DOMAIN P : Mine(A[j], A[j].regs) = Mine(P[j], P[j].regs)
    BY <2>2, <2>3 DEF Mine
  <2> HIDE DEF Q, d
  <2>9. Similar(P, Q) /\ d.slot # NoSlot
    BY <2>6, <2>7 DEF Similar, ALIVE, NoSlot
  <2> QED BY <2>3, <2>4, <2>6, <2>8, <2>9 DEF Q, d
<1> QED BY <1>2, <1>3

LEMMA AccountAllMine ==
    ASSUME NEW P, NEW c, TableOK(P), CpuOK(P, c), Consistent(P, c),
           c.ctx # "blocked", NEW passed \in Nat
    PROVE  LET Q == AccountAll(P, passed) IN
           /\ TableOK(Q) /\ CpuOK(Q, c) /\ Consistent(Q, c)
           /\ Similar(P, Q)
           /\ \A j \in DOMAIN P : Box(Q, c, j) = Box(P, c, j)
<1> DEFINE Q == AccountAll(P, passed)
<1>1. P \in Seq(Process) /\ ALIVE \in DOMAIN P /\ \A i \in DOMAIN P : Settled(i, P[i])
  BY DEF TableOK
<1>2. ASSUME NEW i \in DOMAIN P
      PROVE  /\ Q[i] \in Process /\ Settled(i, Q[i])
             /\ Q[i].uid = P[i].uid /\ Q[i].core = P[i].core
             /\ Q[i].status = "RUNNING" <=> P[i].status = "RUNNING"
             /\ Q[i].status = "DEAD" <=> P[i].status = "DEAD"
             /\ Mine(Q[i], Q[i].regs) = Mine(P[i], P[i].regs)
             /\ ~Wakes(P[i]) => Q[i].events = P[i].events /\ Q[i].cur = P[i].cur
  <2>1. P[i] \in Process /\ Settled(i, P[i]) /\ Q[i] = Account(P[i], passed)
    BY <1>1 DEF AccountAll
  <2> QED BY <2>1, AccountMine
<1>3. Q \in Seq(Process) /\ DOMAIN Q = DOMAIN P
  BY <1>1, AccountAllSpec DEF Follows
<1> HIDE DEF Q
<1>4. TableOK(Q) /\ Similar(P, Q)
  BY <1>1, <1>2, <1>3 DEF TableOK, Similar
<1>5. c.slot \in {NoSlot} \cup DOMAIN P
  BY DEF Consistent
<1>6. CpuOK(Q, c) /\ Consistent(Q, c)
  <2>1. CpuOK(Q, c)
    BY <1>2, <1>5 DEF CpuOK
  <2>2. \A i \in WithStatus(Q, "RUNNING") : i = c.slot
    BY <1>2, <1>3 DEF Consistent, WithStatus
  <2>3. c.ctx \in {"user", "event"} => Q[c.slot].status = "RUNNING"
    BY <1>2, <1>5 DEF Consistent
  <2> QED BY <1>1, <1>3, <2>1, <2>2, <2>3 DEF Consistent
<1>7. ASSUME NEW j \in DOMAIN P, j = c.slot PROVE ~Wakes(P[j])
  <2>1. CASE j = ALIVE
    BY <1>1, <2>1 DEF Settled, Placed, Wakes
  <2>2. CASE j # ALIVE
    <3>1. j # NoSlot
      BY <1>1 DEF NoSlot
    <3>2. c.ctx \in {"user", "event"}
      BY <1>7, <2>2, <3>1 DEF CpuOK
    <3> QED BY <1>7, <3>2 DEF Consistent, Wakes
  <2> QED BY <2>1, <2>2
<1>8. ASSUME NEW j \in DOMAIN P PROVE Box(Q, c, j) = Box(P, c, j)
  <2>1. CASE j = c.slot
    BY <1>2, <1>7, <2>1 DEF Box, At, Mine
  <2>2. CASE j # c.slot
    BY <1>2, <2>2 DEF Box, At
  <2> QED BY <2>1, <2>2
<1> QED BY <1>4, <1>6, <1>8 DEF Q

(* Where the CPU moves in a tick, what is unread stays.                    *)
LEMMA RescheduleMine ==
    ASSUME NEW P, NEW c, TableOK(P), CpuOK(P, c), Consistent(P, c),
           c.ctx # "blocked"
    PROVE  LET Q == Reschedule(P, c).procs
               d == Reschedule(P, c).cpu IN
           /\ TableOK(Q) /\ CpuOK(Q, d) /\ d.ctx # "blocked"
           /\ Similar(P, Q)
           /\ \A j \in DOMAIN P : Box(Q, d, j) = Box(P, c, j)
<1> DEFINE current == RunningSlot(P)
           best == Best(P)
           A == [P EXCEPT ![current] = Preempt(P[current], c.ctx)]
<1>1. /\ P \in Seq(Process) /\ ALIVE \in DOMAIN P /\ \A i \in DOMAIN P : Settled(i, P[i])
      /\ \A i \in WithStatus(P, "RUNNING") : i = c.slot
      /\ c.ctx \in {"user", "event"} => P[c.slot].status = "RUNNING"
      /\ c.slot \in {NoSlot} \cup DOMAIN P
  BY DEF TableOK, Consistent
<1>2. CASE current = NoSlot
  <2>1. Reschedule(P, c) = Dispatch(P)
    BY <1>2 DEF Reschedule
  <2>2. WithStatus(P, "RUNNING") = {}
    BY <1>1, <1>2, RunningSlotFound
  <2>3. c.slot \in {NoSlot, ALIVE}
    BY <1>1, <2>2 DEF CpuOK, WithStatus, NoSlot
  <2>4. ASSUME NEW j \in DOMAIN P PROVE Box(P, c, j) = Mine(P[j], P[j].regs)
    <3>1. CASE j = c.slot
      <4>1. j = ALIVE
        BY <1>1, <2>3, <3>1 DEF NoSlot
      <4>2. P[j].regs # "event" /\ c.ctx # "event"
        BY <1>1, <3>1, <4>1 DEF Settled, Placed, CpuOK
      <4> QED BY <3>1, <4>2 DEF Box, At, Mine
    <3>2. CASE j # c.slot
      BY <3>2 DEF Box, At
    <3> QED BY <3>1, <3>2
  <2> QED BY <2>1, <2>4, DispatchMine
<1>3. CASE current # NoSlot /\ QuantumOver(P, current) /\ best # NoSlot
  <2>1. current \in DOMAIN P /\ current = c.slot /\ P[current].status = "RUNNING"
    BY <1>1, <1>3, RunningSlotFound DEF WithStatus
  <2>2. best \in DOMAIN P /\ P[best].status = "NORMAL" /\ best # current
    BY <1>1, <1>3, <2>1, BestIsReady
  <2>3. /\ Reschedule(P, c).procs = Resumed(A, best)
        /\ Reschedule(P, c).cpu = Cpu(Resumed(A, best), best)
    BY <1>3 DEF Reschedule
  <2> DEFINE p == P[current]
             r == Preempt(p, c.ctx)
  <2>4. /\ r \in Process /\ r.uid = p.uid /\ r.status = "NORMAL" /\ r.core = p.core
        /\ r.events = p.events /\ r.cur = p.cur /\ r.started = p.started
        /\ r.regs = c.ctx
    <3>1. p \in Process
      BY <1>1, <2>1
    <3>2. c.ctx \in Contexts
      BY <2>1, <1>1, <1>3 DEF Consistent
    <3> HIDE DEF p
    <3>3. r = [p EXCEPT !.regs = c.ctx, !.status = "NORMAL"]
      BY DEF Preempt
    <3>4. /\ r.core = p.core /\ r.events = p.events /\ r.cur = p.cur
          /\ r.started = p.started /\ r.regs = c.ctx
      BY <3>1, <3>3 DEF Process
    <3> QED BY <3>1, <3>2, <3>4, PreemptType
  <2>5. p.started /\ Placed(current, p) /\ Settled(current, p)
    BY <1>1, <2>1 DEF Settled
  <2> HIDE DEF current, best, r, p
  <2>6. Settled(current, r)
    <3>1. current # NoSlot
      BY <1>1, <2>1 DEF NoSlot
    <3>2. IF current = ALIVE THEN c.ctx \in {"main", "idle"}
          ELSE c.ctx \in {"user", "event"}
      BY <2>1, <3>1 DEF CpuOK
    <3> QED BY <2>4, <2>5, <3>2 DEF Settled, Placed
  <2>7. /\ A \in Seq(Process) /\ DOMAIN A = DOMAIN P /\ A[current] = r
        /\ \A j \in DOMAIN P : j # current => A[j] = P[j]
    BY <1>1, <2>1, <2>4, UpdateSlot DEF r, p
  <2> HIDE DEF A
  <2>8. /\ A[best] = P[best] /\ \A j \in DOMAIN A : Settled(j, A[j])
    BY <1>1, <2>2, <2>6, <2>7
  <2>9. /\ A[best].status # "DEAD" /\ Placed(best, A[best])
        /\ A[best].regs # "blocked"
        /\ ~A[best].started => A[best].regs # "event"
    BY <2>2, <2>7, <2>8 DEF Settled
  <2> DEFINE Q == Resumed(A, best)
             d == Cpu(Q, best)
  <2>10. /\ TableOK(Q) /\ CpuOK(Q, d) /\ d.ctx # "blocked"
         /\ Similar(A, Q)
         /\ \A j \in DOMAIN A : Box(Q, d, j) = Mine(A[j], A[j].regs)
    BY <1>1, <2>2, <2>7, <2>8, <2>9, ResumedMine
  <2>11. Similar(P, A)
    BY <2>1, <2>4, <2>7 DEF Similar, p
  <2>12. ASSUME NEW j \in DOMAIN P PROVE Mine(A[j], A[j].regs) = Box(P, c, j)
    BY <2>1, <2>4, <2>7 DEF Box, At, Mine, p
  <2> HIDE DEF Q, d
  <2>13. Similar(P, Q)
    BY <2>10, <2>11 DEF Similar
  <2> QED BY <2>3, <2>7, <2>10, <2>12, <2>13 DEF Q, d
<1>4. CASE current # NoSlot /\ ~(QuantumOver(P, current) /\ best # NoSlot)
  <2>1. Reschedule(P, c).procs = P /\ Reschedule(P, c).cpu = c
    BY <1>4 DEF Reschedule
  <2> QED BY <2>1 DEF Similar
<1> QED BY <1>2, <1>3, <1>4

LEMMA TimerUpdateMine ==
    ASSUME MailInv, NEW P, TableOK(P), CpuOK(P, cpu), Consistent(P, cpu),
           TimerUpdate(P)
    PROVE  /\ TableOK(procs') /\ CpuOK(procs', cpu')
           /\ cpu'.ctx = "blocked" => cpu.ctx = "blocked"
           /\ Similar(P, procs')
           /\ \A j \in DOMAIN P : Box(procs', cpu', j) = Box(P, cpu, j)
<1>1. CASE procs' = P /\ cpu' = cpu
  BY <1>1 DEF Similar
<1>2. CASE enabled /\ can_update
  <2> DEFINE passed == updates * Tick + Tick
             Q == AccountAll(P, passed)
  <2>1. procs' = Reschedule(Q, cpu).procs /\ cpu' = Reschedule(Q, cpu).cpu
    BY <1>2 DEF TimerUpdate
  <2>2. passed \in Nat /\ cpu.ctx # "blocked"
    BY <1>2, TimeAssumption DEF MailInv, Sound, KernelInv, RestOK, BlockedOK, Time
  <2> HIDE DEF passed
  <2>3. /\ TableOK(Q) /\ CpuOK(Q, cpu) /\ Consistent(Q, cpu) /\ Similar(P, Q)
        /\ \A j \in DOMAIN P : Box(Q, cpu, j) = Box(P, cpu, j)
    BY <2>2, AccountAllMine
  <2> HIDE DEF Q
  <2>4. /\ TableOK(procs') /\ CpuOK(procs', cpu') /\ cpu'.ctx # "blocked"
        /\ Similar(Q, procs')
        /\ \A j \in DOMAIN Q : Box(procs', cpu', j) = Box(Q, cpu, j)
    BY <2>1, <2>2, <2>3, RescheduleMine
  <2>5. Similar(P, procs')
    BY <2>3, <2>4 DEF Similar
  <2> QED BY <2>3, <2>4, <2>5 DEF Similar
<1> QED BY <1>1, <1>2 DEF TimerUpdate

-----------------------------------------------------------------------------
(* The steps: what each of them does to what is unread.                    *)

LEMMA UnreadIsBox ==
    /\ \A i : Unread(i) = Box(procs, cpu, i)
    /\ \A i : Unread(i)' = Box(procs', cpu', i)
BY DEF Unread, Given, Box, At, Mine

LEMMA SimilarLive ==
    ASSUME NEW P, NEW Q, Similar(P, Q)
    PROVE  Live(Q) = Live(P)
BY DEF Similar, Live

(* No process comes or goes.                                               *)
LEMMA UidsStay ==
    ASSUME UidsOK, Similar(procs, procs'), UNCHANGED <<uid, start>>
    PROVE  UidsOK'
<1>1. Live(procs') = Live(procs) /\ \A i \in Live(procs) : procs'[i].uid = procs[i].uid
  BY SimilarLive DEF Similar, Live
<1> QED BY <1>1 DEF UidsOK

(* A step after which everything unread is still unread.                   *)
Quiet ==
    /\ Similar(procs, procs')
    /\ \A i \in DOMAIN procs : Unread(i)' = Unread(i)

LEMMA UnchangedQuiet ==
    ASSUME UNCHANGED <<procs, cpu>>
    PROVE  Quiet
BY UnreadIsBox DEF Quiet, Similar

LEMMA HaltMail ==
    ASSUME MailInv, NEW reason, Halt(reason)
    PROVE  Sound' /\ Quiet
<1>1. Quiet
  BY UnchangedQuiet DEF Halt
<1>2. Sound'
  BY DEF MailInv, Sound, TableOK, CpuOK, UidsOK, TimersOK, BlockedOK, Halt
<1> QED BY <1>1, <1>2

LEMMA LiveProcess ==
    ASSUME NEW P \in Seq(Process), NEW i \in Live(P)
    PROVE  /\ i \in DOMAIN P /\ P[i] \in Process /\ P[i].uid \in Nat
           /\ P[i].status # "DEAD"
<1>1. i \in DOMAIN P /\ P[i].status # "DEAD"
  BY DEF Live
<1>2. P[i] \in Process
  BY <1>1
<1> QED BY <1>1, <1>2 DEF Process

LEMMA BeginStartMail ==
    ASSUME MailInv, start.phase = "idle", cpu.ctx # "blocked",
           NEW user \in User, NEW core \in BOOLEAN, BeginStart(user, core)
    PROVE  Sound' /\ Quiet
<1>1. /\ uid \in Nat /\ uid + 1 <= MaxUid /\ uid' = uid + 1
      /\ procs' = procs /\ cpu' = cpu /\ timers' = timers
      /\ start' = [phase |-> "locked", new |-> NewProcess(uid', user, core)]
  BY KernelAssumption DEF MailInv, KernelInv, RestOK, BeginStart
<1>2. /\ start'.new.uid = uid' /\ start'.new.events = <<>>
      /\ start'.new.regs = "user" /\ start'.phase = "locked"
  BY <1>1 DEF NewProcess
<1>3. \A i \in Live(procs) : procs[i].uid \in Nat /\ procs[i].uid <= uid
  BY LiveProcess DEF MailInv, Sound, UidsOK, TableOK
<1>4. UidsOK'
  BY <1>1, <1>2, <1>3 DEF MailInv, Sound, UidsOK
<1>5. TableOK(procs)' /\ CpuOK(procs, cpu)' /\ TimersOK'
  BY <1>1 DEF MailInv, Sound, TableOK, CpuOK, TimersOK
<1>6. BlockedOK'
  BY <1>1 DEF BlockedOK
<1> QED BY <1>1, <1>4, <1>5, <1>6, UnchangedQuiet DEF Sound

LEMMA UnlockMail ==
    ASSUME MailInv, UnlockTable
    PROVE  Sound' /\ Quiet
<1>1. /\ start.phase = "pushed" /\ start' = NoStart
      /\ UNCHANGED <<procs, uid, timers, cpu>>
  BY DEF UnlockTable
<1>2. UidsOK'
  BY <1>1 DEF MailInv, Sound, UidsOK, NoStart
<1>3. TableOK(procs)' /\ CpuOK(procs, cpu)' /\ TimersOK'
  BY <1>1 DEF MailInv, Sound, TableOK, CpuOK, TimersOK
<1>4. BlockedOK'
  BY <1>1 DEF MailInv, Sound, BlockedOK
<1> QED BY <1>1, <1>2, <1>3, <1>4, UnchangedQuiet DEF Sound

(* Only the saved registers, the status or the queue of the process in     *)
(* slot i change, and the CPU stays where it is or goes on in i.           *)
LEMMA SlotMail ==
    ASSUME MailInv, NEW i \in DOMAIN procs, NEW p \in Process, NEW c,
           p.uid = procs[i].uid, p.core = procs[i].core,
           p.status = "DEAD" <=> procs[i].status = "DEAD",
           Settled(i, p), procs' = [procs EXCEPT ![i] = p],
           cpu' = c, CpuOK(procs', c), c.ctx = "blocked" => cpu.ctx = "blocked",
           UNCHANGED <<uid, timers, can_update, start>>
    PROVE  /\ Sound' /\ Similar(procs, procs')
           /\ procs'[i] = p /\ \A j \in DOMAIN procs : j # i => procs'[j] = procs[j]
<1>1. /\ procs' \in Seq(Process) /\ DOMAIN procs' = DOMAIN procs /\ procs'[i] = p
      /\ \A j \in DOMAIN procs : j # i => procs'[j] = procs[j]
  BY UpdateSlot DEF MailInv, Sound, TableOK
<1>2. TableOK(procs)'
  BY <1>1 DEF MailInv, Sound, TableOK
<1>3. Similar(procs, procs')
  BY <1>1 DEF Similar
<1>4. UidsOK'
  BY <1>3, UidsStay DEF MailInv, Sound
<1>5. CpuOK(procs, cpu)'
  BY DEF CpuOK
<1>6. TimersOK' /\ BlockedOK'
  BY DEF MailInv, Sound, TimersOK, BlockedOK
<1> QED BY <1>1, <1>2, <1>3, <1>4, <1>5, <1>6 DEF Sound

LEMMA AliveWaitMail ==
    ASSUME MailInv, AliveWait
    PROVE  Sound' /\ Quiet
<1> DEFINE p == Wait(procs[ALIVE])
           c == [cpu EXCEPT !.ctx = "idle"]
<1>1. /\ procs \in Seq(Process) /\ ALIVE \in DOMAIN procs
      /\ procs[ALIVE] \in Process /\ Settled(ALIVE, procs[ALIVE])
  BY DEF MailInv, Sound, TableOK
<1>2. /\ cpu.ctx = "main" /\ procs' = [procs EXCEPT ![ALIVE] = p] /\ cpu' = c
      /\ UNCHANGED <<uid, timers, can_update, start>>
  BY DEF AliveWait, InProcess
<1>3. cpu.slot = ALIVE /\ c.slot = ALIVE /\ c.ctx = "idle"
  BY <1>2 DEF MailInv, KernelInv, Consistent, Sound, CpuOK
<1>4. /\ p \in Process /\ p.uid = procs[ALIVE].uid /\ p.status = "SUSPENDED"
      /\ p.core = procs[ALIVE].core /\ p.events = procs[ALIVE].events
      /\ p.cur = procs[ALIVE].cur /\ p.regs = procs[ALIVE].regs /\ p.started
  <2> DEFINE a == procs[ALIVE]
  <2>1. a \in Process
    BY <1>1
  <2> HIDE DEF a
  <2>2. Wait(a) = [a EXCEPT !.status = "SUSPENDED", !.started = TRUE]
    BY DEF Wait
  <2>3. /\ Wait(a).core = a.core /\ Wait(a).events = a.events
        /\ Wait(a).cur = a.cur /\ Wait(a).regs = a.regs
        /\ Wait(a).started = TRUE
    BY <2>1, <2>2 DEF Process
  <2>4. /\ Wait(a) \in Process /\ Wait(a).uid = a.uid
        /\ Wait(a).status = "SUSPENDED"
    BY <2>1, WaitType
  <2> QED BY <2>3, <2>4 DEF a
<1> HIDE DEF p, c
<1>5. Settled(ALIVE, p) /\ procs[ALIVE].status # "DEAD"
  BY <1>1, <1>4 DEF Settled, Placed
<1>6. CpuOK(procs', c)
  BY <1>1, <1>2, <1>3, <1>4 DEF CpuOK, ALIVE, NoSlot
<1>7. /\ Sound' /\ Similar(procs, procs') /\ procs'[ALIVE] = p
      /\ \A j \in DOMAIN procs : j # ALIVE => procs'[j] = procs[j]
  BY <1>1, <1>2, <1>3, <1>4, <1>5, <1>6, SlotMail
<1>8. ASSUME NEW i \in DOMAIN procs PROVE Unread(i)' = Unread(i)
  <2>1. CASE i = ALIVE
    BY <1>2, <1>3, <1>4, <1>7, <2>1, UnreadIsBox DEF Box, At, Mine
  <2>2. CASE i # ALIVE
    BY <1>2, <1>3, <1>7, <2>2, UnreadIsBox DEF Box, At
  <2> QED BY <2>1, <2>2
<1> QED BY <1>7, <1>8 DEF Quiet

(* The copy that a process makes takes the first unread event.             *)
LEMMA ReadEventMail ==
    ASSUME MailInv, ReadEvent
    PROVE  /\ Sound' /\ Similar(procs, procs')
           /\ \E i \in Live(procs) :
                 /\ Unread(i) # <<>> /\ Unread(i)' = Tail(Unread(i))
                 /\ \A j \in DOMAIN procs \ {i} : Unread(j)' = Unread(j)
<1>0. PICK i : i = cpu.slot
  OBVIOUS
<1>1. /\ cpu.ctx = "event" /\ cpu' = [cpu EXCEPT !.ctx = "user"]
      /\ UNCHANGED <<procs, uid, timers, can_update, start>>
  BY DEF ReadEvent, InProcess
<1>2. /\ cpu'.ctx = "user" /\ cpu'.slot = i
      /\ i \in DOMAIN procs /\ procs[i] \in Process
      /\ procs[i].status = "RUNNING"
  BY <1>0, <1>1 DEF MailInv, KernelInv, Consistent
<1>3. i \in Live(procs)
  BY <1>2 DEF Live
<1>4. Similar(procs, procs')
  BY <1>1 DEF Similar
<1>5. Sound'
  <2>1. UidsOK'
    BY <1>1, <1>4, UidsStay DEF MailInv, Sound
  <2>2. TableOK(procs)' /\ TimersOK' /\ BlockedOK'
    BY <1>1, <1>2 DEF MailInv, Sound, TableOK, TimersOK, BlockedOK
  <2>3. CpuOK(procs, cpu)'
    BY <1>0, <1>1, <1>2 DEF MailInv, Sound, CpuOK
  <2> QED BY <2>1, <2>2, <2>3 DEF Sound
<1>6. Mine(procs[i], "user") = procs[i].events
  BY <1>2, MineQueue
<1>7. /\ Unread(i) = Mine(procs[i], "event")
      /\ Unread(i)' = procs[i].events
  BY <1>0, <1>1, <1>2, <1>6, UnreadIsBox DEF Box, At
<1>8. \A j \in DOMAIN procs \ {i} : Unread(j)' = Unread(j)
  BY <1>0, <1>1, <1>2, UnreadIsBox DEF Box, At
<1> QED BY <1>2, <1>3, <1>4, <1>5, <1>7, <1>8, ReadMine

(* A system call's caller is a process that is not alive.                  *)
LEMMA CallerSettled ==
    ASSUME MailInv, InProcess("user")
    PROVE  LET i == cpu.slot IN
           /\ RunningSlot(procs) = i /\ i \notin {NoSlot, ALIVE}
           /\ i \in Live(procs) /\ i \in DOMAIN procs
           /\ procs[i] \in Process /\ procs[i].status = "RUNNING"
           /\ Settled(i, procs[i]) /\ procs[i].started /\ procs[i].uid # 0
<1> DEFINE i == cpu.slot
<1>1. /\ RunningSlot(procs) = i /\ i # NoSlot /\ i \in DOMAIN procs
      /\ procs[i] \in Process /\ procs[i].status = "RUNNING"
  BY CallerFound DEF MailInv
<1>2. i # ALIVE
  BY DEF MailInv, Sound, CpuOK, InProcess
<1>3. i \in Live(procs) /\ Settled(i, procs[i]) /\ Settled(ALIVE, procs[ALIVE])
  BY <1>1 DEF MailInv, Sound, TableOK, Live
<1>4. ALIVE \in Live(procs) /\ procs[ALIVE].uid = 0
  BY <1>3 DEF MailInv, Sound, TableOK, Live, Settled, Placed
<1>5. procs[i].uid # 0
  BY <1>2, <1>3, <1>4 DEF MailInv, Sound, UidsOK
<1>6. procs[i].started
  BY <1>1, <1>3 DEF Settled
<1> QED BY <1>1, <1>2, <1>3, <1>5, <1>6

LEMMA PullEventMail ==
    ASSUME MailInv, PullEvent
    PROVE  Sound' /\ Quiet
<1> DEFINE i == cpu.slot
<1>1. /\ RunningSlot(procs) = i /\ i \notin {NoSlot, ALIVE}
      /\ i \in DOMAIN procs /\ procs[i] \in Process /\ procs[i].status = "RUNNING"
      /\ Settled(i, procs[i]) /\ procs[i].started
  BY CallerSettled DEF PullEvent
<1>2. /\ procs \in Seq(Process) /\ ALIVE \in DOMAIN procs
      /\ cpu.ctx = "user" /\ start.phase = "idle"
      /\ cpu \in [slot : {NoSlot} \cup DOMAIN procs, ctx : Contexts \cup {"boot"}]
      /\ \A j \in DOMAIN procs : Settled(j, procs[j])
  BY DEF MailInv, KernelInv, Consistent, Sound, TableOK, PullEvent, InProcess
<1>3. UNCHANGED <<uid, timers, can_update, start>>
  BY <1>1 DEF PullEvent
<1>4. Mine(procs[i], "user") = procs[i].events
  BY <1>1, MineQueue
<1>5. CASE procs[i].events # <<>>
  <2> DEFINE p == Pull(procs[i])
             c == [cpu EXCEPT !.ctx = "event"]
  <2>1. procs' = [procs EXCEPT ![i] = p] /\ cpu' = c
    BY <1>1, <1>5 DEF PullEvent
  <2>2. /\ p \in Process /\ p.uid = procs[i].uid /\ p.core = procs[i].core
        /\ p.status = procs[i].status /\ p.started = procs[i].started
        /\ p.regs = procs[i].regs /\ Mine(p, "event") = procs[i].events
    BY <1>1, <1>5, PullKeeps, PullMine
  <2>3. c.slot = i /\ c.ctx = "event"
    BY <1>2
  <2> HIDE DEF p, c
  <2>4. Settled(i, p)
    BY <1>1, <2>2 DEF Settled, Placed
  <2>5. CpuOK(procs', c)
    BY <1>1, <1>2, <2>1, <2>2, <2>3 DEF CpuOK
  <2>6. /\ Sound' /\ Similar(procs, procs') /\ procs'[i] = p
        /\ \A j \in DOMAIN procs : j # i => procs'[j] = procs[j]
    BY <1>1, <1>3, <2>1, <2>2, <2>3, <2>4, <2>5, SlotMail
  <2>7. ASSUME NEW j \in DOMAIN procs PROVE Unread(j)' = Unread(j)
    <3>1. CASE j = i
      BY <1>2, <1>4, <2>1, <2>2, <2>3, <2>6, <3>1, UnreadIsBox DEF Box, At
    <3>2. CASE j # i
      BY <2>1, <2>3, <2>6, <3>2, UnreadIsBox DEF Box, At
    <3> QED BY <3>1, <3>2
  <2> QED BY <2>6, <2>7 DEF Quiet
<1>6. CASE procs[i].events = <<>>
  <2> DEFINE p == Suspend(procs[i])
             P == [procs EXCEPT ![i] = p]
  <2>1. Yield(P, "blocked")
    BY <1>1, <1>6 DEF PullEvent
  <2>2. /\ p \in Process /\ p.uid = procs[i].uid /\ p.core = procs[i].core
        /\ p.status = "SUSPENDED" /\ p.started = procs[i].started
        /\ p.regs = "blocked" /\ p.events = procs[i].events
    BY <1>1, SuspendKeeps
  <2> HIDE DEF p
  <2>3. Settled(i, p) /\ Mine(p, p.regs) = procs[i].events
    BY <1>1, <2>2, MineQueue DEF Settled, Placed
  <2>4. /\ P \in Seq(Process) /\ DOMAIN P = DOMAIN procs /\ P[i] = p
        /\ \A j \in DOMAIN procs : j # i => P[j] = procs[j]
    BY <1>1, <1>2, <2>2, UpdateSlot
  <2> HIDE DEF P
  <2>5. TableOK(P) /\ Similar(procs, P)
    BY <1>1, <1>2, <2>2, <2>3, <2>4 DEF TableOK, Similar
  <2>6. ASSUME NEW j \in DOMAIN procs
        PROVE  Mine(P[j], P[j].regs) = Box(procs, cpu, j)
    <3>1. CASE j = i
      BY <1>2, <1>4, <2>3, <2>4, <3>1 DEF Box, At
    <3>2. CASE j # i
      BY <2>4, <3>2 DEF Box, At
    <3> QED BY <3>1, <3>2
  <2>7. CASE can_update'
    <3>1. procs' = Dispatch(P).procs /\ cpu' = Dispatch(P).cpu
      BY <2>1, <2>7 DEF Yield
    <3>2. /\ TableOK(procs') /\ CpuOK(procs', cpu') /\ cpu'.ctx # "blocked"
          /\ Similar(P, procs')
          /\ \A j \in DOMAIN P : Box(procs', cpu', j) = Mine(P[j], P[j].regs)
      BY <2>5, <3>1, DispatchMine
    <3>3. Similar(procs, procs')
      BY <2>5, <3>2 DEF Similar
    <3>4. UidsOK'
      BY <1>3, <3>3, UidsStay DEF MailInv, Sound
    <3>5. Sound'
      BY <1>3, <3>2, <3>4
      DEF MailInv, Sound, TableOK, CpuOK, TimersOK, BlockedOK
    <3>6. \A j \in DOMAIN procs : Unread(j)' = Unread(j)
      BY <2>4, <2>6, <3>2, UnreadIsBox
    <3> QED BY <3>3, <3>5, <3>6 DEF Quiet
  <2>8. CASE ~can_update'
    <3>1. procs' = P /\ cpu' = [cpu EXCEPT !.ctx = "blocked"]
      BY <2>1, <2>8 DEF Yield
    <3>2. cpu'.slot = i /\ cpu'.ctx = "blocked"
      BY <1>2, <3>1
    <3>3. UidsOK'
      BY <1>3, <2>5, <3>1, UidsStay DEF MailInv, Sound
    <3>4. CpuOK(procs, cpu)'
      BY <1>1, <2>2, <2>4, <3>1, <3>2 DEF CpuOK
    <3>5. BlockedOK'
      BY <1>2, <1>3, <2>8 DEF BlockedOK
    <3>6. Sound'
      BY <1>3, <2>5, <3>1, <3>3, <3>4, <3>5 DEF MailInv, Sound, TableOK, TimersOK
    <3>7. ASSUME NEW j \in DOMAIN procs PROVE Unread(j)' = Unread(j)
      <4>1. Box(procs', cpu', j) = Mine(P[j], P[j].regs)
        BY <2>2, <2>4, <3>1, <3>2 DEF Box, At
      <4> QED BY <2>6, <4>1, UnreadIsBox
    <3> QED BY <2>5, <3>1, <3>6, <3>7 DEF Quiet
  <2> QED BY <2>7, <2>8
<1> QED BY <1>5, <1>6

LEMMA StartAliveMail ==
    ASSUME MailInv, StartAlive
    PROVE  Sound' /\ Quiet
<1>1. /\ cpu.ctx = "boot" /\ cpu.slot = NoSlot
      /\ procs \in Seq(Process) /\ TableOK(procs)
  BY DEF MailInv, KernelInv, Consistent, Sound, StartAlive, InProcess
<1>2. UNCHANGED <<uid, timers, can_update, start>> /\ Yield(procs, "boot")
  BY DEF StartAlive
<1>3. ASSUME NEW j \in DOMAIN procs
      PROVE  Box(procs, cpu, j) = Mine(procs[j], procs[j].regs)
  BY <1>1 DEF Box, At, NoSlot
<1>4. CASE can_update'
  <2>1. procs' = Dispatch(procs).procs /\ cpu' = Dispatch(procs).cpu
    BY <1>2, <1>4 DEF Yield
  <2>2. /\ TableOK(procs') /\ CpuOK(procs', cpu') /\ cpu'.ctx # "blocked"
        /\ Similar(procs, procs')
        /\ \A j \in DOMAIN procs : Box(procs', cpu', j) = Mine(procs[j], procs[j].regs)
    BY <1>1, <2>1, DispatchMine
  <2>3. UidsOK'
    BY <1>2, <2>2, UidsStay DEF MailInv, Sound
  <2>4. Sound'
    BY <1>2, <2>2, <2>3 DEF MailInv, Sound, TableOK, CpuOK, TimersOK, BlockedOK
  <2> QED BY <1>3, <2>2, <2>4, UnreadIsBox DEF Quiet
<1>5. CASE ~can_update'
  <2>1. procs' = procs /\ cpu' = [cpu EXCEPT !.ctx = "boot"]
    BY <1>2, <1>5 DEF Yield
  <2>2. cpu' = cpu
    <3>1. cpu \in [slot : {NoSlot} \cup DOMAIN procs, ctx : Contexts \cup {"boot"}]
      BY DEF MailInv, KernelInv, Consistent
    <3> QED BY <1>1, <2>1, <3>1
  <2>3. UidsOK'
    BY <1>2, <2>1, UidsStay DEF MailInv, Sound, Similar
  <2>4. TableOK(procs)' /\ CpuOK(procs, cpu)' /\ TimersOK' /\ BlockedOK'
    BY <1>2, <2>1, <2>2 DEF MailInv, Sound, TableOK, CpuOK, TimersOK, BlockedOK
  <2>5. Sound'
    BY <2>3, <2>4 DEF Sound
  <2> QED BY <2>1, <2>2, <2>5, UnchangedQuiet
<1> QED BY <1>4, <1>5


LEMMA TimerMail ==
    ASSUME MailInv, NEW T \in Seq(Timer), timers' = T,
           \A k \in DOMAIN T : T[k].uid # 0,
           UNCHANGED <<procs, uid, can_update, start, cpu>>
    PROVE  Sound' /\ Quiet
<1>1. UidsOK'
  BY UidsStay DEF MailInv, Sound, Similar
<1>2. TimersOK'
  BY DEF TimersOK
<1>3. TableOK(procs)' /\ CpuOK(procs, cpu)' /\ BlockedOK'
  BY DEF MailInv, Sound, TableOK, CpuOK, BlockedOK
<1> QED BY <1>1, <1>2, <1>3, UnchangedQuiet DEF Sound

LEMMA StartTimerMail ==
    ASSUME MailInv, NEW delay \in Delays, StartTimer(delay)
    PROVE  Sound' /\ Quiet
<1> DEFINE owner == procs[cpu.slot]
           t == [id |-> ids + 1, uid |-> owner.uid, left |-> delay,
                 finished |-> FALSE]
<1>1. /\ RunningSlot(procs) = cpu.slot /\ cpu.slot # NoSlot
      /\ owner \in Process /\ owner.uid # 0
  BY CallerSettled DEF StartTimer
<1>2. /\ timers' = Install(timers, t)
      /\ UNCHANGED <<procs, uid, can_update, start, cpu>>
  BY <1>1 DEF StartTimer
<1>3. t \in Timer /\ t.uid # 0 /\ timers \in Seq(Timer)
  <2>1. ids + 1 \in Nat /\ timers \in Seq(Timer)
    BY DEF MailInv, KernelInv, RestOK
  <2>2. owner.uid \in Nat /\ delay \in Time
    BY <1>1, KernelAssumption DEF Process
  <2> HIDE DEF owner
  <2> QED BY <1>1, <2>1, <2>2 DEF Timer
<1> HIDE DEF t
<1>4. /\ Install(timers, t) \in Seq(Timer)
      /\ \A k \in DOMAIN Install(timers, t) : Install(timers, t)[k].uid # 0
  <2>1. PICK new \in DOMAIN Install(timers, t) :
           /\ Install(timers, t)[new] = t
           /\ \A k \in DOMAIN Install(timers, t) \ {new} :
                 k \in DOMAIN timers /\ Install(timers, t)[k] = timers[k]
    BY <1>3, InstallSpec
  <2>2. Install(timers, t) \in Seq(Timer)
    BY <1>3, InstallSpec
  <2> QED BY <1>3, <2>1, <2>2 DEF MailInv, Sound, TimersOK
<1> QED BY <1>2, <1>4, TimerMail

LEMMA CancelTimerMail ==
    ASSUME MailInv, NEW id, CancelTimer(id)
    PROVE  Sound' /\ Quiet
<1> DEFINE T == Cancel(timers, procs[cpu.slot].uid, id)
<1>1. RunningSlot(procs) = cpu.slot /\ cpu.slot # NoSlot
  BY CallerSettled DEF CancelTimer
<1>2. timers' = T /\ UNCHANGED <<procs, uid, can_update, start, cpu>>
  BY <1>1 DEF CancelTimer
<1>3. T \in Seq(Timer) /\ \A k \in DOMAIN T : T[k].uid # 0
  BY CancelSpec DEF MailInv, KernelInv, RestOK, Sound, TimersOK
<1> QED BY <1>2, <1>3, TimerMail

(* A step that adds to what is unread, at the end.                         *)
Grows ==
    /\ Similar(procs, procs')
    /\ \A i \in DOMAIN procs :
          \E s \in Seq(Event) : Unread(i)' = Unread(i) \o s

LEMMA QuietGrows ==
    ASSUME MailInv, Quiet
    PROVE  Grows
<1>1. ASSUME NEW i \in DOMAIN procs
      PROVE  \E s \in Seq(Event) : Unread(i)' = Unread(i) \o s
  <2>1. procs[i] \in Process
    BY DEF MailInv, Sound, TableOK
  <2>2. Unread(i) \in Seq(Event)
    BY <2>1, UnreadIsBox, MineType DEF Box
  <2>3. Unread(i)' = Unread(i) \o <<>> /\ <<>> \in Seq(Event)
    BY <2>2, ConcatEmptySeq DEF Quiet
  <2> QED BY <2>3
<1> QED BY <1>1 DEF Grows, Quiet

(* A step that sends events to the process in slot i, and to nobody else.  *)
Sent(i, evs) ==
    /\ Similar(procs, procs') /\ evs \in Seq(Event)
    /\ \A j \in DOMAIN procs :
          Unread(j)' = IF j = i THEN Unread(j) \o evs ELSE Unread(j)

LEMMA SentGrows ==
    ASSUME MailInv, NEW i, NEW evs, Sent(i, evs)
    PROVE  Grows
<1>1. ASSUME NEW j \in DOMAIN procs
      PROVE  \E s \in Seq(Event) : Unread(j)' = Unread(j) \o s
  <2>1. procs[j] \in Process
    BY DEF MailInv, Sound, TableOK
  <2>2. Unread(j) \in Seq(Event)
    BY <2>1, UnreadIsBox, MineType DEF Box
  <2>3. Unread(j) = Unread(j) \o <<>> /\ <<>> \in Seq(Event)
    BY <2>2, ConcatEmptySeq
  <2>4. /\ evs \in Seq(Event)
        /\ Unread(j)' = IF j = i THEN Unread(j) \o evs ELSE Unread(j)
    BY DEF Sent
  <2>5. CASE j = i
    BY <2>4, <2>5
  <2>6. CASE j # i
    BY <2>3, <2>4, <2>6
  <2> QED BY <2>5, <2>6
<1> QED BY <1>1 DEF Sent, Grows

(* Events for one process that is not alive.                               *)
LEMMA SendMail ==
    ASSUME MailInv, NEW i \in DOMAIN procs, i # ALIVE, NEW evs \in Seq(Event),
           procs' = [procs EXCEPT ![i] = Post(procs[i], evs)],
           UNCHANGED <<uid, timers, can_update, start, cpu>>
    PROVE  Sound' /\ Sent(i, evs)
<1> DEFINE p == Post(procs[i], evs)
<1>1. procs[i] \in Process /\ Settled(i, procs[i])
  BY DEF MailInv, Sound, TableOK
<1>2. /\ p \in Process /\ p.uid = procs[i].uid /\ p.core = procs[i].core
      /\ p.status = procs[i].status /\ p.started = procs[i].started
      /\ p.regs = procs[i].regs
      /\ Mine(p, At(procs, cpu, i)) = Box(procs, cpu, i) \o evs
  <2>1. /\ p \in Process /\ p.uid = procs[i].uid /\ p.core = procs[i].core
        /\ p.status = procs[i].status /\ p.started = procs[i].started
        /\ p.regs = procs[i].regs
    BY <1>1, PostKeeps
  <2>2. Mine(p, At(procs, cpu, i)) = Mine(procs[i], At(procs, cpu, i)) \o evs
    BY <1>1, PostMine
  <2> QED BY <2>1, <2>2 DEF Box
<1> HIDE DEF p
<1>3. Settled(i, p)
  BY <1>1, <1>2 DEF Settled, Placed
<1>4. procs' = [procs EXCEPT ![i] = p]
  BY DEF p
<1>5. procs \in Seq(Process) /\ DOMAIN procs' = DOMAIN procs /\ procs'[i] = p
      /\ \A j \in DOMAIN procs : j # i => procs'[j] = procs[j]
  BY <1>2, <1>4, UpdateSlot DEF MailInv, Sound, TableOK
<1>6. CpuOK(procs', cpu)
  BY <1>2, <1>5 DEF MailInv, KernelInv, Consistent, Sound, CpuOK
<1>7. Sound' /\ Similar(procs, procs')
  BY <1>2, <1>3, <1>4, <1>6, SlotMail
<1>8. ASSUME NEW j \in DOMAIN procs
      PROVE  Unread(j)' = IF j = i THEN Unread(j) \o evs ELSE Unread(j)
  <2>1. CASE j = i
    <3>1. At(procs', cpu', i) = At(procs, cpu, i)
      BY <1>2, <1>5 DEF At
    <3> QED BY <1>2, <1>5, <2>1, <3>1, UnreadIsBox DEF Box
  <2>2. CASE j # i
    BY <1>5, <2>2, UnreadIsBox DEF Box, At
  <2> QED BY <2>1, <2>2
<1> QED BY <1>7, <1>8 DEF Sent

LEMMA NotAlive ==
    ASSUME MailInv, NEW i \in DOMAIN procs, procs[i].uid # 0 \/ procs[i].core
    PROVE  i # ALIVE
BY DEF MailInv, Sound, TableOK, Settled, Placed

LEMMA QueueEventMail ==
    ASSUME MailInv, NEW target \in 0..MaxUid, NEW event \in UserEvents,
           QueueEvent(target, event)
    PROVE  Sound' /\ \E i \in DOMAIN procs : Sent(i, <<event>>)
<1> DEFINE to == IF target = 0 THEN RunningSlot(procs) ELSE Lookup(procs, target)
<1>1. /\ RunningSlot(procs) = cpu.slot /\ cpu.slot \notin {NoSlot, ALIVE}
      /\ cpu.slot \in DOMAIN procs /\ procs \in Seq(Process)
  BY CallerSettled DEF QueueEvent, MailInv, Sound, TableOK
<1>2. /\ to # NoSlot /\ procs' = [procs EXCEPT ![to] = Post(procs[to], <<event>>)]
      /\ UNCHANGED <<uid, timers, can_update, start, cpu>>
  BY <1>1 DEF QueueEvent
<1>3. to \in DOMAIN procs /\ to # ALIVE
  <2>1. CASE target = 0
    BY <1>1, <2>1
  <2>2. CASE target # 0
    <3>1. to \in DOMAIN procs /\ procs[to].uid = target
      BY <1>1, <1>2, <2>2, LookupFound
    <3> QED BY <2>2, <3>1, NotAlive
  <2> QED BY <2>1, <2>2
<1>4. <<event>> \in Seq(Event)
  <2>1. event \in Event
    BY KernelAssumption
  <2> QED BY <2>1
<1> HIDE DEF to
<1> QED BY <1>2, <1>3, <1>4, SendMail

LEMMA KeyboardMail ==
    ASSUME MailInv, NEW burst \in KeyBursts, KeyboardIRQ(burst)
    PROVE  Sound' /\ (Quiet \/ \E i \in DOMAIN procs : Sent(i, burst))
<1> DEFINE core == CoreSlot(procs)
<1>1. CASE core = NoSlot
  <2>1. Halt("no_core")
    BY <1>1 DEF KeyboardIRQ
  <2> QED BY <2>1, HaltMail
<1>2. CASE core # NoSlot
  <2>1. core \in DOMAIN procs /\ core # ALIVE
    BY <1>2, CoreSlotFound, NotAlive DEF MailInv, Sound, TableOK
  <2>2. /\ procs' = [procs EXCEPT ![core] = Post(procs[core], burst)]
        /\ UNCHANGED <<uid, timers, can_update, start, cpu>>
    BY <1>2 DEF KeyboardIRQ
  <2>3. burst \in Seq(Event)
    BY KernelAssumption
  <2> HIDE DEF core
  <2> QED BY <2>1, <2>2, <2>3, SendMail
<1> QED BY <1>1, <1>2


(* No timer of alive's expires.                                            *)
LEMMA AliveHasNoTimer ==
    ASSUME NEW P, TableOK(P), NEW T, \A k \in DOMAIN T : T[k].uid # 0
    PROVE  TimerEventsFor(P, T, ALIVE) = <<>>
<1> DEFINE due == {k \in Expiring(T) : Lookup(P, T[k].uid) = ALIVE}
<1>1. P \in Seq(Process) /\ P[ALIVE].uid = 0
  BY DEF TableOK, Settled, Placed
<1>2. due = {}
  <2> SUFFICES ASSUME NEW k \in due PROVE FALSE
    OBVIOUS
  <2>1. k \in DOMAIN T /\ Lookup(P, T[k].uid) = ALIVE
    BY DEF Expiring
  <2>2. P[ALIVE].uid = T[k].uid
    BY <1>1, <2>1, LookupFound DEF ALIVE, NoSlot
  <2> QED BY <1>1, <2>1, <2>2
<1>3. Cardinality(due) = 0
  BY <1>2, FS_EmptySet
<1> DEFINE order == Ascending(due)
<1>4. TimerEventsFor(P, T, ALIVE)
        = [n \in 1..Cardinality(due) |-> TimerEvent(T[order[n]])]
  BY DEF TimerEventsFor
<1> HIDE DEF due, order
<1> QED BY <1>3, <1>4

(* A tick adds the events of the expired timers to what their processes    *)
(* have not read, and counts down the others.                              *)
Ticked ==
    /\ Similar(procs, procs') /\ timers' = CountdownAll(timers)
    /\ \A i \in DOMAIN procs :
          Unread(i)' = Unread(i) \o TimerEventsFor(procs, timers, i)

LEMMA TickedGrows ==
    ASSUME MailInv, Ticked
    PROVE  Grows
<1>1. \A i : TimerEventsFor(procs, timers, i) \in Seq(Event)
  BY TimerEventsForSpec DEF MailInv, KernelInv, RestOK
<1> QED BY <1>1 DEF Ticked, Grows

(* Expired timers add to the queues of their processes, and where the CPU  *)
(* goes then adds or takes nothing.                                        *)
LEMMA TimerIRQMail ==
    ASSUME MailInv, TimerIRQ
    PROVE  Sound' /\ ((Quiet /\ timers' = timers) \/ Ticked)
<1>1. CASE Orphans(procs, timers) # {}
  <2>1. Halt("no_owner")
    BY <1>1 DEF TimerIRQ
  <2> QED BY <2>1, HaltMail DEF Halt
<1>2. CASE Orphans(procs, timers) = {}
  <2> DEFINE P == PostExpired(procs, timers)
             evs(i) == TimerEventsFor(procs, timers, i)
  <2>1. /\ timers' = CountdownAll(timers) /\ TimerUpdate(P)
        /\ UNCHANGED <<uid, can_update, start>>
    BY <1>2 DEF TimerIRQ
  <2>2. /\ procs \in Seq(Process) /\ timers \in Seq(Timer)
        /\ TableOK(procs) /\ CpuOK(procs, cpu) /\ Consistent(procs, cpu)
    BY DEF MailInv, KernelInv, RestOK, Sound, TableOK
  <2>3. P \in Seq(Process) /\ DOMAIN P = DOMAIN procs
    BY <2>2, PostExpiredSpec DEF Follows
  <2>4. ASSUME NEW i \in DOMAIN procs
        PROVE  /\ evs(i) \in Seq(Event) /\ Settled(i, P[i])
               /\ P[i].uid = procs[i].uid /\ P[i].core = procs[i].core
               /\ P[i].status = procs[i].status
               /\ Box(P, cpu, i) = Box(procs, cpu, i) \o evs(i)
    <3> DEFINE p == procs[i]
    <3>1. p \in Process /\ Settled(i, p) /\ P[i] = Post(p, evs(i))
      BY <2>2 DEF TableOK, PostExpired
    <3>2. evs(i) \in Seq(Event)
      BY <2>2, TimerEventsForSpec
    <3> HIDE DEF P, evs, p
    <3>3. /\ P[i] \in Process /\ P[i].uid = p.uid /\ P[i].core = p.core
          /\ P[i].status = p.status /\ P[i].started = p.started
          /\ P[i].regs = p.regs /\ P[i].events = p.events \o evs(i)
          /\ \A ctx : Mine(P[i], ctx) = Mine(p, ctx) \o evs(i)
      BY <3>1, <3>2, PostKeeps, PostMine
    <3>4. i = ALIVE => P[i].events = <<>>
      <4> SUFFICES ASSUME i = ALIVE PROVE P[i].events = <<>>
        OBVIOUS
      <4>1. evs(i) = <<>>
        BY <2>2, AliveHasNoTimer DEF MailInv, Sound, TimersOK, evs
      <4>2. p.events = <<>>
        BY <3>1 DEF Settled, Placed
      <4> QED BY <3>3, <4>1, <4>2
    <3>5. Settled(i, P[i])
      BY <3>1, <3>3, <3>4 DEF Settled, Placed
    <3> QED BY <3>2, <3>3, <3>5 DEF Box, At, p
  <2> HIDE DEF P, evs
  <2>5. TableOK(P) /\ Similar(procs, P)
    BY <2>2, <2>3, <2>4 DEF TableOK, Similar
  <2>6. CpuOK(P, cpu) /\ Consistent(P, cpu)
    <3>1. CpuOK(P, cpu)
      BY <2>2, <2>4 DEF CpuOK, Consistent
    <3>2. \A i \in WithStatus(P, "RUNNING") : i = cpu.slot
      BY <2>2, <2>3, <2>4 DEF Consistent, WithStatus
    <3>3. cpu.ctx \in {"user", "event"} => cpu.slot \in DOMAIN procs
      BY <2>2 DEF Consistent
    <3> QED BY <2>2, <2>3, <2>4, <3>1, <3>2, <3>3 DEF Consistent
  <2>7. /\ TableOK(procs') /\ CpuOK(procs', cpu')
        /\ cpu'.ctx = "blocked" => cpu.ctx = "blocked"
        /\ Similar(P, procs')
        /\ \A j \in DOMAIN P : Box(procs', cpu', j) = Box(P, cpu, j)
    BY <2>1, <2>5, <2>6, TimerUpdateMine
  <2>8. Similar(procs, procs')
    BY <2>5, <2>7 DEF Similar
  <2>9. UidsOK'
    BY <2>1, <2>8, UidsStay DEF MailInv, Sound
  <2>10. TimersOK'
    BY <2>1, <2>2, CountdownAllSpec DEF MailInv, Sound, TimersOK
  <2>11. BlockedOK'
    BY <2>1, <2>7 DEF MailInv, Sound, BlockedOK
  <2>12. Sound'
    BY <2>7, <2>9, <2>10, <2>11 DEF Sound, TableOK, CpuOK
  <2>13. \A i \in DOMAIN procs : Unread(i)' = Unread(i) \o evs(i)
    BY <2>3, <2>4, <2>7, UnreadIsBox
  <2> QED BY <2>1, <2>8, <2>12, <2>13 DEF Ticked, evs
<1> QED BY <1>1, <1>2

(* What the others have not read stays when a process comes or goes.       *)
Untouched(S) ==
    \A i \in S : Unread(i)' = Unread(i) /\ procs'[i].uid = procs[i].uid

(* A process comes with nothing to read.                                   *)
LEMMA InsertMail ==
    ASSUME MailInv, InsertProcess
    PROVE  /\ Sound' /\ start.phase = "locked" /\ start'.phase # "locked"
           /\ uid' = uid
           /\ \E k \in DOMAIN procs' :
                 /\ k \notin Live(procs) /\ Live(procs') = Live(procs) \cup {k}
                 /\ procs'[k].uid = uid /\ Unread(k)' = <<>>
                 /\ Untouched(Live(procs))
<1> DEFINE p == start.new
<1>0. PICK k : k = IF DeadSlot(procs) # NoSlot THEN DeadSlot(procs)
                   ELSE Len(procs) + 1
  OBVIOUS
<1>1. /\ procs \in Seq(Process) /\ ALIVE \in DOMAIN procs
      /\ \A i \in DOMAIN procs : Settled(i, procs[i])
      /\ cpu.slot \in {NoSlot} \cup DOMAIN procs
      /\ p \in Process /\ p.status = "NORMAL"
  BY DEF MailInv, KernelInv, Consistent, RestOK, Sound, TableOK
<1>2. /\ start.phase = "locked"
      /\ UNCHANGED <<uid, timers, can_update, cpu>>
      /\ start' = NoStart \/ start' = [start EXCEPT !.phase = "pushed"]
  BY DEF InsertProcess
<1>3. start'.phase # "locked"
  <2>1. start \in [phase : {"idle", "locked", "pushed"}, new : Process]
    BY DEF MailInv, KernelInv, RestOK
  <2>2. CASE start' = NoStart
    BY <2>2 DEF NoStart
  <2>3. CASE start' = [start EXCEPT !.phase = "pushed"]
    BY <2>1, <2>3
  <2> QED BY <1>2, <2>2, <2>3
<1>4. /\ p.uid = uid /\ p.events = <<>> /\ p.regs = "user" /\ uid # 0
      /\ \A i \in Live(procs) : procs[i].uid # uid
  BY <1>2 DEF MailInv, Sound, UidsOK
<1>5. /\ procs' \in Seq(Process) /\ DOMAIN procs' = DOMAIN procs \cup {k}
      /\ procs'[k] = p
      /\ \A i \in DOMAIN procs : i # k => procs'[i] = procs[i]
      /\ k \in DOMAIN procs => procs[k].status = "DEAD"
      /\ k # NoSlot
  <2>1. CASE DeadSlot(procs) # NoSlot
    <3>1. k \in DOMAIN procs /\ procs[k].status = "DEAD" /\ k # NoSlot
      BY <1>0, <1>1, <2>1, DeadSlotFound
    <3>2. procs' = [procs EXCEPT ![k] = p]
      BY <1>0, <2>1 DEF InsertProcess
    <3> HIDE DEF p
    <3>3. /\ procs' \in Seq(Process) /\ DOMAIN procs' = DOMAIN procs
          /\ procs'[k] = p /\ \A i \in DOMAIN procs : i # k => procs'[i] = procs[i]
      BY <1>1, <3>1, <3>2, UpdateSlot
    <3> QED BY <3>1, <3>3
  <2>2. CASE DeadSlot(procs) = NoSlot
    <3> DEFINE S == Process
    <3>1. procs' = Append(procs, p) /\ k = Len(procs) + 1
      BY <1>0, <2>2 DEF InsertProcess
    <3>2. procs \in Seq(S) /\ p \in S
      BY <1>1
    <3> HIDE DEF S, p
    <3>3. procs' \in Seq(S) /\ Len(procs') = Len(procs) + 1
      BY <3>1, <3>2
    <3>4. k \notin DOMAIN procs /\ k # NoSlot
      BY <3>1, <3>2 DEF NoSlot
    <3> QED BY <3>1, <3>2, <3>3, <3>4 DEF S
  <2> QED BY <2>1, <2>2
<1> HIDE DEF p
<1>6. k \notin Live(procs) /\ k # ALIVE
  <2>1. procs[ALIVE].status # "DEAD"
    BY <1>1 DEF Settled, Placed
  <2> QED BY <1>1, <1>5, <2>1 DEF Live
<1>7. Live(procs') = Live(procs) \cup {k}
  BY <1>1, <1>5, <1>6 DEF Live
<1>8. Settled(k, p)
  BY <1>1, <1>4, <1>6 DEF Settled, Placed
<1>9. TableOK(procs)'
  BY <1>1, <1>5, <1>8 DEF TableOK
<1>10. cpu.slot # k
  <2>1. CASE cpu.slot = NoSlot
    BY <1>5, <2>1
  <2>2. CASE cpu.slot # NoSlot
    BY <1>1, <1>6, <2>2 DEF MailInv, Sound, CpuOK, Live
  <2> QED BY <2>1, <2>2
<1>11. CpuOK(procs, cpu)'
  <2>1. cpu.slot # NoSlot => procs'[cpu.slot] = procs[cpu.slot]
    BY <1>1, <1>5, <1>10
  <2> QED BY <1>2, <2>1 DEF MailInv, Sound, CpuOK
<1>12. \A i \in Live(procs) : i \in DOMAIN procs /\ procs'[i] = procs[i]
  BY <1>5, <1>6 DEF Live
<1>13. UidsOK'
  <2>1. \A i \in Live(procs') : i = k \/ i \in Live(procs)
    BY <1>7
  <2>2. uid' <= MaxUid /\ \A i \in Live(procs) : procs[i].uid <= uid
    BY <1>2 DEF MailInv, Sound, UidsOK
  <2>3. uid <= uid
    BY DEF MailInv, KernelInv, RestOK
  <2>4. \A i \in Live(procs') : procs'[i].uid <= uid'
    BY <1>2, <1>4, <1>5, <1>12, <2>1, <2>2, <2>3
  <2>5. \A i, j \in Live(procs') : procs'[i].uid = procs'[j].uid => i = j
    <3>1. \A i, j \in Live(procs) : procs[i].uid = procs[j].uid => i = j
      BY DEF MailInv, Sound, UidsOK
    <3> QED BY <1>4, <1>5, <1>12, <2>1, <3>1
  <2> QED BY <1>3, <2>2, <2>4, <2>5 DEF UidsOK
<1>14. TimersOK' /\ BlockedOK'
  BY <1>2 DEF MailInv, Sound, TimersOK, BlockedOK
<1>15. Unread(k)' = <<>>
  <2>1. Mine(p, p.regs) = <<>>
    BY <1>1, <1>4, MineQueue
  <2> QED BY <1>2, <1>5, <1>10, <2>1, UnreadIsBox DEF Box, At
<1>16. Untouched(Live(procs))
  BY <1>2, <1>12, UnreadIsBox DEF Untouched, Box, At
<1>17. Sound'
  BY <1>9, <1>11, <1>13, <1>14 DEF Sound
<1> QED BY <1>2, <1>3, <1>4, <1>5, <1>6, <1>7, <1>15, <1>16, <1>17

(* A process goes, with all it has not read.                               *)
LEMMA KillMail ==
    ASSUME MailInv, InProcess("user"), NEW i \in Live(procs), i # ALIVE,
           ProcessKill(i)
    PROVE  /\ Sound' /\ UNCHANGED <<uid, start>>
           /\ Live(procs') = Live(procs) \ {i} /\ Untouched(Live(procs) \ {i})
<1> DEFINE p == Bury(procs[i])
           P == [procs EXCEPT ![i] = p]
<1>1. /\ procs \in Seq(Process) /\ i \in DOMAIN procs /\ procs[i] \in Process
      /\ \A j \in DOMAIN procs : Settled(j, procs[j])
      /\ ALIVE \in DOMAIN procs /\ cpu.ctx = "user"
      /\ cpu.slot \in DOMAIN procs /\ procs[cpu.slot].status = "RUNNING"
      /\ \A j \in WithStatus(procs, "RUNNING") : j = cpu.slot
      /\ timers \in Seq(Timer)
  BY LiveProcess
  DEF MailInv, KernelInv, Consistent, RestOK, Sound, TableOK, InProcess
<1>2. /\ timers' = Cancel(timers, procs[i].uid, 0) /\ can_update'
      /\ UNCHANGED <<uid, start>>
      /\ IF procs[i].status = "RUNNING" THEN Yield(P, "user")
         ELSE procs' = P /\ cpu' = cpu
  BY DEF ProcessKill
<1>3. /\ p \in Process /\ p.uid = procs[i].uid /\ p.core = procs[i].core
      /\ p.status = "DEAD" /\ p.started = procs[i].started /\ p.regs = procs[i].regs
  BY <1>1, BuryKeeps
<1> HIDE DEF p
<1>4. Settled(i, p)
  BY <1>1, <1>3 DEF Settled, Placed
<1>5. /\ P \in Seq(Process) /\ DOMAIN P = DOMAIN procs /\ P[i] = p
      /\ \A j \in DOMAIN procs : j # i => P[j] = procs[j]
  BY <1>1, <1>3, UpdateSlot
<1> HIDE DEF P
<1>6. TableOK(P) /\ Live(P) = Live(procs) \ {i}
  BY <1>1, <1>3, <1>4, <1>5 DEF TableOK, Live
<1>7. /\ TableOK(procs') /\ CpuOK(procs', cpu') /\ cpu'.ctx # "blocked"
      /\ Similar(P, procs')
      /\ \A j \in Live(procs) \ {i} : Box(procs', cpu', j) = Box(procs, cpu, j)
  <2>1. CASE procs[i].status = "RUNNING"
    <3>1. i = cpu.slot
      BY <1>1, <2>1 DEF WithStatus
    <3>2. procs' = Dispatch(P).procs /\ cpu' = Dispatch(P).cpu
      BY <1>2, <2>1 DEF Yield
    <3>3. /\ TableOK(procs') /\ CpuOK(procs', cpu') /\ cpu'.ctx # "blocked"
          /\ Similar(P, procs')
          /\ \A j \in DOMAIN P : Box(procs', cpu', j) = Mine(P[j], P[j].regs)
      BY <1>6, <3>2, DispatchMine
    <3>4. ASSUME NEW j \in Live(procs) \ {i}
          PROVE  Box(procs, cpu, j) = Mine(P[j], P[j].regs)
      BY <1>5, <3>1 DEF Box, At, Live
    <3>5. Live(procs) \ {i} \subseteq DOMAIN P
      BY <1>5 DEF Live
    <3> QED BY <3>3, <3>4, <3>5
  <2>2. CASE procs[i].status # "RUNNING"
    <3>1. i # cpu.slot /\ procs' = P /\ cpu' = cpu
      BY <1>1, <1>2, <2>2
    <3>2. CpuOK(P, cpu)
      BY <1>1, <1>5, <3>1 DEF MailInv, Sound, CpuOK
    <3>3. \A j \in Live(procs) \ {i} : Box(P, cpu, j) = Box(procs, cpu, j)
      BY <1>5, <3>1 DEF Box, At, Live
    <3> QED BY <1>1, <1>6, <3>1, <3>2, <3>3 DEF Similar
  <2> QED BY <2>1, <2>2
<1>8. Live(procs') = Live(procs) \ {i}
  BY <1>6, <1>7, SimilarLive
<1>9. \A j \in Live(procs) \ {i} : procs'[j].uid = procs[j].uid
  BY <1>5, <1>7 DEF Similar, Live
<1>10. Untouched(Live(procs) \ {i})
  BY <1>7, <1>9, UnreadIsBox DEF Untouched
<1>11. UidsOK'
  BY <1>2, <1>8, <1>9 DEF MailInv, Sound, UidsOK
<1>12. TimersOK'
  BY <1>1, <1>2, CancelSpec DEF MailInv, Sound, TimersOK
<1>13. BlockedOK'
  BY <1>7 DEF BlockedOK
<1>14. Sound'
  BY <1>7, <1>11, <1>12, <1>13 DEF Sound, TableOK, CpuOK
<1> QED BY <1>2, <1>8, <1>10, <1>14


-----------------------------------------------------------------------------
(* What each step is to the mailboxes.                                     *)

Gone == (0..uid) \ (LiveUids \cup Pending)

Arrives == Grows /\ Gone' = Gone

Takes ==
    /\ Similar(procs, procs') /\ Gone' = Gone
    /\ \E i \in Live(procs) :
          /\ Unread(i) # <<>> /\ Unread(i)' = Tail(Unread(i))
          /\ \A j \in DOMAIN procs \ {i} : Unread(j)' = Unread(j)

Comes ==
    /\ Gone' = Gone
    /\ \E k \in DOMAIN procs' :
          /\ k \notin Live(procs) /\ Live(procs') = Live(procs) \cup {k}
          /\ procs'[k].uid \notin LiveUids \cup Gone /\ Unread(k)' = <<>>
          /\ Untouched(Live(procs))

Goes ==
    \E i \in Live(procs) :
        /\ Live(procs') = Live(procs) \ {i} /\ Untouched(Live(procs) \ {i})
        /\ LiveUids' = LiveUids \ {procs[i].uid}
        /\ Gone' = Gone \cup {procs[i].uid}

LEMMA SimilarUids ==
    ASSUME Similar(procs, procs')
    PROVE  LiveUids' = LiveUids
<1>1. Live(procs') = Live(procs) /\ \A i \in Live(procs) : procs'[i].uid = procs[i].uid
  BY SimilarLive DEF Similar, Live
<1> QED BY <1>1 DEF LiveUids

LEMMA GrowsArrives ==
    ASSUME Grows, UNCHANGED <<uid, start>>
    PROVE  Arrives
BY SimilarUids DEF Grows, Arrives, Gone, Pending

LEMMA BeginStartArrives ==
    ASSUME MailInv, start.phase = "idle", NEW user, NEW core,
           BeginStart(user, core), Quiet
    PROVE  Arrives
<1>1. LiveUids' = LiveUids
  BY SimilarUids DEF Quiet
<1>2. uid \in Nat /\ uid' = uid + 1
  BY DEF MailInv, KernelInv, RestOK, BeginStart
<1>3. Pending = {} /\ Pending' = {uid + 1}
  BY DEF Pending, BeginStart, NewProcess
<1>4. Gone' = Gone
  <2> DEFINE L == LiveUids
  <2> HIDE DEF L
  <2>1. \A n : n \in (0..(uid + 1)) \ (L \cup {uid + 1}) <=> n \in (0..uid) \ (L \cup {})
    BY <1>2
  <2>2. (0..(uid + 1)) \ (L \cup {uid + 1}) = (0..uid) \ (L \cup {})
    BY <2>1
  <2> QED BY <1>1, <1>2, <1>3, <2>2 DEF Gone, L
<1> QED BY <1>4, QuietGrows DEF Arrives

LEMMA InsertComes ==
    ASSUME MailInv, InsertProcess
    PROVE  Comes
<1>1. /\ start.phase = "locked" /\ start'.phase # "locked" /\ uid' = uid
      /\ \E k \in DOMAIN procs' :
            /\ k \notin Live(procs) /\ Live(procs') = Live(procs) \cup {k}
            /\ procs'[k].uid = uid /\ Unread(k)' = <<>>
            /\ Untouched(Live(procs))
  BY InsertMail
<1>2. PICK k \in DOMAIN procs' :
         /\ k \notin Live(procs) /\ Live(procs') = Live(procs) \cup {k}
         /\ procs'[k].uid = uid /\ Unread(k)' = <<>>
         /\ Untouched(Live(procs))
  BY <1>1
<1>3. start.new.uid = uid /\ \A i \in Live(procs) : procs[i].uid # uid
  BY <1>1 DEF MailInv, Sound, UidsOK
<1>4. Pending = {uid} /\ Pending' = {}
  BY <1>1, <1>3 DEF Pending
<1>5. LiveUids' = LiveUids \cup {uid}
  BY <1>2 DEF LiveUids, Untouched
<1>6. Gone' = Gone
  BY <1>1, <1>4, <1>5 DEF Gone
<1>7. uid \notin LiveUids \cup Gone
  BY <1>3, <1>4 DEF LiveUids, Gone
<1> QED BY <1>2, <1>6, <1>7 DEF Comes

LEMMA KillGoes ==
    ASSUME MailInv, InProcess("user"), NEW i \in Live(procs), i # ALIVE,
           ProcessKill(i)
    PROVE  Goes
<1>1. /\ UNCHANGED <<uid, start>>
      /\ Live(procs') = Live(procs) \ {i} /\ Untouched(Live(procs) \ {i})
  BY KillMail
<1>2. Pending = {} /\ Pending' = {}
  BY <1>1 DEF Pending, InProcess
<1>3. LiveUids' = LiveUids \ {procs[i].uid}
  <2>1. LiveUids' = {procs[j].uid : j \in Live(procs) \ {i}}
    BY <1>1 DEF LiveUids, Untouched
  <2>2. \A j \in Live(procs) : procs[j].uid = procs[i].uid => j = i
    BY DEF MailInv, Sound, UidsOK
  <2> QED BY <2>1, <2>2 DEF LiveUids
<1>4. procs[i].uid \in 0..uid /\ procs[i].uid \in LiveUids
  <2>1. procs \in Seq(Process) /\ uid \in Nat /\ procs[i].uid <= uid
    BY DEF MailInv, KernelInv, RestOK, Sound, TableOK, UidsOK
  <2>2. procs[i].uid \in Nat
    BY <2>1, LiveProcess
  <2> QED BY <2>1, <2>2 DEF LiveUids
<1>5. Gone' = Gone \cup {procs[i].uid}
  BY <1>1, <1>2, <1>3, <1>4 DEF Gone
<1> QED BY <1>1, <1>3, <1>5 DEF Goes

LEMMA KillMailCases ==
    ASSUME MailInv, NEW target \in 0..MaxUid, Kill(target)
    PROVE  \/ Halt("fault")
           \/ \E i \in Live(procs) : i # ALIVE /\ ProcessKill(i)
<1> DEFINE victim == IF target = 0 THEN RunningSlot(procs)
                     ELSE Lookup(procs, target)
<1>1. /\ RunningSlot(procs) = cpu.slot /\ cpu.slot \notin {NoSlot, ALIVE}
      /\ cpu.slot \in Live(procs) /\ procs \in Seq(Process)
  BY CallerSettled DEF Kill, MailInv, Sound, TableOK
<1>2. victim # NoSlot => victim \in Live(procs) /\ victim # ALIVE
  <2> SUFFICES ASSUME victim # NoSlot
               PROVE  victim \in Live(procs) /\ victim # ALIVE
    OBVIOUS
  <2>1. CASE target = 0
    BY <1>1, <2>1
  <2>2. CASE target # 0
    <3>1. /\ victim \in DOMAIN procs /\ procs[victim].uid = target
          /\ procs[victim].status # "DEAD"
      BY <1>1, <2>2, LookupFound
    <3> HIDE DEF victim
    <3> QED BY <2>2, <3>1, NotAlive DEF Live
  <2> QED BY <2>1, <2>2
<1>3. \/ Halt("fault")
      \/ victim # NoSlot /\ ProcessKill(victim)
  BY DEF Kill
<1> HIDE DEF victim
<1> QED BY <1>2, <1>3

(* Every step keeps the invariant, and is one of the four.                 *)
LEMMA MailNext ==
    ASSUME MailInv, [Next]_vars
    PROVE  MailInv' /\ (Arrives \/ Takes \/ Comes \/ Goes)
<1>0. KernelInv'
  BY NextInv DEF MailInv
<1> SUFFICES Sound' /\ (Arrives \/ Takes \/ Comes \/ Goes)
  BY <1>0 DEF MailInv
<1>h. ASSUME NEW reason, Halt(reason) PROVE Sound' /\ Arrives
  BY <1>h, HaltMail, QuietGrows, GrowsArrives DEF Halt
<1>1. CASE BootStart
  <2>1. UserAlive \in User /\ TRUE \in BOOLEAN
    BY DEF User, UserAlive
  <2>2. cpu.ctx # "blocked" /\ start.phase = "idle"
    BY <1>1 DEF BootStart, InProcess
  <2> QED BY <1>1, <2>1, <2>2, BeginStartMail, BeginStartArrives DEF BootStart
<1>2. CASE InsertProcess
  BY <1>2, InsertMail, InsertComes
<1>3. CASE UnlockTable
  <2>1. Sound' /\ Grows
    BY <1>3, UnlockMail, QuietGrows
  <2>2. Pending' = Pending /\ uid' = uid
    BY <1>3 DEF UnlockTable, Pending, NoStart
  <2> QED BY <2>1, <2>2, SimilarUids DEF Arrives, Gone, Grows
<1>4. CASE StartAlive
  BY <1>4, StartAliveMail, QuietGrows, GrowsArrives DEF StartAlive
<1>5. CASE \E user \in Users : ProcessStart(user)
  <2>1. PICK user \in Users : ProcessStart(user)
    BY <1>5
  <2>2. user \in User /\ FALSE \in BOOLEAN
    BY KernelAssumption
  <2>3. cpu.ctx # "blocked" /\ start.phase = "idle"
    BY <2>1 DEF ProcessStart, InProcess
  <2> QED BY <2>1, <2>2, <2>3, BeginStartMail, BeginStartArrives DEF ProcessStart
<1>6. CASE AliveWait
  BY <1>6, AliveWaitMail, QuietGrows, GrowsArrives DEF AliveWait
<1>7. CASE PullEvent
  <2>1. RunningSlot(procs) # NoSlot
    BY <1>7, CallerSettled DEF PullEvent
  <2> QED BY <1>7, <2>1, PullEventMail, QuietGrows, GrowsArrives DEF PullEvent
<1>8. CASE \E target \in 0..MaxUid, event \in UserEvents :
              QueueEvent(target, event)
  <2>1. PICK target \in 0..MaxUid, event \in UserEvents :
           QueueEvent(target, event)
    BY <1>8
  <2>2. RunningSlot(procs) # NoSlot
    BY <2>1, CallerSettled DEF QueueEvent
  <2>3. UNCHANGED <<uid, start>>
    BY <2>1, <2>2 DEF QueueEvent
  <2> QED BY <2>1, <2>3, QueueEventMail, SentGrows, GrowsArrives
<1>9. CASE \E target \in 0..MaxUid : Kill(target)
  <2>1. PICK target \in 0..MaxUid : Kill(target)
    BY <1>9
  <2>2. InProcess("user")
    BY <2>1 DEF Kill
  <2>3. CASE Halt("fault")
    BY <1>h, <2>3
  <2>4. CASE \E i \in Live(procs) : i # ALIVE /\ ProcessKill(i)
    BY <2>2, <2>4, KillMail, KillGoes
  <2> QED BY <2>1, <2>3, <2>4, KillMailCases
<1>10. CASE \E delay \in Delays : StartTimer(delay)
  <2>1. PICK delay \in Delays : StartTimer(delay)
    BY <1>10
  <2>2. RunningSlot(procs) # NoSlot
    BY <2>1, CallerSettled DEF StartTimer
  <2>3. UNCHANGED <<uid, start>>
    BY <2>1, <2>2 DEF StartTimer
  <2> QED BY <2>1, <2>3, StartTimerMail, QuietGrows, GrowsArrives
<1>11. CASE \E id \in 0..MaxTimerId : CancelTimer(id)
  <2>1. PICK id \in 0..MaxTimerId : CancelTimer(id)
    BY <1>11
  <2>2. RunningSlot(procs) # NoSlot
    BY <2>1, CallerSettled DEF CancelTimer
  <2>3. UNCHANGED <<uid, start>>
    BY <2>1, <2>2 DEF CancelTimer
  <2> QED BY <2>1, <2>3, CancelTimerMail, QuietGrows, GrowsArrives
<1>12. CASE ReadEvent
  <2>1. Gone' = Gone
    BY <1>12, ReadEventMail, SimilarUids DEF ReadEvent, Gone, Pending
  <2> QED BY <1>12, <2>1, ReadEventMail DEF Takes
<1>13. CASE ReadNothing
  BY <1>13, <1>h DEF ReadNothing
<1>14. CASE TimerIRQ
  <2>1. UNCHANGED <<uid, start>>
    BY <1>14 DEF TimerIRQ, Halt
  <2> QED BY <1>14, <2>1, TimerIRQMail, TickedGrows, QuietGrows,
            GrowsArrives
<1>15. CASE \E burst \in KeyBursts : KeyboardIRQ(burst)
  <2>1. PICK burst \in KeyBursts : KeyboardIRQ(burst)
    BY <1>15
  <2>2. UNCHANGED <<uid, start>>
    BY <2>1 DEF KeyboardIRQ, Halt
  <2> QED BY <2>1, <2>2, KeyboardMail, SentGrows, QuietGrows,
            GrowsArrives
<1>16. CASE UNCHANGED vars
  <2>1. Quiet /\ UNCHANGED <<uid, start>>
    BY <1>16, UnchangedQuiet DEF vars
  <2>2. Sound'
    BY <1>16 DEF MailInv, Sound, TableOK, CpuOK, UidsOK, TimersOK, BlockedOK, vars
  <2> QED BY <2>1, <2>2, QuietGrows, GrowsArrives
<1> QED
  BY <1>1, <1>2, <1>3, <1>4, <1>5, <1>6, <1>7, <1>8, <1>9, <1>10, <1>11,
     <1>12, <1>13, <1>14, <1>15, <1>16 DEF Next, Boot, Syscall

LEMMA MailInit == Init => MailInv
<1> SUFFICES ASSUME Init PROVE MailInv
  OBVIOUS
<1>1. PICK susp \in UninitTimes, run \in UninitTimes :
         procs = <<AliveProcess(susp, run)>>
  BY DEF Init
<1> DEFINE a == AliveProcess(susp, run)
<1>2. /\ a.uid = 0 /\ a.events = <<>> /\ ~a.core /\ a.status = "SUSPENDED"
      /\ a.regs = "main" /\ a.started
  BY DEF AliveProcess
<1> HIDE DEF a
<1>3. procs = <<a>>
  BY <1>1 DEF a
<1>4. DOMAIN procs = {1} /\ procs[1] = a
  BY <1>3
<1>5. KernelInv
  BY InitInv
<1>6. Settled(1, a)
  BY <1>2 DEF Settled, Placed, ALIVE
<1>7. TableOK(procs)
  BY <1>4, <1>5, <1>6 DEF TableOK, KernelInv, Consistent
<1>8. CpuOK(procs, cpu)
  BY DEF Init, CpuOK, NoSlot, ALIVE
<1>9. UidsOK
  <2>1. 0 <= MaxUid
    BY KernelAssumption
  <2>2. \A i \in Live(procs) : i = 1 /\ procs[i].uid = 0
    BY <1>2, <1>4 DEF Live
  <2>3. uid = 0 /\ start.phase = "idle"
    BY DEF Init, NoStart
  <2> QED BY <2>1, <2>2, <2>3 DEF UidsOK
<1>10. TimersOK /\ BlockedOK
  BY DEF Init, TimersOK, BlockedOK
<1> QED BY <1>5, <1>7, <1>8, <1>9, <1>10 DEF MailInv, Sound

(* Where a process can be with what it has not read: in every reachable    *)
(* state, whatever it was interrupted or suspended in.                     *)
THEOREM MailInvariant == Spec => []MailInv
<1>1. MailInv /\ [Next]_vars => MailInv'
  BY MailNext
<1> QED BY <1>1, MailInit, PTL DEF Spec

-----------------------------------------------------------------------------
(* The mailboxes: the refinement mapping of DeliversMail, for any table.   *)

Owner(P, u) == CHOOSE i \in DOMAIN P : P[i].uid = u /\ P[i].status # "DEAD"
Boxes(P, c) ==
    [u \in Uids |-> IF \E i \in DOMAIN P : P[i].uid = u /\ P[i].status # "DEAD"
                    THEN Box(P, c, Owner(P, u)) ELSE <<>>]

(* A table whose processes have different uids, all up to MaxUid.          *)
OwnUids(P) ==
    /\ \A i \in Live(P) : P[i].uid \in Uids
    /\ \A i, j \in Live(P) : P[i].uid = P[j].uid => i = j

UidsOf(P) == {P[i].uid : i \in Live(P)}

LEMMA BoxesOf ==
    ASSUME NEW P, NEW c, OwnUids(P)
    PROVE  /\ Boxes(P, c) = [u \in Uids |-> Boxes(P, c)[u]]
           /\ \A i \in Live(P) : Boxes(P, c)[P[i].uid] = Box(P, c, i)
           /\ \A u \in Uids \ UidsOf(P) : Boxes(P, c)[u] = <<>>
<1>1. ASSUME NEW i \in Live(P) PROVE Boxes(P, c)[P[i].uid] = Box(P, c, i)
  <2>1. /\ i \in DOMAIN P /\ P[i].status # "DEAD" /\ P[i].uid \in Uids
    BY DEF Live, OwnUids
  <2>2. /\ Owner(P, P[i].uid) \in DOMAIN P
        /\ P[Owner(P, P[i].uid)].uid = P[i].uid
        /\ P[Owner(P, P[i].uid)].status # "DEAD"
    BY <2>1 DEF Owner
  <2>3. Owner(P, P[i].uid) = i
    BY <2>2 DEF Live, OwnUids
  <2> QED BY <2>1, <2>3 DEF Boxes
<1>2. \A u \in Uids \ UidsOf(P) : Boxes(P, c)[u] = <<>>
  BY DEF Boxes, Live, UidsOf
<1>3. Boxes(P, c) = [u \in Uids |-> Boxes(P, c)[u]]
  BY DEF Boxes
<1> QED BY <1>1, <1>2, <1>3

LEMMA UidsOwned ==
    /\ MailInv => OwnUids(procs)
    /\ MailInv' => OwnUids(procs')
<1>1. MailInv => OwnUids(procs)
  <2> SUFFICES ASSUME MailInv PROVE OwnUids(procs)
    OBVIOUS
  <2>1. /\ procs \in Seq(Process) /\ uid \in Nat /\ uid <= MaxUid /\ MaxUid \in Nat
        /\ \A i \in Live(procs) : procs[i].uid <= uid
        /\ \A i, j \in Live(procs) : procs[i].uid = procs[j].uid => i = j
    BY KernelAssumption DEF MailInv, KernelInv, RestOK, Sound, TableOK, UidsOK
  <2> QED BY <2>1, LiveProcess DEF OwnUids, Uids
<1>2. MailInv' => OwnUids(procs')
  <2> SUFFICES ASSUME MailInv' PROVE OwnUids(procs')
    OBVIOUS
  <2>1. /\ procs' \in Seq(Process) /\ uid' \in Nat /\ uid' <= MaxUid
        /\ MaxUid \in Nat
        /\ \A i \in Live(procs') : procs'[i].uid <= uid'
        /\ \A i, j \in Live(procs') : procs'[i].uid = procs'[j].uid => i = j
    BY KernelAssumption DEF MailInv, KernelInv, RestOK, Sound, TableOK, UidsOK
  <2> QED BY <2>1, LiveProcess DEF OwnUids, Uids
<1> QED BY <1>1, <1>2

LEMMA InboxIsBoxes ==
    LET inbox == [u \in Uids |-> IF \E i \in DOMAIN procs : Holds(i, u)
                                 THEN Unread(CHOOSE i \in DOMAIN procs : Holds(i, u))
                                 ELSE <<>>]
    IN  inbox = Boxes(procs, cpu) /\ inbox' = Boxes(procs', cpu')
BY DEF Boxes, Owner, Holds, Unread, Given, Box, At, Mine

(* The steps of the mailboxes, on the tables.                              *)
LEMMA DeliverMapped ==
    ASSUME \A u \in Uids :
              IF u \in LiveUids THEN Mail!IsPrefix(Boxes(procs, cpu)[u],
                                    Boxes(procs', cpu')[u])
              ELSE Boxes(procs', cpu')[u] = Boxes(procs, cpu)[u],
           LiveUids' = LiveUids, Gone' = Gone
    PROVE  Mail!Deliver
BY InboxIsBoxes DEF Mail!Deliver, Gone

LEMMA ReadMapped ==
    ASSUME NEW u \in LiveUids, Boxes(procs, cpu)[u] # <<>>,
           Boxes(procs', cpu') = [Boxes(procs, cpu) EXCEPT ![u] = Tail(@)],
           LiveUids' = LiveUids, Gone' = Gone
    PROVE  Mail!Read(u)
BY InboxIsBoxes DEF Mail!Read, Gone

LEMMA BornMapped ==
    ASSUME NEW u, u \notin LiveUids \cup Gone,
           Boxes(procs', cpu') = Boxes(procs, cpu),
           LiveUids' = LiveUids \cup {u}, Gone' = Gone
    PROVE  Mail!Born(u)
BY InboxIsBoxes DEF Mail!Born, Gone

LEMMA DieMapped ==
    ASSUME NEW u \in LiveUids,
           Boxes(procs', cpu') = [Boxes(procs, cpu) EXCEPT ![u] = <<>>],
           LiveUids' = LiveUids \ {u}, Gone' = Gone \cup {u}
    PROVE  Mail!Die(u)
BY InboxIsBoxes DEF Mail!Die, Gone

LEMMA PrefixOfMore ==
    ASSUME NEW s \in Seq(Event), NEW t \in Seq(Event)
    PROVE  Mail!IsPrefix(s, s \o t)
<1> DEFINE r == s \o t
           n == Len(s)
<1>1. /\ r \in Seq(Event) /\ Len(r) = n + Len(t) /\ n \in Nat /\ Len(t) \in Nat
      /\ \A i \in 1..n : r[i] = s[i]
  BY ConcatProperties, LenProperties
<1> HIDE DEF r
<1>2. /\ SubSeq(s, 1, n) \in Seq(Event) /\ Len(SubSeq(s, 1, n)) = n
      /\ \A i \in 1..n : SubSeq(s, 1, n)[i] = s[i]
  BY <1>1, SubSeqProperties
<1>3. /\ SubSeq(r, 1, n) \in Seq(Event) /\ Len(SubSeq(r, 1, n)) = n
      /\ \A i \in 1..n : SubSeq(r, 1, n)[i] = r[i]
  BY <1>1, SubSeqProperties
<1>4. SubSeq(s, 1, n) = SubSeq(r, 1, n)
  BY <1>1, <1>2, <1>3, SeqEqual
<1> QED BY <1>1, <1>4 DEF Mail!IsPrefix, r

LEMMA StepRefines ==
    ASSUME MailInv, MailInv', Arrives \/ Takes \/ Comes \/ Goes
    PROVE  Mail!Next
<1> DEFINE B == Boxes(procs, cpu)
           C == Boxes(procs', cpu')
<1>1. /\ B = [u \in Uids |-> B[u]]
      /\ \A i \in Live(procs) : procs[i].uid \in Uids /\ B[procs[i].uid] = Unread(i)
      /\ \A u \in Uids \ LiveUids : B[u] = <<>>
      /\ \A i, j \in Live(procs) : procs[i].uid = procs[j].uid => i = j
  BY UidsOwned, BoxesOf, UnreadIsBox DEF OwnUids, UidsOf, LiveUids
<1>2. /\ C = [u \in Uids |-> C[u]]
      /\ \A i \in Live(procs') : C[procs'[i].uid] = Unread(i)'
      /\ \A u \in Uids \ LiveUids' : C[u] = <<>>
      /\ \A i \in Live(procs') : procs'[i].uid \in Uids
  BY UidsOwned, BoxesOf, UnreadIsBox DEF OwnUids, UidsOf, LiveUids
<1>3. \A u \in LiveUids : \E i \in Live(procs) : procs[i].uid = u
  BY DEF LiveUids
<1>4. \A i \in Live(procs) : i \in DOMAIN procs /\ procs[i].uid \in LiveUids
  BY DEF Live, LiveUids
<1> HIDE DEF B, C
<1>5. CASE Arrives
  <2>1. LiveUids' = LiveUids /\ Live(procs') = Live(procs) /\ Gone' = Gone
    BY <1>5, SimilarUids, SimilarLive DEF Arrives, Grows
  <2>2. ASSUME NEW u \in Uids
        PROVE  IF u \in LiveUids THEN Mail!IsPrefix(B[u], C[u]) ELSE C[u] = B[u]
    <3>1. CASE u \in LiveUids
      <4>1. PICK i \in Live(procs) : procs[i].uid = u
        BY <1>3, <3>1
      <4>2. i \in DOMAIN procs /\ i \in Live(procs') /\ procs'[i].uid = u
        BY <1>4, <1>5, <2>1, <4>1 DEF Arrives, Grows, Similar
      <4>3. B[u] = Unread(i) /\ C[u] = Unread(i)'
        BY <1>1, <1>2, <4>1, <4>2
      <4>4. PICK s \in Seq(Event) : Unread(i)' = Unread(i) \o s
        BY <1>5, <4>2 DEF Arrives, Grows
      <4>5. Unread(i) \in Seq(Event)
        <5>1. procs[i] \in Process
          BY <4>2 DEF MailInv, Sound, TableOK
        <5> QED BY <5>1, MineType, UnreadIsBox DEF Box
      <4> QED BY <3>1, <4>3, <4>4, <4>5, PrefixOfMore
    <3>2. CASE u \notin LiveUids
      BY <1>1, <1>2, <2>1, <3>2
    <3> QED BY <3>1, <3>2
  <2>3. Mail!Deliver
    BY <2>1, <2>2, DeliverMapped DEF B, C
  <2> QED BY <2>3 DEF Mail!Next
<1>6. CASE Takes
  <2>1. LiveUids' = LiveUids /\ Live(procs') = Live(procs) /\ Gone' = Gone
    BY <1>6, SimilarUids, SimilarLive DEF Takes
  <2>2. PICK i \in Live(procs) :
           /\ Unread(i) # <<>> /\ Unread(i)' = Tail(Unread(i))
           /\ \A j \in DOMAIN procs \ {i} : Unread(j)' = Unread(j)
    BY <1>6 DEF Takes
  <2>3. PICK u : u = procs[i].uid
    OBVIOUS
  <2>4. u \in LiveUids /\ u \in Uids /\ B[u] # <<>>
    BY <1>1, <1>4, <2>2, <2>3
  <2>5. ASSUME NEW w \in Uids
        PROVE  C[w] = IF w = u THEN Tail(B[w]) ELSE B[w]
    <3>1. CASE w \in LiveUids
      <4>1. PICK j \in Live(procs) : procs[j].uid = w
        BY <1>3, <3>1
      <4>2. j \in DOMAIN procs /\ j \in Live(procs') /\ procs'[j].uid = w
        BY <1>4, <1>6, <2>1, <4>1 DEF Takes, Similar
      <4>3. B[w] = Unread(j) /\ C[w] = Unread(j)'
        BY <1>1, <1>2, <4>1, <4>2
      <4> QED BY <1>1, <2>2, <2>3, <4>1, <4>2, <4>3
    <3>2. CASE w \notin LiveUids
      BY <1>1, <1>2, <2>1, <2>4, <3>2
    <3> QED BY <3>1, <3>2
  <2>6. C = [B EXCEPT ![u] = Tail(@)]
    BY <1>1, <1>2, <2>4, <2>5
  <2>7. Mail!Read(u)
    BY <2>1, <2>4, <2>6, ReadMapped DEF B, C
  <2> QED BY <2>4, <2>7 DEF Mail!Next
<1>7. CASE Comes
  <2>1. PICK k \in DOMAIN procs' :
           /\ k \notin Live(procs) /\ Live(procs') = Live(procs) \cup {k}
           /\ procs'[k].uid \notin LiveUids \cup Gone /\ Unread(k)' = <<>>
           /\ Untouched(Live(procs))
    BY <1>7 DEF Comes
  <2>2. PICK u : u = procs'[k].uid
    OBVIOUS
  <2>3. LiveUids' = LiveUids \cup {u} /\ Gone' = Gone
    BY <1>7, <2>1, <2>2 DEF Comes, LiveUids, Untouched
  <2>4. u \in Uids /\ u \notin LiveUids \cup Gone /\ C[u] = <<>>
    BY <1>2, <2>1, <2>2
  <2>5. ASSUME NEW w \in Uids PROVE C[w] = B[w]
    <3>1. CASE w \in LiveUids
      <4>1. PICK j \in Live(procs) : procs[j].uid = w
        BY <1>3, <3>1
      <4>2. j \in Live(procs') /\ procs'[j].uid = w /\ Unread(j)' = Unread(j)
        BY <2>1, <4>1 DEF Untouched
      <4> QED BY <1>1, <1>2, <4>1, <4>2
    <3>2. CASE w = u
      BY <1>1, <2>4, <3>2
    <3>3. CASE w \notin LiveUids /\ w # u
      BY <1>1, <1>2, <2>3, <3>3
    <3> QED BY <3>1, <3>2, <3>3
  <2>6. C = B
    BY <1>1, <1>2, <2>5
  <2>7. Mail!Born(u)
    BY <2>3, <2>4, <2>6, BornMapped DEF B, C
  <2> QED BY <2>4, <2>7 DEF Mail!Next
<1>8. CASE Goes
  <2>1. PICK i \in Live(procs) :
           /\ Live(procs') = Live(procs) \ {i} /\ Untouched(Live(procs) \ {i})
           /\ LiveUids' = LiveUids \ {procs[i].uid}
           /\ Gone' = Gone \cup {procs[i].uid}
    BY <1>8 DEF Goes
  <2>2. PICK u : u = procs[i].uid
    OBVIOUS
  <2>3. /\ LiveUids' = LiveUids \ {u} /\ Gone' = Gone \cup {u}
        /\ u \in LiveUids /\ u \in Uids
    BY <1>1, <1>4, <2>1, <2>2
  <2>4. ASSUME NEW w \in Uids
        PROVE  C[w] = IF w = u THEN <<>> ELSE B[w]
    <3>1. CASE w \in LiveUids /\ w # u
      <4>1. PICK j \in Live(procs) : procs[j].uid = w
        BY <1>3, <3>1
      <4>2. j \in Live(procs) \ {i} /\ j \in Live(procs')
        BY <2>1, <2>2, <3>1, <4>1
      <4>3. procs'[j].uid = w /\ Unread(j)' = Unread(j)
        BY <2>1, <4>1, <4>2 DEF Untouched
      <4> QED BY <1>1, <1>2, <3>1, <4>1, <4>2, <4>3
    <3>2. CASE w \notin LiveUids \/ w = u
      BY <1>1, <1>2, <2>3, <3>2
    <3> QED BY <3>1, <3>2
  <2>5. C = [B EXCEPT ![u] = <<>>]
    BY <1>1, <1>2, <2>3, <2>4
  <2>6. Mail!Die(u)
    BY <2>3, <2>5, DieMapped DEF B, C
  <2> QED BY <2>3, <2>6 DEF Mail!Next
<1> QED BY <1>5, <1>6, <1>7, <1>8

LEMMA InitRefines == Init => Mail!Init
<1> SUFFICES ASSUME Init PROVE Mail!Init
  OBVIOUS
<1>1. MailInv
  BY MailInit
<1>2. /\ procs[1].uid = 0 /\ procs[1].events = <<>> /\ procs[1].regs = "main"
      /\ procs[1].status = "SUSPENDED" /\ DOMAIN procs = {1} /\ cpu.slot = 0
      /\ procs[1] \in Process
  <2>1. PICK susp \in UninitTimes, run \in UninitTimes :
           procs = <<AliveProcess(susp, run)>>
    BY DEF Init
  <2>2. procs[1] = AliveProcess(susp, run) /\ DOMAIN procs = {1}
    BY <2>1
  <2>3. ALIVE \in DOMAIN procs /\ procs[ALIVE] \in Process
    BY <1>1 DEF MailInv, Sound, TableOK
  <2> QED BY <2>2, <2>3 DEF AliveProcess, Init, NoSlot, ALIVE
<1>3. Live(procs) = {1}
  BY <1>2 DEF Live
<1>4. LiveUids = {0}
  BY <1>2, <1>3 DEF LiveUids
<1>5. Unread(1) = <<>>
  <2>1. Mine(procs[1], "main") = <<>>
    BY <1>2, MineQueue
  <2> QED BY <1>2, <2>1, UnreadIsBox DEF Box, At
<1>6. Boxes(procs, cpu) = [u \in Uids |-> <<>>]
  <2>1. ASSUME NEW u \in Uids PROVE Boxes(procs, cpu)[u] = <<>>
    <3>1. CASE u \in UidsOf(procs)
      <4>1. 1 \in Live(procs) /\ u = procs[1].uid
        BY <1>3, <3>1 DEF UidsOf
      <4> QED BY <1>1, <1>5, <4>1, UidsOwned, BoxesOf, UnreadIsBox
    <3>2. CASE u \notin UidsOf(procs)
      BY <1>1, <3>2, UidsOwned, BoxesOf
    <3> QED BY <3>1, <3>2
  <2>2. Boxes(procs, cpu) = [u \in Uids |-> Boxes(procs, cpu)[u]]
    BY <1>1, UidsOwned, BoxesOf
  <2> DEFINE B == Boxes(procs, cpu)
  <2>3. B = [u \in Uids |-> B[u]] /\ \A u \in Uids : B[u] = <<>>
    BY <2>1, <2>2
  <2> HIDE DEF B
  <2>4. B = [u \in Uids |-> <<>>]
    BY <2>3
  <2> QED BY <2>4 DEF B
<1>7. Gone = {}
  BY <1>4 DEF Gone, Init, Pending, NoStart
<1> QED BY <1>4, <1>6, <1>7, InboxIsBoxes DEF Mail!Init, Gone

(* The event queues, current_event and the registers implement mailboxes:  *)
(* from the moment an event is sent until its process has copied it, it is *)
(* neither lost, duplicated nor overtaken - not when the process loses the *)
(* CPU between pull_event and the copy, not when it is suspended and woken *)
(* by an interrupt, not when another dies - and no uid is given out twice. *)
THEOREM MailDelivered == Spec => DeliversMail
<1>1. MailInv /\ [Next]_vars => MailInv' /\ Mail!Next
  BY MailNext, StepRefines
<1>2. Mail!Next => [Mail!Next]_(Mail!mailVars)
  OBVIOUS
<1> QED BY <1>1, <1>2, MailInit, InitRefines, PTL
        DEF Spec, DeliversMail, Mail!Spec

-----------------------------------------------------------------------------
(* The lock: what holds as long as no process is started into a dead slot. *)
(* process_start leaves the table locked when it reuses a slot (the run    *)
(* Claim_firstrun); the theorems say that this is the only way.            *)

AllAlive(P) == \A i \in DOMAIN P : P[i].status # "DEAD"

(* While a process_start looks for a place nobody dies, so that it finds   *)
(* the table as it was when it locked it; nothing but the boot runs before *)
(* the scheduler is enabled.                                               *)
Locks ==
    /\ start.phase = "locked" => AllAlive(procs)
    /\ LockedOnlyByStart
    /\ ~enabled => cpu.ctx = "boot"
    /\ halted = "no_core" => ~\E i \in Live(procs) : procs[i].core
    /\ halted = "fault" => cpu.ctx = "user"

LockInv == OwnerInv /\ MailInv /\ Locks

(* A process behind a failed pull_event would need a table locked for good. *)
LEMMA NotBlocked ==
    ASSUME LockInv
    PROVE  cpu.ctx # "blocked"
BY DEF LockInv, Locks, LockedOnlyByStart, MailInv, Sound, BlockedOK

LEMMA SimilarAlive ==
    ASSUME Similar(procs, procs'), AllAlive(procs)
    PROVE  AllAlive(procs')
BY DEF Similar, AllAlive

(* A step of the running kernel that neither starts nor ends a             *)
(* process_start, and kills nobody.                                        *)
LEMMA LocksStay ==
    ASSUME LockInv, Similar(procs, procs'), halted = "no", halted' = "no",
           UNCHANGED <<uid, enabled, can_update, start>>,
           enabled \/ cpu' = cpu
    PROVE  Locks'
<1>1. start'.phase = "locked" => AllAlive(procs')
  BY SimilarAlive DEF LockInv, Locks
<1>2. LockedOnlyByStart'
  BY DEF LockInv, Locks, LockedOnlyByStart
<1>3. ~enabled' => cpu'.ctx = "boot"
  BY DEF LockInv, Locks
<1>4. AllAlive(procs)' <=> AllAlive(procs')
  BY DEF AllAlive
<1> QED BY <1>1, <1>2, <1>3, <1>4 DEF Locks

LEMMA LocksHalt ==
    ASSUME LockInv, NEW reason, Halt(reason),
           reason = "no_core" => ~\E i \in Live(procs) : procs[i].core,
           reason = "fault" => cpu.ctx = "user"
    PROVE  Locks'
BY DEF LockInv, Locks, LockedOnlyByStart, Halt, AllAlive, Live

LEMMA LockNext ==
    ASSUME ~ReuseSlots, LockInv, [Next]_vars
    PROVE  LockInv'
<1>0. OwnerInv' /\ MailInv'
  BY OwnerNext, MailNext DEF LockInv
<1> SUFFICES Locks'
  BY <1>0 DEF LockInv
<1>i. MailInv /\ procs \in Seq(Process) /\ KernelInv
  BY DEF LockInv, MailInv, Sound, TableOK
<1>u. ASSUME InProcess("user") \/ InProcess("main") \/ InProcess("event")
      PROVE  enabled /\ halted = "no" /\ start.phase = "idle"
  BY <1>u DEF LockInv, Locks, InProcess
<1>1. CASE BootStart \/ \E user \in Users : ProcessStart(user)
  <2>1. PICK user, core : BeginStart(user, core) /\ halted = "no"
    BY <1>1 DEF BootStart, ProcessStart, InProcess
  <2>2. AllAlive(procs)
    <3>1. DeadSlot(procs) = NoSlot
      BY <2>1 DEF BeginStart
    <3> QED BY <1>i, <3>1, NoneDead DEF AllAlive
  <2>3. /\ start'.phase = "locked"
        /\ UNCHANGED <<procs, enabled, cpu, halted>>
    BY <2>1 DEF BeginStart
  <2> QED BY <2>1, <2>2, <2>3 DEF LockInv, Locks, LockedOnlyByStart, AllAlive
<1>2. CASE InsertProcess
  <2>1. DeadSlot(procs) = NoSlot
    <3>1. AllAlive(procs)
      BY <1>2 DEF InsertProcess, LockInv, Locks
    <3> QED BY <1>i, <3>1, DeadSlotFound DEF AllAlive
  <2>2. /\ start' = [start EXCEPT !.phase = "pushed"] /\ halted = "no"
        /\ UNCHANGED <<enabled, can_update, cpu, halted>>
    BY <1>2, <2>1 DEF InsertProcess
  <2>3. start'.phase = "pushed"
    BY <1>i, <2>2 DEF KernelInv, RestOK
  <2> QED BY <2>2, <2>3 DEF LockInv, Locks, LockedOnlyByStart
<1>3. CASE UnlockTable
  BY <1>3 DEF UnlockTable, NoStart, LockInv, Locks, LockedOnlyByStart
<1>4. CASE StartAlive
  <2>1. can_update'
    BY <1>4
    DEF StartAlive, InProcess, LockInv, Locks, LockedOnlyByStart
  <2>2. /\ start'.phase = "idle" /\ enabled' /\ halted' = "no"
    BY <1>4 DEF StartAlive, InProcess
  <2> QED BY <2>1, <2>2 DEF Locks, LockedOnlyByStart
<1>5. CASE AliveWait
  <2>1. /\ InProcess("main") /\ halted' = halted
        /\ UNCHANGED <<uid, enabled, can_update, start>>
    BY <1>5 DEF AliveWait
  <2> QED BY <1>5, <1>i, <1>u, <2>1, AliveWaitMail, LocksStay DEF Quiet
<1>6. CASE PullEvent
  <2>1. /\ InProcess("user") /\ halted' = halted
        /\ UNCHANGED <<uid, enabled, can_update, start>>
    BY <1>6, <1>i, CallerSettled DEF PullEvent
  <2> QED BY <1>6, <1>i, <1>u, <2>1, PullEventMail, LocksStay DEF Quiet
<1>7. CASE \E target \in 0..MaxUid, event \in UserEvents :
              QueueEvent(target, event)
  <2>1. PICK target \in 0..MaxUid, event \in UserEvents :
           QueueEvent(target, event)
    BY <1>7
  <2>2. /\ InProcess("user") /\ halted' = halted
        /\ UNCHANGED <<uid, enabled, can_update, start>>
    BY <1>i, <2>1, CallerSettled DEF QueueEvent
  <2> QED BY <1>i, <1>u, <2>1, <2>2, QueueEventMail, LocksStay DEF Sent
<1>8. CASE \E target \in 0..MaxUid : Kill(target)
  <2>1. PICK target \in 0..MaxUid : Kill(target)
    BY <1>8
  <2>2. InProcess("user") /\ enabled /\ halted = "no" /\ cpu.ctx = "user"
    BY <1>u, <2>1 DEF Kill, InProcess
  <2>3. CASE Halt("fault")
    BY <2>2, <2>3, LocksHalt
  <2>4. CASE \E i \in Live(procs) : i # ALIVE /\ ProcessKill(i)
    <3>1. /\ can_update' /\ enabled' /\ halted' = "no" /\ start' = start
      BY <2>2, <2>4 DEF ProcessKill
    <3> QED BY <2>2, <3>1 DEF Locks, LockedOnlyByStart, InProcess
  <2> QED BY <1>i, <2>1, <2>3, <2>4, KillMailCases
<1>9. CASE \E delay \in Delays : StartTimer(delay)
  <2>1. PICK delay \in Delays : StartTimer(delay)
    BY <1>9
  <2>2. /\ InProcess("user") /\ halted' = halted
        /\ UNCHANGED <<uid, enabled, can_update, start>>
    BY <1>i, <2>1, CallerSettled DEF StartTimer
  <2> QED BY <1>i, <1>u, <2>1, <2>2, StartTimerMail, LocksStay DEF Quiet
<1>10. CASE \E id \in 0..MaxTimerId : CancelTimer(id)
  <2>1. PICK id \in 0..MaxTimerId : CancelTimer(id)
    BY <1>10
  <2>2. /\ InProcess("user") /\ halted' = halted
        /\ UNCHANGED <<uid, enabled, can_update, start>>
    BY <1>i, <2>1, CallerSettled DEF CancelTimer
  <2> QED BY <1>i, <1>u, <2>1, <2>2, CancelTimerMail, LocksStay DEF Quiet
<1>11. CASE ReadEvent
  <2>1. /\ InProcess("event") /\ halted' = halted
        /\ UNCHANGED <<uid, enabled, can_update, start>>
    BY <1>11 DEF ReadEvent
  <2> QED BY <1>11, <1>i, <1>u, <2>1, ReadEventMail, LocksStay
<1>12. CASE ReadNothing
  BY <1>12, NotBlocked DEF ReadNothing, InProcess
<1>13. CASE TimerIRQ
  <2>1. Orphans(procs, timers) = {}
    BY NoOrphans DEF LockInv
  <2>2. /\ halted = "no" /\ halted' = "no"
        /\ UNCHANGED <<uid, enabled, can_update, start>>
        /\ TimerUpdate(PostExpired(procs, timers))
    BY <1>13, <2>1 DEF TimerIRQ
  <2>3. enabled \/ cpu' = cpu
    BY <2>2 DEF TimerUpdate
  <2> QED BY <1>13, <1>i, <2>2, <2>3, TimerIRQMail, LocksStay
          DEF Quiet, Ticked
<1>14. CASE \E burst \in KeyBursts : KeyboardIRQ(burst)
  <2>1. PICK burst \in KeyBursts : KeyboardIRQ(burst)
    BY <1>14
  <2>2. CASE CoreSlot(procs) = NoSlot
    <3>1. Halt("no_core")
      BY <2>1, <2>2 DEF KeyboardIRQ
    <3> QED BY <1>i, <2>2, <3>1, CoreSlotNone, LocksHalt
  <2>3. CASE CoreSlot(procs) # NoSlot
    <3>1. /\ halted = "no" /\ halted' = "no" /\ cpu' = cpu
          /\ UNCHANGED <<uid, enabled, can_update, start>>
      BY <2>1, <2>3 DEF KeyboardIRQ
    <3> QED BY <1>i, <2>1, <3>1, KeyboardMail, LocksStay DEF Quiet, Sent
  <2> QED BY <2>2, <2>3
<1>15. CASE UNCHANGED vars
  BY <1>15 DEF LockInv, Locks, LockedOnlyByStart, AllAlive, Live, vars
<1> QED
  BY <1>1, <1>2, <1>3, <1>4, <1>5, <1>6, <1>7, <1>8, <1>9, <1>10, <1>11,
     <1>12, <1>13, <1>14, <1>15 DEF Next, Boot, Syscall

(* process.c:272-288: while the table is locked somebody is starting a     *)
(* process, and nobody dies meanwhile.                                     *)
THEOREM LockInvariant ==
    ASSUME ~ReuseSlots
    PROVE  Spec => []LockInv
<1>1. Init => LockInv
  <2> SUFFICES ASSUME Init PROVE LockInv
    OBVIOUS
  <2>1. OwnerInv
    BY InitOwned
  <2>2. Locks
    BY DEF Init, NoStart, Locks, LockedOnlyByStart
  <2> QED BY <2>1, <2>2, MailInit DEF LockInv
<1>2. LockInv /\ [Next]_vars => LockInv'
  BY LockNext
<1> QED BY <1>1, <1>2, PTL DEF Spec

(* Without a reused slot the table is never left locked: while the         *)
(* scheduler is kept out, a process_start is under way.                    *)
THEOREM NeverLockedForGood ==
    ASSUME ~ReuseSlots
    PROVE  Spec => []LockedOnlyByStart
<1>1. LockInv => LockedOnlyByStart
  BY DEF LockInv, Locks
<1> QED BY <1>1, LockInvariant, PTL

(* ... no process goes on behind a pull_event without an event ...         *)
THEOREM PullReturns ==
    ASSUME ~ReuseSlots
    PROVE  Spec => []PullReturnsEvent
<1>1. LockInv => PullReturnsEvent
  BY NotBlocked DEF PullReturnsEvent
<1> QED BY <1>1, LockInvariant, PTL

(* ... and the two remaining ways for the kernel to stop are a key that no *)
(* core process is there to take and a process_kill of an unknown uid.     *)
THEOREM HaltsForTarget ==
    ASSUME ~ReuseSlots
    PROVE  Spec => []HaltsOnlyWithoutTarget
<1>1. LockInv => HaltsOnlyWithoutTarget
  BY DEF LockInv, Locks, OwnerInv, KernelInv, RestOK, HaltReasons,
         HaltsOnlyWithoutTarget
<1> QED BY <1>1, LockInvariant, PTL
=============================================================================
