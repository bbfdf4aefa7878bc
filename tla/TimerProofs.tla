---------------------------- MODULE TimerProofs ----------------------------
(***************************************************************************)
(* A timer fires at most once: the theorem about timer.c and the event     *)
(* queues, for every value of Kernel.tla's constants.                      *)
(*                                                                         *)
(* The invariant (Once) is about the ids: those of the unfinished timers   *)
(* and those of the TIMER events nobody has read yet are all different,    *)
(* and all were given out by timer_start.  A tick moves the id of every    *)
(* timer that expires from the one side to the other; every other step     *)
(* only removes ids, or adds the one that timer_start has just counted up  *)
(* to.                                                                     *)
(***************************************************************************)
EXTENDS MailProofs

(* The timers that have not fired, and the places of the TIMER events in a *)
(* sequence of events.                                                     *)
Waiting(T) == {k \in DOMAIN T : ~T[k].finished}
Told(s) == {m \in DOMAIN s : s[m].kind = "TIMER"}

(* U is what each live process has not read, T the timer table, n the last *)
(* id that timer_start gave out.                                           *)
Once(U, T, n) ==
    /\ \A k \in Waiting(T) : T[k].id \in 1..n
    /\ \A j, k \in Waiting(T) : T[j].id = T[k].id => j = k
    /\ \A i \in DOMAIN U : \A m \in Told(U[i]) :
          /\ U[i][m].id \in 1..n
          /\ \A k \in Waiting(T) : T[k].id # U[i][m].id
    /\ \A i, j \in DOMAIN U : \A m \in Told(U[i]), o \in Told(U[j]) :
          U[i][m].id = U[j][o].id => i = j /\ m = o

Unreads == [i \in Live(procs) |-> Unread(i)]

OnceInv == MailInv /\ Once(Unreads, timers, ids)

-----------------------------------------------------------------------------
(* Ids.                                                                    *)

(* A place in s \o e is one in s or one in e.                              *)
LEMMA PlaceInConcat ==
    ASSUME NEW s \in Seq(Event), NEW e \in Seq(Event), NEW m \in DOMAIN (s \o e)
    PROVE  \/ m \in DOMAIN s /\ (s \o e)[m] = s[m]
           \/ /\ m > Len(s) /\ m - Len(s) \in DOMAIN e
              /\ (s \o e)[m] = e[m - Len(s)]
<1> DEFINE S == Event
<1>1. s \in Seq(S) /\ e \in Seq(S) /\ m \in DOMAIN (s \o e)
  OBVIOUS
<1> HIDE DEF S
<1> QED BY <1>1

(* Timers are cancelled, unread events are read (the first d[i] of slot    *)
(* i), are dropped with their process, or are joined by events that are    *)
(* not timers': no id is added.                                            *)
LEMMA OnceFades ==
    ASSUME NEW U, NEW V, NEW T, NEW S, NEW n, Once(U, T, n),
           NEW d \in [DOMAIN V -> Nat],
           \A i \in DOMAIN V : \A m \in Told(V[i]) :
              /\ m \in Nat
              /\ i \in DOMAIN U /\ m + d[i] \in Told(U[i])
              /\ V[i][m].id = U[i][m + d[i]].id,
           \A k \in Waiting(S) : k \in Waiting(T) /\ S[k].id = T[k].id
    PROVE  Once(V, S, n)
<1>1. \A k \in Waiting(S) : S[k].id \in 1..n
  BY DEF Once
<1>2. \A j, k \in Waiting(S) : S[j].id = S[k].id => j = k
  BY DEF Once
<1>3. ASSUME NEW i \in DOMAIN V, NEW m \in Told(V[i])
      PROVE  /\ V[i][m].id \in 1..n
             /\ \A k \in Waiting(S) : S[k].id # V[i][m].id
  BY <1>3 DEF Once
<1>4. ASSUME NEW i \in DOMAIN V, NEW j \in DOMAIN V,
             NEW m \in Told(V[i]), NEW o \in Told(V[j]),
             V[i][m].id = V[j][o].id
      PROVE  i = j /\ m = o
  <2>1. i = j /\ m + d[i] = o + d[j]
    BY <1>4 DEF Once
  <2>2. m \in Nat /\ o \in Nat /\ d[i] \in Nat
    OBVIOUS
  <2> QED BY <2>1, <2>2
<1> QED BY <1>1, <1>2, <1>3, <1>4 DEF Once

(* timer_start gives out the next id, to one timer.                        *)
LEMMA OnceStarts ==
    ASSUME NEW U, NEW T, NEW S, NEW n \in Nat, Once(U, T, n),
           NEW new \in DOMAIN S, S[new].id = n + 1,
           \A k \in DOMAIN S \ {new} : k \in DOMAIN T /\ S[k] = T[k]
    PROVE  Once(U, S, n + 1)
<1>1. \A k \in Waiting(S) : \/ k = new
                            \/ k # new /\ k \in Waiting(T) /\ S[k] = T[k]
  BY DEF Waiting
<1>2. \A k \in Waiting(T) : T[k].id \in 1..n
  BY DEF Once
<1>3. \A k \in Waiting(S) : S[k].id \in 1..(n + 1) /\ (S[k].id = n + 1 => k = new)
  BY <1>1, <1>2
<1>4. \A j, k \in Waiting(S) : S[j].id = S[k].id => j = k
  BY <1>1, <1>3 DEF Once
<1>5. ASSUME NEW i \in DOMAIN U, NEW m \in Told(U[i])
      PROVE  /\ U[i][m].id \in 1..(n + 1)
             /\ \A k \in Waiting(S) : S[k].id # U[i][m].id
  <2>1. U[i][m].id \in 1..n /\ \A k \in Waiting(T) : T[k].id # U[i][m].id
    BY DEF Once
  <2> QED BY <1>1, <2>1
<1> QED BY <1>3, <1>4, <1>5 DEF Once

-----------------------------------------------------------------------------
(* The steps.                                                              *)

LEMMA UnreadType ==
    ASSUME MailInv, NEW i \in DOMAIN procs
    PROVE  Unread(i) \in Seq(Event)
<1>1. procs[i] \in Process
  BY DEF MailInv, Sound, TableOK
<1> QED BY <1>1, UnreadIsBox, MineType DEF Box

LEMMA UnreadsAre ==
    /\ DOMAIN Unreads = Live(procs)
    /\ \A i \in Live(procs) : Unreads[i] = Unread(i)
    /\ DOMAIN Unreads' = Live(procs')
    /\ \A i \in Live(procs') : Unreads'[i] = Unread(i)'
<1>1. Unreads' = [i \in Live(procs') |-> Unread(i)']
  BY DEF Unreads
<1> QED BY <1>1 DEF Unreads

(* The TIMER events of t, of the process in slot i: those that s has as    *)
(* well, and those of timers that expire, each named by f.                 *)
Named(f, s, t, i) ==
    /\ f \in [Told(t) -> {NoSlot} \cup DOMAIN timers]
    /\ \A m \in Told(t) :
          IF f[m] = NoSlot
          THEN m \in Told(s) /\ t[m] = s[m]
          ELSE /\ Expires(timers[f[m]])
               /\ Lookup(procs, timers[f[m]].uid) = i
               /\ t[m].id = timers[f[m]].id
    /\ \A m, o \in Told(t) : f[m] = f[o] /\ f[m] # NoSlot => m = o

(* After a tick, a TIMER event was unread before or is an expired timer's. *)
LEMMA TickTells ==
    ASSUME MailInv, Ticked, NEW i \in Live(procs)
    PROVE  \E f : Named(f, Unread(i), Unread(i)', i)
<1> DEFINE e == TimerEventsFor(procs, timers, i)
<1>1. /\ timers \in Seq(Timer) /\ i \in DOMAIN procs
      /\ procs \in Seq(Process) /\ i # NoSlot
  BY DEF MailInv, KernelInv, RestOK, Sound, TableOK, Live, NoSlot
<1>2. PICK order \in [DOMAIN e -> DOMAIN timers] :
         /\ \A m \in DOMAIN e : /\ Expires(timers[order[m]])
                               /\ Lookup(procs, timers[order[m]].uid) = i
                               /\ e[m] = TimerEvent(timers[order[m]])
         /\ \A m, o \in DOMAIN e : order[m] = order[o] => m = o
  <2>1. FromExpiring(e, procs, timers, i)
    BY <1>1, TimerEventsForSpec
  <2> HIDE DEF e
  <2> QED BY <2>1 DEF FromExpiring
<1>3. e \in Seq(Event)
  BY <1>1, TimerEventsForSpec
<1>4. PICK s : s = Unread(i)
  OBVIOUS
<1>5. PICK t : t = Unread(i)'
  OBVIOUS
<1>6. s \in Seq(Event) /\ Len(s) \in Nat
  BY <1>1, <1>4, UnreadType, LenProperties
<1>7. t = s \o e
  BY <1>1, <1>4, <1>5 DEF Ticked
<1> HIDE DEF e
<1>8. \A m \in DOMAIN t : \/ m \in DOMAIN s /\ t[m] = s[m]
                         \/ /\ m \notin DOMAIN s /\ m - Len(s) \in DOMAIN e
                            /\ t[m] = e[m - Len(s)]
  <2> TAKE m \in DOMAIN t
  <2>1. \/ m \in DOMAIN s /\ t[m] = s[m]
        \/ /\ m > Len(s) /\ m - Len(s) \in DOMAIN e
           /\ t[m] = e[m - Len(s)]
    BY <1>3, <1>6, <1>7, PlaceInConcat
  <2>2. m > Len(s) => m \notin DOMAIN s
    BY <1>6, LenProperties
  <2> QED BY <2>1, <2>2
<1>9. \A m \in DOMAIN t : m \in Nat
  BY <1>3, <1>6, <1>7
<1> DEFINE f == [m \in Told(t) |-> IF m \in DOMAIN s THEN NoSlot
                                   ELSE order[m - Len(s)]]
<1>10. \A m \in Told(t) : m \notin DOMAIN s =>
          /\ m - Len(s) \in DOMAIN e /\ f[m] = order[m - Len(s)]
          /\ f[m] \in DOMAIN timers /\ f[m] # NoSlot
  <2> SUFFICES ASSUME NEW m \in Told(t), m \notin DOMAIN s
               PROVE  /\ m - Len(s) \in DOMAIN e /\ f[m] = order[m - Len(s)]
                      /\ f[m] \in DOMAIN timers /\ f[m] # NoSlot
    OBVIOUS
  <2>1. f[m] = order[m - Len(s)]
    OBVIOUS
  <2> HIDE DEF f
  <2>2. m - Len(s) \in DOMAIN e
    BY <1>8 DEF Told
  <2>3. order[m - Len(s)] \in DOMAIN timers
    BY <2>2
  <2>4. \A k \in DOMAIN timers : k # NoSlot
    BY <1>1, LenProperties DEF NoSlot
  <2> QED BY <2>1, <2>2, <2>3, <2>4
<1>11. f \in [Told(t) -> {NoSlot} \cup DOMAIN timers]
  BY <1>10
<1>12. \A m \in Told(t) :
          IF f[m] = NoSlot
          THEN m \in Told(s) /\ t[m] = s[m]
          ELSE /\ Expires(timers[f[m]]) /\ Lookup(procs, timers[f[m]].uid) = i
               /\ t[m].id = timers[f[m]].id
  <2> TAKE m \in Told(t)
  <2>1. m \in DOMAIN t /\ t[m].kind = "TIMER"
    BY DEF Told
  <2>2. CASE m \in DOMAIN s
    BY <1>8, <2>1, <2>2 DEF Told
  <2>3. CASE m \notin DOMAIN s
    <3>1. /\ f[m] # NoSlot /\ f[m] = order[m - Len(s)]
          /\ t[m] = e[m - Len(s)] /\ m - Len(s) \in DOMAIN e
      BY <1>8, <1>10, <2>1, <2>3
    <3> HIDE DEF f
    <3> QED BY <1>2, <3>1 DEF TimerEvent
  <2> QED BY <2>2, <2>3
<1>13. \A m, o \in Told(t) : f[m] = f[o] /\ f[m] # NoSlot => m = o
  <2> SUFFICES ASSUME NEW m \in Told(t), NEW o \in Told(t),
                      f[m] = f[o], f[m] # NoSlot
               PROVE  m = o
    OBVIOUS
  <2>1. m - Len(s) = o - Len(s)
    BY <1>2, <1>10
  <2>2. m \in Nat /\ o \in Nat
    BY <1>9 DEF Told
  <2> QED BY <1>6, <2>1, <2>2
<1> HIDE DEF f
<1>14. Named(f, s, t, i)
  BY <1>11, <1>12, <1>13 DEF Named
<1> QED BY <1>4, <1>5, <1>14

(* Once is about nothing else than the unread events and the timers.       *)
LEMMA QuietOnce ==
    ASSUME OnceInv, Quiet,
           \A k \in Waiting(timers') : k \in Waiting(timers)
                                       /\ timers'[k].id = timers[k].id
    PROVE  Once(Unreads', timers', ids)
<1>1. /\ Live(procs') = Live(procs)
      /\ \A i \in Live(procs) : i \in DOMAIN procs /\ Unreads'[i] = Unreads[i]
  BY SimilarLive, UnreadsAre DEF Quiet, Live
<1>2. ASSUME NEW i \in Live(procs), NEW m \in Told(Unreads'[i])
      PROVE  m \in Nat /\ m + 0 = m
  <2>1. Unreads'[i] \in Seq(Event)
    BY <1>1, UnreadsAre, UnreadType DEF OnceInv
  <2> QED BY <2>1 DEF Told
<1> DEFINE d == [i \in DOMAIN Unreads' |-> 0]
<1>3. d \in [DOMAIN Unreads' -> Nat] /\ \A i \in DOMAIN Unreads' : d[i] = 0
  OBVIOUS
<1> HIDE DEF d
<1>4. \A i \in DOMAIN Unreads' : \A m \in Told(Unreads'[i]) :
         /\ m \in Nat
         /\ i \in DOMAIN Unreads /\ m + d[i] \in Told(Unreads[i])
         /\ Unreads'[i][m].id = Unreads[i][m + d[i]].id
  BY <1>1, <1>2, <1>3, UnreadsAre
<1> QED BY <1>3, <1>4, OnceFades DEF OnceInv

(* Events that are not timers' join the unread ones.                       *)
LEMMA SentOnce ==
    ASSUME OnceInv, NEW j \in DOMAIN procs, NEW evs, Sent(j, evs),
           \A m \in DOMAIN evs : evs[m].kind # "TIMER",
           timers' = timers
    PROVE  Once(Unreads', timers', ids)
<1>1. Live(procs') = Live(procs) /\ \A i \in Live(procs) : i \in DOMAIN procs
  BY SimilarLive DEF Sent, Live
<1>2. ASSUME NEW i \in Live(procs), NEW m \in Told(Unreads'[i])
      PROVE  /\ m \in Nat /\ m + 0 = m
             /\ m \in Told(Unreads[i]) /\ Unreads'[i][m].id = Unreads[i][m].id
  <2>1. Unreads[i] = Unread(i) /\ Unreads'[i] = Unread(i)'
    BY <1>1, UnreadsAre
  <2>2. Unread(i) \in Seq(Event) /\ evs \in Seq(Event)
    BY <1>1, UnreadType DEF OnceInv, Sent
  <2>3. CASE i # j
    <3>1. Unread(i)' = Unread(i)
      BY <1>1, <2>3 DEF Sent
    <3> QED BY <2>1, <2>2, <3>1 DEF Told
  <2>4. CASE i = j
    <3>1. Unreads'[i] = Unreads[i] \o evs
      BY <2>1, <2>4 DEF Sent
    <3>2. m \in DOMAIN (Unreads[i] \o evs) /\ (Unreads[i] \o evs)[m].kind = "TIMER"
      BY <3>1 DEF Told
    <3>3. m \in DOMAIN Unreads[i] /\ (Unreads[i] \o evs)[m] = Unreads[i][m]
      BY <2>1, <2>2, <3>2, PlaceInConcat
    <3>4. m \in Nat
      BY <2>1, <2>2, <3>3
    <3> QED BY <3>1, <3>2, <3>3, <3>4 DEF Told
  <2> QED BY <2>3, <2>4
<1> DEFINE d == [i \in DOMAIN Unreads' |-> 0]
<1>3. d \in [DOMAIN Unreads' -> Nat] /\ \A i \in DOMAIN Unreads' : d[i] = 0
  OBVIOUS
<1> HIDE DEF d
<1>4. \A i \in DOMAIN Unreads' : \A m \in Told(Unreads'[i]) :
         /\ m \in Nat
         /\ i \in DOMAIN Unreads /\ m + d[i] \in Told(Unreads[i])
         /\ Unreads'[i][m].id = Unreads[i][m + d[i]].id
  BY <1>1, <1>2, <1>3, UnreadsAre
<1> QED BY <1>3, <1>4, OnceFades DEF OnceInv

(* ReadEvent: the process takes the first of its unread events.            *)
LEMMA ReadOnce ==
    ASSUME OnceInv, ReadEvent
    PROVE  Once(Unreads', timers', ids)
<1>1. PICK r \in Live(procs) :
         /\ Unread(r) # <<>> /\ Unread(r)' = Tail(Unread(r))
         /\ \A j \in DOMAIN procs \ {r} : Unread(j)' = Unread(j)
  BY ReadEventMail DEF OnceInv
<1>2. /\ Live(procs') = Live(procs) /\ timers' = timers
      /\ \A i \in Live(procs) : i \in DOMAIN procs
  BY DEF ReadEvent, Live
<1> DEFINE d == [i \in DOMAIN Unreads' |-> IF i = r THEN 1 ELSE 0]
<1>3. d \in [DOMAIN Unreads' -> Nat]
      /\ \A i \in DOMAIN Unreads' : d[i] = IF i = r THEN 1 ELSE 0
  OBVIOUS
<1> HIDE DEF d
<1>4. ASSUME NEW i \in Live(procs), NEW m \in Told(Unreads'[i])
      PROVE  /\ m \in Nat /\ m + d[i] \in Told(Unreads[i])
             /\ Unreads'[i][m].id = Unreads[i][m + d[i]].id
  <2>1. /\ Unreads[i] = Unread(i) /\ Unreads'[i] = Unread(i)'
        /\ Unread(i) \in Seq(Event) /\ d[i] = IF i = r THEN 1 ELSE 0
    BY <1>2, <1>3, UnreadsAre, UnreadType DEF OnceInv
  <2>2. CASE i # r
    <3>1. Unreads'[i] = Unreads[i] /\ d[i] = 0
      BY <1>1, <1>2, <2>1, <2>2
    <3>2. m \in Nat
      BY <2>1, <3>1 DEF Told
    <3> QED BY <3>1, <3>2
  <2>3. CASE i = r
    <3>1. /\ Unreads'[i] = Tail(Unreads[i]) /\ Unreads[i] # <<>>
          /\ Unreads[i] \in Seq(Event) /\ d[i] = 1
      BY <1>1, <2>1, <2>3
    <3>2. /\ m \in Nat /\ m + 1 \in DOMAIN Unreads[i]
          /\ Tail(Unreads[i])[m] = Unreads[i][m + 1]
      <4>1. m \in DOMAIN Tail(Unreads[i])
        BY <3>1 DEF Told
      <4> HIDE DEF Told
      <4> QED BY <3>1, <4>1, HeadTailProperties
    <3> QED BY <3>1, <3>2 DEF Told
  <2> QED BY <2>2, <2>3
<1>5. \A i \in DOMAIN Unreads' : \A m \in Told(Unreads'[i]) :
         /\ m \in Nat
         /\ i \in DOMAIN Unreads /\ m + d[i] \in Told(Unreads[i])
         /\ Unreads'[i][m].id = Unreads[i][m + d[i]].id
  BY <1>2, <1>4, UnreadsAre
<1> QED BY <1>2, <1>3, <1>5, OnceFades DEF OnceInv

(* A process comes with nothing to read, or goes with what it had.         *)
LEMMA ComesOnce ==
    ASSUME OnceInv, InsertProcess
    PROVE  Once(Unreads', timers', ids)
<1>1. PICK k \in DOMAIN procs' :
         /\ Live(procs') = Live(procs) \cup {k}
         /\ Unread(k)' = <<>> /\ k \notin Live(procs)
         /\ Untouched(Live(procs))
  BY InsertMail DEF OnceInv
<1>2. timers' = timers
  BY DEF InsertProcess
<1>3. ASSUME NEW i \in Live(procs'), NEW m \in Told(Unreads'[i])
      PROVE  /\ m \in Nat /\ m + 0 = m /\ i \in Live(procs)
             /\ Unreads'[i] = Unreads[i]
  <2>1. i # k
    <3>1. Unreads'[k] = <<>>
      BY <1>1, UnreadsAre
    <3> QED BY <3>1 DEF Told
  <2>2. i \in Live(procs) /\ Unreads'[i] = Unread(i) /\ Unreads[i] = Unread(i)
    BY <1>1, <2>1, UnreadsAre DEF Untouched
  <2>3. Unread(i) \in Seq(Event)
    BY <2>2, UnreadType DEF OnceInv, Live
  <2> QED BY <2>2, <2>3 DEF Told
<1> DEFINE d == [i \in DOMAIN Unreads' |-> 0]
<1>4. d \in [DOMAIN Unreads' -> Nat] /\ \A i \in DOMAIN Unreads' : d[i] = 0
  OBVIOUS
<1> HIDE DEF d
<1>5. \A i \in DOMAIN Unreads' : \A m \in Told(Unreads'[i]) :
         /\ m \in Nat
         /\ i \in DOMAIN Unreads /\ m + d[i] \in Told(Unreads[i])
         /\ Unreads'[i][m].id = Unreads[i][m + d[i]].id
  BY <1>3, <1>4, UnreadsAre
<1> QED BY <1>2, <1>4, <1>5, OnceFades DEF OnceInv

LEMMA GoesOnce ==
    ASSUME OnceInv, InProcess("user"), NEW v \in Live(procs), v # ALIVE,
           ProcessKill(v)
    PROVE  Once(Unreads', timers', ids)
<1>1. Live(procs') = Live(procs) \ {v} /\ Untouched(Live(procs) \ {v})
  BY KillMail DEF OnceInv
<1>2. ASSUME NEW k \in Waiting(timers')
      PROVE  k \in Waiting(timers) /\ timers'[k].id = timers[k].id
  <2>1. timers' = Cancel(timers, procs[v].uid, 0) /\ timers \in Seq(Timer)
    BY DEF ProcessKill, OnceInv, MailInv, KernelInv, RestOK
  <2> QED BY <2>1, CancelSpec DEF Waiting
<1>3. ASSUME NEW i \in Live(procs'), NEW m \in Told(Unreads'[i])
      PROVE  /\ m \in Nat /\ m + 0 = m /\ i \in Live(procs)
             /\ Unreads'[i] = Unreads[i]
  <2>1. i \in Live(procs) /\ Unreads'[i] = Unread(i) /\ Unreads[i] = Unread(i)
    BY <1>1, UnreadsAre DEF Untouched
  <2>2. Unread(i) \in Seq(Event)
    BY <2>1, UnreadType DEF OnceInv, Live
  <2> QED BY <2>1, <2>2 DEF Told
<1> DEFINE d == [i \in DOMAIN Unreads' |-> 0]
<1>4. d \in [DOMAIN Unreads' -> Nat] /\ \A i \in DOMAIN Unreads' : d[i] = 0
  OBVIOUS
<1> HIDE DEF d
<1>5. \A i \in DOMAIN Unreads' : \A m \in Told(Unreads'[i]) :
         /\ m \in Nat
         /\ i \in DOMAIN Unreads /\ m + d[i] \in Told(Unreads[i])
         /\ Unreads'[i][m].id = Unreads[i][m + d[i]].id
  BY <1>3, <1>4, UnreadsAre
<1> QED BY <1>2, <1>4, <1>5, OnceFades DEF OnceInv

(* The timers of the process that calls, or one of them.                   *)
LEMMA CancelOnce ==
    ASSUME OnceInv, NEW id, CancelTimer(id)
    PROVE  Once(Unreads', timers', ids)
<1>1. Quiet
  BY CancelTimerMail DEF OnceInv
<1>2. timers' = Cancel(timers, procs[cpu.slot].uid, id) /\ timers \in Seq(Timer)
  BY CallerSettled
     DEF CancelTimer, OnceInv, MailInv, KernelInv, RestOK
<1>3. \A k \in Waiting(timers') : k \in Waiting(timers)
                                  /\ timers'[k].id = timers[k].id
  BY <1>2, CancelSpec DEF Waiting
<1> QED BY <1>1, <1>3, QuietOnce

LEMMA StartsOnce ==
    ASSUME OnceInv, NEW delay \in Delays, StartTimer(delay)
    PROVE  Once(Unreads', timers', ids')
<1> DEFINE owner == procs[cpu.slot]
           t == [id |-> ids + 1, uid |-> owner.uid, left |-> delay,
                 finished |-> FALSE]
<1>1. /\ RunningSlot(procs) = cpu.slot /\ cpu.slot # NoSlot
      /\ owner \in Process
  BY CallerSettled DEF StartTimer, OnceInv
<1>2. timers' = Install(timers, t) /\ ids' = ids + 1 /\ UNCHANGED <<procs, cpu>>
  BY <1>1 DEF StartTimer
<1>3. t \in Timer /\ timers \in Seq(Timer) /\ t.id = ids + 1 /\ ids \in Nat
  <2>1. ids \in Nat /\ timers \in Seq(Timer)
    BY DEF OnceInv, MailInv, KernelInv, RestOK
  <2>2. owner.uid \in Nat /\ delay \in Time
    BY <1>1, KernelAssumption DEF Process
  <2> HIDE DEF owner
  <2> QED BY <2>1, <2>2 DEF Timer
<1> HIDE DEF t
<1>4. PICK new \in DOMAIN timers' :
         /\ timers'[new] = t
         /\ \A k \in DOMAIN timers' \ {new} :
               k \in DOMAIN timers /\ timers'[k] = timers[k]
  BY <1>2, <1>3, InstallSpec
<1>5. Unreads' = Unreads
  BY <1>2 DEF Unreads, Unread, Given
<1>6. Once(Unreads, timers, ids)
  BY DEF OnceInv
<1> QED BY <1>2, <1>3, <1>4, <1>5, <1>6, OnceStarts

(* The ids of the timers that expire leave the table for the queues.       *)
LEMMA TicksOnce ==
    ASSUME OnceInv, Ticked
    PROVE  Once(Unreads', timers', ids)
<1>1. /\ MailInv /\ Once(Unreads, timers, ids) /\ timers \in Seq(Timer)
      /\ timers' = CountdownAll(timers)
  BY DEF OnceInv, MailInv, KernelInv, RestOK, Ticked
<1>2. /\ Live(procs') = Live(procs)
      /\ \A i \in Live(procs) : /\ Unreads[i] = Unread(i)
                                /\ Unreads'[i] = Unread(i)'
  BY SimilarLive, UnreadsAre DEF Ticked
<1>3. \A k \in Waiting(timers') :
         /\ k \in Waiting(timers) /\ timers'[k].id = timers[k].id
         /\ ~Expires(timers[k])
  BY <1>1, CountdownAllSpec DEF Waiting
<1>4. \A k \in DOMAIN timers : Expires(timers[k]) => k \in Waiting(timers)
  BY DEF Expires, Waiting
<1>5. ASSUME NEW i \in Live(procs), NEW m \in Told(Unreads'[i])
      PROVE  \/ m \in Told(Unreads[i]) /\ Unreads'[i][m] = Unreads[i][m]
             \/ \E k \in Waiting(timers) : /\ Expires(timers[k])
                                           /\ Unreads'[i][m].id = timers[k].id
  <2>1. PICK f : Named(f, Unreads[i], Unreads'[i], i)
    BY <1>1, <1>2, TickTells
  <2>2. f[m] # NoSlot => f[m] \in DOMAIN timers
    BY <2>1 DEF Named
  <2> QED BY <1>4, <2>1, <2>2 DEF Named
<1>6. \A k \in Waiting(timers') : timers'[k].id \in 1..ids
  BY <1>1, <1>3 DEF Once
<1>7. \A j, k \in Waiting(timers') : timers'[j].id = timers'[k].id => j = k
  BY <1>1, <1>3 DEF Once
<1>8. ASSUME NEW i \in Live(procs), NEW m \in Told(Unreads'[i])
      PROVE  /\ Unreads'[i][m].id \in 1..ids
             /\ \A k \in Waiting(timers') : timers'[k].id # Unreads'[i][m].id
  <2>0. DOMAIN Unreads = Live(procs)
    BY UnreadsAre
  <2>1. CASE m \in Told(Unreads[i]) /\ Unreads'[i][m] = Unreads[i][m]
    BY <1>1, <1>3, <2>0, <2>1 DEF Once
  <2>2. CASE \E k \in Waiting(timers) : /\ Expires(timers[k])
                                        /\ Unreads'[i][m].id = timers[k].id
    BY <1>1, <1>3, <2>2 DEF Once
  <2> QED BY <1>5, <2>1, <2>2
<1>9. ASSUME NEW i \in Live(procs), NEW j \in Live(procs),
             NEW m \in Told(Unreads'[i]), NEW o \in Told(Unreads'[j]),
             Unreads'[i][m].id = Unreads'[j][o].id
      PROVE  i = j /\ m = o
  <2>0. DOMAIN Unreads = Live(procs)
    BY UnreadsAre
  <2>1. PICK f : Named(f, Unreads[i], Unreads'[i], i)
    BY <1>1, <1>2, TickTells
  <2>2. PICK g : Named(g, Unreads[j], Unreads'[j], j)
    BY <1>1, <1>2, TickTells
  <2>3. /\ \A p \in Told(Unreads'[i]) : f[p] # NoSlot => f[p] \in Waiting(timers)
        /\ g[o] # NoSlot => g[o] \in Waiting(timers)
    BY <1>4, <2>1, <2>2 DEF Named
  <2>4. CASE f[m] # NoSlot /\ g[o] # NoSlot
    <3>1. f[m] = g[o]
      BY <1>1, <1>9, <2>1, <2>2, <2>3, <2>4 DEF Once, Named
    <3>2. i = j
      BY <2>1, <2>2, <2>4, <3>1 DEF Named
    <3>3. o \in Told(Unreads'[i]) /\ Unreads'[i][o].id = timers[f[m]].id
      BY <1>9, <2>1, <2>4, <3>2 DEF Named
    <3>4. f[o] # NoSlot
      <4> SUFFICES ASSUME f[o] = NoSlot PROVE FALSE
        OBVIOUS
      <4>1. o \in Told(Unreads[i]) /\ Unreads[i][o].id = timers[f[m]].id
        BY <2>1, <3>3 DEF Named
      <4> QED BY <1>1, <2>0, <2>3, <2>4, <4>1 DEF Once
    <3>5. f[o] = f[m]
      <4>1. Unreads'[i][o].id = timers[f[o]].id
        BY <2>1, <3>3, <3>4 DEF Named
      <4> QED BY <1>1, <2>3, <2>4, <3>3, <3>4, <4>1 DEF Once
    <3> QED BY <2>1, <2>4, <3>2, <3>3, <3>5 DEF Named
  <2>5. CASE f[m] = NoSlot /\ g[o] = NoSlot
    BY <1>1, <1>9, <2>0, <2>1, <2>2, <2>5 DEF Once, Named
  <2>6. CASE f[m] = NoSlot /\ g[o] # NoSlot
    BY <1>1, <1>9, <2>0, <2>1, <2>2, <2>3, <2>6 DEF Once, Named
  <2>7. CASE f[m] # NoSlot /\ g[o] = NoSlot
    BY <1>1, <1>9, <2>0, <2>1, <2>2, <2>3, <2>7 DEF Once, Named
  <2> QED BY <2>4, <2>5, <2>6, <2>7
<1> QED
  BY <1>2, <1>6, <1>7, <1>8, <1>9, UnreadsAre DEF Once

-----------------------------------------------------------------------------
LEMMA OnceInit == Init => OnceInv
<1> SUFFICES ASSUME Init PROVE OnceInv
  OBVIOUS
<1>1. MailInv
  BY MailInit
<1>2. timers = <<>>
  BY DEF Init
<1>3. ASSUME NEW i \in Live(procs) PROVE Unreads[i] = <<>>
  <2>1. PICK susp \in UninitTimes, run \in UninitTimes :
           procs = <<AliveProcess(susp, run)>>
    BY DEF Init
  <2> DEFINE a == AliveProcess(susp, run)
  <2>2. a.regs = "main" /\ a.events = <<>>
    BY DEF AliveProcess
  <2> HIDE DEF a
  <2>3. i = 1 /\ procs[i] = a /\ cpu.slot # i
    <3>1. procs = <<a>>
      BY <2>1 DEF a
    <3>2. cpu.slot = 0
      BY DEF Init, NoSlot
    <3> QED BY <3>1, <3>2 DEF Live
  <2>4. procs[i] \in Process /\ procs[i].regs # "event" /\ procs[i].events = <<>>
    BY <1>1, <2>2, <2>3 DEF MailInv, Sound, TableOK, Live
  <2>5. Mine(procs[i], procs[i].regs) = <<>>
    BY <2>4, MineQueue
  <2> QED BY <2>3, <2>5, UnreadIsBox, UnreadsAre DEF Box, At
<1>4. Once(Unreads, timers, ids)
  BY <1>2, <1>3, UnreadsAre DEF Once, Waiting, Told
<1> QED BY <1>1, <1>4 DEF OnceInv

LEMMA OnceNext ==
    ASSUME OnceInv, [Next]_vars
    PROVE  OnceInv'
<1>m. MailInv /\ MailInv'
  BY MailNext DEF OnceInv
<1> SUFFICES Once(Unreads', timers', ids')
  BY <1>m DEF OnceInv
<1>q. ASSUME Quiet, timers' = timers, ids' = ids
      PROVE  Once(Unreads', timers', ids')
  BY <1>q, QuietOnce
<1>h. ASSUME NEW reason, Halt(reason) PROVE Once(Unreads', timers', ids')
  BY <1>h, <1>m, <1>q, HaltMail DEF Halt
<1>1. CASE BootStart
  <2>1. UserAlive \in User /\ TRUE \in BOOLEAN
    BY DEF User, UserAlive
  <2>2. cpu.ctx # "blocked" /\ start.phase = "idle"
    BY <1>1 DEF BootStart, InProcess
  <2> QED BY <1>1, <1>m, <1>q, <2>1, <2>2, BeginStartMail
          DEF BootStart, BeginStart
<1>2. CASE InsertProcess
  BY <1>2, ComesOnce DEF InsertProcess
<1>3. CASE UnlockTable
  BY <1>3, <1>m, <1>q, UnlockMail DEF UnlockTable
<1>4. CASE StartAlive
  BY <1>4, <1>m, <1>q, StartAliveMail DEF StartAlive
<1>5. CASE \E user \in Users : ProcessStart(user)
  <2>1. PICK user \in Users : ProcessStart(user)
    BY <1>5
  <2>2. user \in User /\ FALSE \in BOOLEAN
    BY KernelAssumption
  <2>3. cpu.ctx # "blocked" /\ start.phase = "idle"
    BY <2>1 DEF ProcessStart, InProcess
  <2> QED BY <1>m, <1>q, <2>1, <2>2, <2>3, BeginStartMail
          DEF ProcessStart, BeginStart
<1>6. CASE AliveWait
  BY <1>6, <1>m, <1>q, AliveWaitMail DEF AliveWait
<1>7. CASE PullEvent
  <2>1. timers' = timers /\ ids' = ids
    BY <1>7 DEF PullEvent, Halt
  <2> QED BY <1>7, <1>m, <1>q, <2>1, PullEventMail
<1>8. CASE \E target \in 0..MaxUid, event \in UserEvents :
              QueueEvent(target, event)
  <2>1. PICK target \in 0..MaxUid, event \in UserEvents :
           QueueEvent(target, event)
    BY <1>8
  <2>2. PICK i \in DOMAIN procs : Sent(i, <<event>>)
    BY <1>m, <2>1, QueueEventMail
  <2>3. \A m \in DOMAIN <<event>> : <<event>>[m].kind # "TIMER"
    BY KernelAssumption
  <2>4. timers' = timers /\ ids' = ids
    BY <2>1 DEF QueueEvent, Halt
  <2> QED BY <2>2, <2>3, <2>4, SentOnce
<1>9. CASE \E target \in 0..MaxUid : Kill(target)
  <2>1. PICK target \in 0..MaxUid : Kill(target)
    BY <1>9
  <2>2. InProcess("user")
    BY <2>1 DEF Kill
  <2>3. CASE Halt("fault")
    BY <1>h, <2>3
  <2>4. CASE \E i \in Live(procs) : i # ALIVE /\ ProcessKill(i)
    BY <2>2, <2>4, GoesOnce DEF ProcessKill
  <2> QED BY <1>m, <2>1, <2>3, <2>4, KillMailCases
<1>10. CASE \E delay \in Delays : StartTimer(delay)
  BY <1>10, StartsOnce
<1>11. CASE \E id \in 0..MaxTimerId : CancelTimer(id)
  <2>1. ids' = ids
    BY <1>11 DEF CancelTimer, Halt
  <2> QED BY <1>11, <2>1, CancelOnce
<1>12. CASE ReadEvent
  BY <1>12, ReadOnce DEF ReadEvent
<1>13. CASE ReadNothing
  BY <1>13, <1>h DEF ReadNothing
<1>14. CASE TimerIRQ
  <2>1. ids' = ids
    BY <1>14 DEF TimerIRQ, Halt
  <2> QED BY <1>14, <1>m, <1>q, <2>1, TimerIRQMail, TicksOnce
<1>15. CASE \E burst \in KeyBursts : KeyboardIRQ(burst)
  <2>1. PICK burst \in KeyBursts : KeyboardIRQ(burst)
    BY <1>15
  <2>2. timers' = timers /\ ids' = ids
    BY <2>1 DEF KeyboardIRQ, Halt
  <2>3. \A m \in DOMAIN burst : burst[m].kind # "TIMER"
    BY KernelAssumption
  <2> QED BY <1>m, <1>q, <2>1, <2>2, <2>3, KeyboardMail, SentOnce
<1>16. CASE UNCHANGED vars
  BY <1>16, <1>q, UnchangedQuiet DEF vars
<1> QED
  BY <1>1, <1>2, <1>3, <1>4, <1>5, <1>6, <1>7, <1>8, <1>9, <1>10, <1>11,
     <1>12, <1>13, <1>14, <1>15, <1>16 DEF Next, Boot, Syscall

(* The ids of unfinished timers and of unread TIMER events are all         *)
(* different, in every reachable state.                                    *)
THEOREM OnceInvariant == Spec => []OnceInv
<1>1. OnceInv /\ [Next]_vars => OnceInv'
  BY OnceNext
<1> QED BY <1>1, OnceInit, PTL DEF Spec

LEMMA AtMostOne ==
    ASSUME NEW S, \A x, y \in S : x = y
    PROVE  Cardinality(S) = IF S = {} THEN 0 ELSE 1
<1>1. CASE S = {}
  BY <1>1, FS_EmptySet
<1>2. CASE S # {}
  <2>1. PICK x \in S : TRUE
    BY <1>2
  <2>2. S = {x}
    BY <2>1
  <2> QED BY <1>2, <2>2, FS_Singleton
<1> QED BY <1>1, <1>2

(* timer.c: a timer that was started fires at most once; from then on it   *)
(* is one unread event, until its process takes that.                      *)
THEOREM FiresOnce == Spec => []TimerFiresOnce
<1>1. ASSUME OnceInv PROVE TimerFiresOnce
  <2>0. /\ Once(Unreads, timers, ids) /\ DOMAIN Unreads = Live(procs)
        /\ \A i \in Live(procs) : Unreads[i] = Unread(i)
    BY <1>1, UnreadsAre DEF OnceInv
  <2> SUFFICES ASSUME NEW id \in 1..ids
               PROVE  LET fired == [kind |-> "TIMER", id |-> id]
                          waiting == {k \in DOMAIN timers :
                                        timers[k].id = id /\ ~timers[k].finished}
                          unread(i) == {n \in DOMAIN Unread(i) : Unread(i)[n] = fired}
                          holders == {i \in Live(procs) : unread(i) # {}}
                      IN  /\ Cardinality(waiting) + Cardinality(holders) <= 1
                          /\ \A i \in holders : Cardinality(unread(i)) = 1
    BY DEF TimerFiresOnce
  <2> DEFINE fired == [kind |-> "TIMER", id |-> id]
             waiting == {k \in DOMAIN timers :
                           timers[k].id = id /\ ~timers[k].finished}
             unread(i) == {n \in DOMAIN Unread(i) : Unread(i)[n] = fired}
             holders == {i \in Live(procs) : unread(i) # {}}
  <2>1. \A k \in waiting : k \in Waiting(timers) /\ timers[k].id = id
    BY DEF Waiting
  <2>2. \A i \in Live(procs) : \A m \in unread(i) :
           m \in Told(Unreads[i]) /\ Unreads[i][m].id = id
    BY <2>0 DEF Told
  <2>3. \A i \in holders : i \in Live(procs) /\ unread(i) # {}
    OBVIOUS
  <2> HIDE DEF waiting, unread, holders
  <2>4. \A j, k \in waiting : j = k
    BY <2>0, <2>1 DEF Once
  <2>5. \A i, j \in Live(procs) : \A m \in unread(i), o \in unread(j) :
           i = j /\ m = o
    BY <2>0, <2>2 DEF Once
  <2>6. \A i, j \in holders : i = j
    BY <2>3, <2>5
  <2>7. waiting = {} \/ holders = {}
    BY <2>0, <2>1, <2>2, <2>3 DEF Once
  <2>8. Cardinality(waiting) + Cardinality(holders) <= 1
    <3>1. /\ Cardinality(waiting) = IF waiting = {} THEN 0 ELSE 1
          /\ Cardinality(holders) = IF holders = {} THEN 0 ELSE 1
      BY <2>4, <2>6, AtMostOne
    <3> QED BY <2>7, <3>1
  <2>9. ASSUME NEW i \in holders PROVE Cardinality(unread(i)) = 1
    BY <2>3, <2>5, AtMostOne
  <2> QED BY <2>8, <2>9 DEF waiting, unread, holders
<1>2. OnceInv => TimerFiresOnce
  BY <1>1
<1> QED BY <1>2, OnceInvariant, PTL

-----------------------------------------------------------------------------
(* The time of a process, and that only the accounting pass changes it.    *)

SameTimes(P, Q) ==
    /\ DOMAIN Q = DOMAIN P
    /\ \A i \in DOMAIN P : Q[i].susp = P[i].susp /\ Q[i].run = P[i].run

LEMMA PostTimes ==
    ASSUME NEW P \in Seq(Process), NEW T \in Seq(Timer)
    PROVE  SameTimes(P, PostExpired(P, T))
<1>1. ASSUME NEW i \in DOMAIN P
      PROVE  /\ PostExpired(P, T)[i].susp = P[i].susp
             /\ PostExpired(P, T)[i].run = P[i].run
  <2>1. P[i] \in Process
    OBVIOUS
  <2>2. PostExpired(P, T)[i]
          = [P[i] EXCEPT !.events = P[i].events \o TimerEventsFor(P, T, i)]
    BY DEF PostExpired, Post
  <2> QED BY <2>1, <2>2 DEF Process
<1> QED BY <1>1 DEF SameTimes, PostExpired

LEMMA UpdateTimes ==
    ASSUME NEW P \in Seq(Process), NEW i \in DOMAIN P, NEW p \in Process,
           p.susp = P[i].susp, p.run = P[i].run
    PROVE  [P EXCEPT ![i] = p] \in Seq(Process) /\ SameTimes(P, [P EXCEPT ![i] = p])
BY UpdateSlot DEF SameTimes

LEMMA ResumedTimes ==
    ASSUME NEW P \in Seq(Process), NEW i \in DOMAIN P
    PROVE  Resumed(P, i) \in Seq(Process) /\ SameTimes(P, Resumed(P, i))
<1> DEFINE p == Resume(P[i], Entry(i))
<1>1. P[i] \in Process
  OBVIOUS
<1>2. p = [P[i] EXCEPT !.status = "RUNNING", !.started = TRUE,
             !.regs = IF P[i].started THEN P[i].regs ELSE Entry(i)]
  BY DEF Resume
<1>3. p.susp = P[i].susp /\ p.run = P[i].run
  BY <1>1, <1>2 DEF Process
<1>4. p \in Process
  BY <1>1, ResumeType DEF Entry, Contexts
<1>5. Resumed(P, i) = [P EXCEPT ![i] = p]
  BY DEF Resumed
<1> HIDE DEF p
<1> QED BY <1>3, <1>4, <1>5, UpdateTimes

LEMMA DispatchTimes ==
    ASSUME NEW P \in Seq(Process), ALIVE \in DOMAIN P
    PROVE  SameTimes(P, Dispatch(P).procs)
<1> DEFINE p == Restart(P[ALIVE])
           A == [P EXCEPT ![ALIVE] = p]
<1>1. P[ALIVE] \in Process
  OBVIOUS
<1>2. p = [P[ALIVE] EXCEPT !.started = FALSE]
  BY DEF Restart
<1>3. p \in Process /\ p.susp = P[ALIVE].susp /\ p.run = P[ALIVE].run
  BY <1>1, <1>2 DEF Process
<1> HIDE DEF p
<1>4. A \in Seq(Process) /\ SameTimes(P, A)
  BY <1>3, UpdateTimes
<1>5. Dispatch(P).procs = IF Best(P) # NoSlot THEN Resumed(P, Best(P))
                          ELSE Resumed(A, ALIVE)
  BY DEF Dispatch, p
<1> HIDE DEF A
<1>6. CASE Best(P) # NoSlot
  BY <1>5, <1>6, BestIsReady, ResumedTimes
<1>7. CASE Best(P) = NoSlot
  <2>1. SameTimes(A, Resumed(A, ALIVE))
    BY <1>4, ResumedTimes DEF SameTimes
  <2> QED BY <1>4, <1>5, <1>7, <2>1 DEF SameTimes
<1> QED BY <1>6, <1>7

LEMMA RescheduleTimes ==
    ASSUME NEW P \in Seq(Process), ALIVE \in DOMAIN P, NEW c,
           RunningSlot(P) # NoSlot => c.ctx \in Contexts
    PROVE  SameTimes(P, Reschedule(P, c).procs)
<1> DEFINE current == RunningSlot(P)
           best == Best(P)
           p == Preempt(P[current], c.ctx)
           A == [P EXCEPT ![current] = p]
<1>1. CASE current = NoSlot
  BY <1>1, DispatchTimes DEF Reschedule
<1>2. CASE current # NoSlot /\ QuantumOver(P, current) /\ best # NoSlot
  <2>1. current \in DOMAIN P /\ best \in DOMAIN P
    BY <1>2, RunningSlotFound, BestIsReady
  <2>2. P[current] \in Process
    BY <2>1
  <2>3. p = [P[current] EXCEPT !.regs = c.ctx, !.status = "NORMAL"]
    BY DEF Preempt
  <2>4. p \in Process
    BY <1>2, <2>2, PreemptType
  <2>5. p.susp = P[current].susp /\ p.run = P[current].run
    BY <2>2, <2>3 DEF Process
  <2>6. Reschedule(P, c).procs = Resumed(A, best)
    BY <1>2 DEF Reschedule
  <2> HIDE DEF p, current, best
  <2>7. A \in Seq(Process) /\ SameTimes(P, A)
    BY <2>1, <2>4, <2>5, UpdateTimes
  <2> HIDE DEF A
  <2>8. SameTimes(A, Resumed(A, best))
    BY <2>1, <2>7, ResumedTimes DEF SameTimes
  <2> QED BY <2>6, <2>7, <2>8 DEF SameTimes
<1>3. CASE current # NoSlot /\ ~(QuantumOver(P, current) /\ best # NoSlot)
  BY <1>3 DEF Reschedule, SameTimes
<1> QED BY <1>1, <1>2, <1>3

(* The accounting pass adds what has passed, to the one side or the other. *)
LEMMA AccountTimes ==
    ASSUME NEW p \in Process, p.status # "DEAD", NEW passed \in Nat
    PROVE  (Account(p, passed).susp + Account(p, passed).run) % TimeMod
             = (p.susp + p.run + passed) % TimeMod
<1> DEFINE q == Account(p, passed)
<1>1. TimeMod \in Int /\ TimeMod > 0
  BY TimeAssumption
<1>2. p.susp \in Int /\ p.run \in Int /\ passed \in Int
  BY TimeAssumption DEF Process, Time
<1>3. /\ (p.run + passed) % TimeMod \in Time
      /\ (p.susp + passed) % TimeMod \in Time
  BY <1>1, <1>2 DEF Time
<1>4. \/ q.susp = p.susp /\ q.run = (p.run + passed) % TimeMod
      \/ q.susp = (p.susp + passed) % TimeMod /\ q.run = p.run
  <2>1. Ran(p, passed).susp = p.susp
        /\ Ran(p, passed).run = (p.run + passed) % TimeMod
    BY DEF Ran, Process
  <2> DEFINE w == Waited(p, passed)
  <2>2. w = [p EXCEPT !.susp = (p.susp + passed) % TimeMod]
    BY DEF Waited
  <2>3. w \in Process /\ w.susp = (p.susp + passed) % TimeMod /\ w.run = p.run
    BY <1>3, <2>2 DEF Process
  <2> HIDE DEF w
  <2>4. Pull(w) = [w EXCEPT !.cur = Head(w.events), !.events = Tail(w.events)]
    BY DEF Pull
  <2>5. Wake(w) = [Pull(w) EXCEPT !.regs = "event", !.status = "NORMAL"]
    BY DEF Wake
  <2>6. Wake(w).susp = w.susp /\ Wake(w).run = w.run
    BY <2>3, <2>4, <2>5 DEF Process
  <2>7. q = Ran(p, passed) \/ q = w \/ q = Wake(w)
    BY DEF Account, w
  <2> HIDE DEF q
  <2> QED BY <2>1, <2>3, <2>6, <2>7
<1> HIDE DEF q
<1>5. \E x, y \in Int : /\ q.susp + q.run = (x % TimeMod) + y
                       /\ p.susp + p.run + passed = x + y
  <2>1. CASE q.susp = p.susp /\ q.run = (p.run + passed) % TimeMod
    <3>1. (p.run + passed) % TimeMod \in Int
      BY <1>1, <1>2
    <3>2. q.susp + q.run = ((p.run + passed) % TimeMod) + p.susp
      BY <1>2, <2>1, <3>1
    <3> QED BY <1>2, <3>2
  <2>2. CASE q.susp = (p.susp + passed) % TimeMod /\ q.run = p.run
    BY <1>2, <2>2
  <2> QED BY <1>4, <2>1, <2>2
<1>6. PICK x \in Int, y \in Int : /\ q.susp + q.run = (x % TimeMod) + y
                                 /\ p.susp + p.run + passed = x + y
  BY <1>5
<1>7. ((x % TimeMod) + y) % TimeMod = (x + y) % TimeMod
  BY <1>1, ModInSum
<1> QED BY <1>6, <1>7 DEF q

(* A tick that the scheduler is kept out of is counted.                    *)
LEMMA SkippedTick ==
    ASSUME NEW lived \in Nat, NEW u \in Time
    PROVE  (lived + Tick * ((u + 1) % TimeMod)) % TimeMod
             = (lived + Tick * u + Tick) % TimeMod
<1>1. TimeMod \in Int /\ TimeMod > 0 /\ Tick \in Int /\ u \in 0..(TimeMod - 1)
  BY TimeAssumption DEF Time
<1>2. CASE u + 1 < TimeMod
  <2>1. (u + 1) % TimeMod = u + 1
    BY <1>1, <1>2
  <2>2. Tick * (u + 1) = Tick * u + Tick
    BY <1>1
  <2>3. Tick * u \in Int
    BY <1>1
  <2>4. lived + Tick * (u + 1) = lived + Tick * u + Tick
    BY <1>1, <2>2, <2>3
  <2> QED BY <2>1, <2>4
<1>3. CASE u + 1 = TimeMod
  <2>1. (u + 1) % TimeMod = 0
    BY <1>1, <1>3
  <2>2. Tick * 0 = 0 /\ lived + 0 = lived
    BY <1>1
  <2>3. Tick * u + Tick = TimeMod * Tick /\ Tick * u \in Int
    BY <1>1, <1>3
  <2>4. lived + Tick * u + Tick = lived + TimeMod * Tick
    <3>1. TimeMod * Tick \in Int
      BY <1>1
    <3> QED BY <1>1, <2>3, <3>1
  <2>5. (lived + TimeMod * Tick) % TimeMod = lived % TimeMod
    <3>1. lived \in Int /\ TimeMod \in Int /\ TimeMod > 0 /\ Tick \in Int
      BY <1>1
    <3> QED BY <3>1, ModMultiple
  <2>6. Tick * ((u + 1) % TimeMod) = 0
    BY <2>1, <2>2
  <2>7. lived + Tick * ((u + 1) % TimeMod) = lived
    BY <2>2, <2>6
  <2> QED BY <2>4, <2>5, <2>7
<1> QED BY <1>1, <1>2, <1>3

LEMMA TickAccounted ==
    ASSUME KernelInv, TimerIRQ, enabled, halted' = "no", NEW i \in Live(procs)
    PROVE  Lifetime(i)' % TimeMod = (Lifetime(i) + Tick) % TimeMod
<1> DEFINE P == PostExpired(procs, timers)
           passed == updates * Tick + Tick
           Q == AccountAll(P, passed)
<1>1. /\ procs \in Seq(Process) /\ timers \in Seq(Timer) /\ updates \in Time
      /\ ALIVE \in DOMAIN procs
      /\ cpu \in [slot : {NoSlot} \cup DOMAIN procs, ctx : Contexts \cup {"boot"}]
  BY DEF KernelInv, Consistent, RestOK
<1>2. TimerUpdate(P) /\ halted = "no"
  BY DEF TimerIRQ, Halt
<1>3. /\ P \in Seq(Process) /\ SameTimes(procs, P) /\ DOMAIN P = DOMAIN procs
      /\ i \in DOMAIN procs /\ P[i].status # "DEAD"
  BY <1>1, PostExpiredSpec, PostTimes DEF Follows, Live
<1>4. P[i] \in Process /\ P[i].susp = procs[i].susp /\ P[i].run = procs[i].run
  BY <1>3 DEF SameTimes
<1>5. /\ procs[i].susp \in Nat /\ procs[i].run \in Nat /\ updates \in Nat
      /\ Tick \in Nat
  <2>1. P[i].susp \in Nat /\ P[i].run \in Nat
    BY <1>4, TimeAssumption DEF Process, Time
  <2> QED BY <1>1, <1>4, <2>1, TimeAssumption DEF Time
<1> DEFINE lived == procs[i].susp + procs[i].run
<1>6. Lifetime(i) = lived + Tick * updates
  BY DEF Lifetime
<1>7. Lifetime(i)' = procs'[i].susp + procs'[i].run + Tick * updates'
  BY DEF Lifetime
<1>8. CASE ~can_update
  <2>1. procs' = P /\ updates' = (updates + 1) % TimeMod
    BY <1>2, <1>8 DEF TimerUpdate
  <2>2. Lifetime(i)' = lived + Tick * ((updates + 1) % TimeMod)
    BY <1>4, <1>7, <2>1
  <2>3. lived \in Nat
    BY <1>5
  <2> HIDE DEF lived
  <2> QED BY <1>1, <1>6, <2>2, <2>3, SkippedTick
<1>9. CASE can_update
  <2>1. procs' = Reschedule(Q, cpu).procs /\ updates' = 0
    BY <1>2, <1>9 DEF TimerUpdate
  <2>2. passed \in Nat /\ passed = Tick * updates + Tick
    BY <1>5
  <2> HIDE DEF P, passed
  <2>3. /\ Q \in Seq(Process) /\ DOMAIN Q = DOMAIN procs
        /\ Q[i] = Account(P[i], passed)
    BY <1>3, <2>2, AccountAllSpec DEF AccountAll, Follows
  <2> HIDE DEF Q
  <2>4. SameTimes(Q, procs')
    <3>1. RunningSlot(Q) # NoSlot => cpu.ctx \in Contexts
      <4> SUFFICES ASSUME RunningSlot(Q) # NoSlot PROVE cpu.ctx \in Contexts
        OBVIOUS
      <4>1. PICK r \in DOMAIN procs : Q[r].status = "RUNNING"
        BY <2>3, RunningSlotFound
      <4>2. procs[r].status = "RUNNING"
        <5>1. P[r].status = "RUNNING"
          BY <1>3, <2>2, <4>1, AccountAllSpec DEF Q
        <5> QED BY <1>1, <5>1, PostExpiredSpec DEF P
      <4>3. cpu.slot # NoSlot
        BY <1>1, <4>2 DEF KernelInv, Consistent, WithStatus, NoSlot
      <4> QED BY <1>1, <4>3 DEF KernelInv, Consistent
    <3>2. ALIVE \in DOMAIN Q
      BY <1>1, <2>3
    <3> QED BY <2>1, <2>3, <3>1, <3>2, RescheduleTimes
  <2>5. procs'[i].susp = Q[i].susp /\ procs'[i].run = Q[i].run
    BY <1>3, <2>3, <2>4 DEF SameTimes
  <2>6. (Q[i].susp + Q[i].run) % TimeMod
          = (P[i].susp + P[i].run + passed) % TimeMod
    BY <1>3, <1>4, <2>2, <2>3, AccountTimes
  <2>7. Q[i].susp + Q[i].run + Tick * 0 = Q[i].susp + Q[i].run
    <3>1. Q[i] \in Process
      BY <1>3, <2>3
    <3>2. Q[i].susp \in Nat /\ Q[i].run \in Nat
      BY <3>1, TimeAssumption DEF Process, Time
    <3> QED BY <1>5, <3>2
  <2>8. P[i].susp + P[i].run + passed = lived + Tick * updates + Tick
    <3>1. Tick * updates \in Nat
      BY <1>5
    <3> QED BY <1>4, <1>5, <2>2, <3>1
  <2> HIDE DEF lived
  <2> QED BY <1>6, <1>7, <2>1, <2>5, <2>6, <2>7, <2>8
<1> QED BY <1>8, <1>9

(* process.c:186-235: no tick is lost or counted twice, for any process    *)
(* and whatever the scheduler was doing when the tick came.                *)
THEOREM TimeConserved == Spec => TicksAccounted
<1>1. KernelInv /\ [Next]_vars =>
        [TimerIRQ /\ enabled /\ halted' = "no" =>
           \A i \in Live(procs) :
              Lifetime(i)' % TimeMod = (Lifetime(i) + Tick) % TimeMod]_vars
  BY TickAccounted
<1> QED BY <1>1, KernelInvariant, PTL DEF Spec, TicksAccounted
=============================================================================
