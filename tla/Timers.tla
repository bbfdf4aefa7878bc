------------------------------- MODULE Timers -------------------------------
(***************************************************************************)
(* The timer table of core/timer.c: operators on a table T (the growable   *)
(* array "timers").  A slot is free when its timer is finished.            *)
(***************************************************************************)
EXTENDS ProcessTable

Timer == [id : Nat, uid : Nat, left : Time, finished : BOOLEAN]

TimerEvent(t) == [kind |-> "TIMER", id |-> t.id]

(* The comparison of handle_timer_irq, on unsigned integers: a timer with  *)
(* less than a tick left wraps around and expires as well.                 *)
Expires(t) ==
    LET rest == (t.left - Tick) % TimeMod
    IN  ~t.finished /\ (rest = 0 \/ rest > t.left)

Expiring(T) == {k \in DOMAIN T : Expires(T[k])}

(* Mutant: an expired timer is not marked finished.                        *)
CountdownAgain(t) ==
    IF Expires(t) \/ t.finished THEN t ELSE [t EXCEPT !.left = (@ - Tick) % TimeMod]
Countdown(t) ==
    CASE Expires(t) -> [t EXCEPT !.finished = TRUE]
      [] t.finished -> t
      [] OTHER      -> [t EXCEPT !.left = (@ - Tick) % TimeMod]

CountdownAll(T) == [k \in DOMAIN T |-> Countdown(T[k])]

(* The elements of a finite set of naturals, in ascending order.           *)
Ascending(S) ==
    CHOOSE s \in [1..Cardinality(S) -> S] :
        \A m, n \in 1..Cardinality(S) : m < n => s[m] < s[n]

(* The events one interrupt appends to the queue of slot i, in the order   *)
(* of the timer table.                                                     *)
TimerEventsFor(P, T, i) ==
    LET due == {k \in Expiring(T) : Lookup(P, T[k].uid) = i}
        order == Ascending(due)
    IN  [n \in 1..Cardinality(due) |-> TimerEvent(T[order[n]])]

PostExpired(P, T) ==
    [i \in DOMAIN P |-> Post(P[i], TimerEventsFor(P, T, i))]

(* An expiring timer whose process is gone: the kernel panics.             *)
Orphans(P, T) == {k \in Expiring(T) : Lookup(P, T[k].uid) = NoSlot}

(* timer_start takes the first finished slot, or grows the table.          *)
Install(T, t) ==
    LET free == First({k \in DOMAIN T : T[k].finished})
    IN  IF free # NoSlot THEN [T EXCEPT ![free] = t] ELSE Append(T, t)

(* Mutant: id 0 does not stand for all timers of the process.              *)
CancelOne(T, owner, id) ==
    [k \in DOMAIN T |->
        IF T[k].uid = owner /\ id = T[k].id
        THEN [T[k] EXCEPT !.finished = TRUE] ELSE T[k]]

(* timer_cancel: every timer of the process when id is 0.                  *)
Cancel(T, owner, id) ==
    [k \in DOMAIN T |->
        IF T[k].uid = owner /\ id \in {0, T[k].id}
        THEN [T[k] EXCEPT !.finished = TRUE] ELSE T[k]]
=============================================================================
