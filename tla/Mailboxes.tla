------------------------------ MODULE Mailboxes ------------------------------
(***************************************************************************)
(* What the event queues promise to processes: every process that was ever *)
(* created has one mailbox, read in the order it was filled.  Nothing but  *)
(* its own reads and its death takes an event out, and the dead stay dead. *)
(***************************************************************************)
EXTENDS Sequences, SequencesExt

CONSTANT Uids

VARIABLES
    inbox,   \* the events a process has not read yet
    alive,   \* the uids of the processes in the system
    dead     \* the uids whose process is gone

mailVars == <<inbox, alive, dead>>

Init ==
    /\ inbox = [u \in Uids |-> <<>>]
    /\ alive = {0}
    /\ dead = {}

(* An interrupt may deliver to several processes at once, or to none.      *)
Deliver ==
    LET before == inbox
        after == inbox'
    IN  /\ after # before =>
            \A u \in Uids : IF u \in alive THEN IsPrefix(before[u], after[u])
                            ELSE after[u] = before[u]
        /\ UNCHANGED <<alive, dead>>

Read(u) ==
    /\ u \in alive /\ inbox[u] # <<>>
    /\ inbox' = [inbox EXCEPT ![u] = Tail(@)]
    /\ UNCHANGED <<alive, dead>>

Born(u) ==
    /\ u \notin alive \cup dead
    /\ alive' = alive \cup {u}
    /\ UNCHANGED <<inbox, dead>>

Die(u) ==
    /\ u \in alive
    /\ alive' = alive \ {u}
    /\ dead' = dead \cup {u}
    /\ inbox' = [inbox EXCEPT ![u] = <<>>]

Next == Deliver \/ \E u \in Uids : Read(u) \/ Born(u) \/ Die(u)

Spec == Init /\ [][Next]_mailVars
=============================================================================
