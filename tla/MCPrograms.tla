----------------------------- MODULE MCPrograms -----------------------------
(* Instances of Programs.tla for TLC.                                      *)
EXTENDS Programs

Bursts == {<<KeyEvent, CharEvent(n)>> : n \in 1..2}
Durations == {Millis(1)}
TerminateOnly == {[kind |-> "TERMINATE", id |-> 0]}
=============================================================================
