----------------------------- MODULE MCKeyboard -----------------------------
(* An instance of Keyboard.tla for TLC: the keys a, s, both shift keys,    *)
(* left control, and Print Screen, whose second byte is a shift key's.     *)
EXTENDS Keyboard

MCKeys ==
    {[ext |-> FALSE, code |-> c] : c \in {30, 42, 54, 29}} \union {[ext |-> TRUE, code |-> 42]}
=============================================================================
