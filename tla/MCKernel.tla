------------------------------ MODULE MCKernel ------------------------------
(* Instances of Kernel.tla for TLC.                                        *)
EXTENDS KernelProperties

Key == [kind |-> "KEY", id |-> 0]
Char == [kind |-> "CHAR", id |-> 0]
KeyUp == [kind |-> "KEY_UP", id |-> 0]
Terminate == [kind |-> "TERMINATE", id |-> 0]

NoBursts == {}
OneKey == {<<Key>>}
KeyAndChar == {<<Key, Char>>}
NoEvents == {}
OneEvent == {Terminate}
=============================================================================
