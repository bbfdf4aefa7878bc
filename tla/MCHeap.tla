------------------------------- MODULE MCHeap -------------------------------
(* Instances of Heap.tla for TLC: one unit is the size of a header.        *)
EXTENDS Heap

MCSizes == 0..5
=============================================================================
