------------------------------ MODULE MCPaging ------------------------------
(* Instances of Paging.tla for TLC: 64 frames, directories of 8 entries.   *)
EXTENDS Paging

MCImage == <<5, 6>>
MCKernelHeap == <<7>>
MCVga == <<3>>
MCStack == <<20>>
Leftovers == {Absent, [frame |-> 2, user |-> TRUE, write |-> TRUE]}
=============================================================================
