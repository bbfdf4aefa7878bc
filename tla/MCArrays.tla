------------------------------ MODULE MCArrays ------------------------------
(* Instances of Arrays.tla for TLC.                                        *)
EXTENDS Arrays, TLC

CONSTANTS v1, v2
TwoValues == {v1, v2}
Symmetry == Permutations(TwoValues)
=============================================================================
