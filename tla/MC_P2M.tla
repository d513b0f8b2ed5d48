------------------------------- MODULE MC_P2M -------------------------------
(* Model-checking instance of P2M: the constants are given in the .cfg    *)
(* files; heap frames are interchangeable model values.                   *)
EXTENDS P2M, TLC

HeapSymmetry == Permutations(HeapFrames)
=============================================================================
