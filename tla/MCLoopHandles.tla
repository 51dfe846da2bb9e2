---------------------------- MODULE MCLoopHandles ----------------------------
(***************************************************************************)
(* Instances of LoopHandles for TLC.                                       *)
(***************************************************************************)
EXTENDS LoopHandles, TLC

Symmetry == Permutations(Objects) \cup Permutations(Cells)
=============================================================================
