------------------------ MODULE MCThreadPoolService ------------------------
(***************************************************************************)
(* Instances of ThreadPoolService for TLC.                                 *)
(***************************************************************************)
EXTENDS ThreadPoolService, TLC

\* Names, cells and pool threads are interchangeable in the safety runs.
Symmetry == Permutations(Names) \cup Permutations(Contexts) \cup Permutations(Threads)
=============================================================================
