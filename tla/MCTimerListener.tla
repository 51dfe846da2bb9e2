-------------------------- MODULE MCTimerListener --------------------------
(***************************************************************************)
(* Instances of TimerListener for TLC.                                     *)
(***************************************************************************)
EXTENDS TimerListener, TLC

\* Listeners that call two different operations at most, and one that calls all of them.
AllClients ==
  [inside : {{a, b} : a \in Ops, b \in Ops} \cup {{}, Ops}, actsOnEnded : BOOLEAN]

Symmetry == Permutations(Ids)
=============================================================================
