------------------------------ MODULE MCValues ------------------------------
(***************************************************************************)
(* The value types Error and Duration for TLC: a client that handles one   *)
(* or the other, since they have nothing to do with each other.            *)
(***************************************************************************)
EXTENDS Errors, Durations

\* All codes of the declared ranges, and some on either side.
AllCodes == -302 .. 3

\* Amounts around the points where a unit wraps in 16 bits, and where the argument does.
SomeAmounts == {0, 1, 2, 3, 18, 19, 65, 66, 1092, 1093, 65535}

Init == ErrorInit /\ DurationInit

Next ==
  \/ ErrorNext /\ DurationInit /\ UNCHANGED durationVars
  \/ DurationNext /\ ErrorInit /\ UNCHANGED errorVars

Spec == Init /\ [][Next]_<<errorVars, durationVars>>
=============================================================================
