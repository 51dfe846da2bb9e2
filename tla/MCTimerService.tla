--------------------------- MODULE MCTimerService ---------------------------
(***************************************************************************)
(* Instances of TimerService for TLC.                                      *)
(***************************************************************************)
EXTENDS TimerService, TLC

CONSTANTS a, b, c

OneShot == [max |-> 0, interval |-> 0]

Twice == [max |-> 2, interval |-> 1]

\* RepeatPolicy::none(), times() and forever(), the last with an interval of zero
SomePolicies == {OneShot, Twice, [max |-> Forever, interval |-> 0]}

AllPolicies ==
  {OneShot, Twice, [max |-> 2, interval |-> 0],
   [max |-> Forever, interval |-> 0], [max |-> Forever, interval |-> 1]}

AnyClient == [between |-> Ops, inside |-> Ops, actsOnEnded |-> TRUE]

OrderlyClient == [between |-> Ops, inside |-> Ops \ {"cancelAll"}, actsOnEnded |-> FALSE]

\* An orderly client that sets no new deadline for an existing timer.
PatientClient ==
  LET ops == Ops \ {"reschedule"}
  IN  [between |-> ops, inside |-> ops \ {"cancelAll"}, actsOnEnded |-> FALSE]

LastingClient ==
  LET ops == Ops \ {"reschedule"}
  IN  [between |-> ops, inside |-> ops, actsOnEnded |-> FALSE]

QuietClient == [between |-> Ops, inside |-> {}, actsOnEnded |-> TRUE]

AllClients == {AnyClient, OrderlyClient, PatientClient}

JustLasting == {LastingClient}

JustQuiet == {QuietClient}

Symmetry == Permutations(Ids)
=============================================================================
