--------------------------- MODULE TaskLifecycle ---------------------------
(***************************************************************************)
(* What the thread pool service promises of the tasks submitted under a    *)
(* name, without threads, requests, timers or a table: a name has at most  *)
(* one task in flight; an accepted task is executed at most once, or is    *)
(* withdrawn before it was started; it is then reported once, and the      *)
(* report says which of the two happened.                                  *)
(***************************************************************************)
CONSTANT Names

VARIABLE phase  \* the latest task of each name

Phases == {"absent", "waiting", "running", "executed", "withdrawn",
           "succeeded", "cancelled"}

Init == phase = [n \in Names |-> "absent"]

Step(n, from, to) == phase[n] \in from /\ phase' = [phase EXCEPT ![n] = to]

\* submit() succeeds; the name is free, or its task is being reported.
Accept(n) == Step(n, {"absent", "succeeded", "cancelled"}, "waiting")

\* A pool thread takes the task, and completes its work callback.
Start(n) == Step(n, {"waiting"}, "running")
Execute(n) == Step(n, {"running"}, "executed")

\* cancel() or the timeout reaches the task before a pool thread does.
Withdraw(n) == Step(n, {"waiting"}, "withdrawn")

\* The after-work callback is invoked with success, or with EE_POOL_CANCELLED.
ReportSuccess(n) == Step(n, {"executed"}, "succeeded")
ReportCancelled(n) == Step(n, {"withdrawn"}, "cancelled")

\* The after-work callback has returned.
Forget(n) == Step(n, {"succeeded", "cancelled"}, "absent")

Next == \E n \in Names :
  \/ Accept(n)
  \/ Start(n)
  \/ Execute(n)
  \/ Withdraw(n)
  \/ ReportSuccess(n)
  \/ ReportCancelled(n)
  \/ Forget(n)

Spec == Init /\ [][Next]_phase
=============================================================================
