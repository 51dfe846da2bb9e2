---------------------------- MODULE PoolLifetime ----------------------------
(***************************************************************************)
(* A ThreadPoolService and the Loop it refers to, from the first task to   *)
(* the end of both: the destructor of the service, the destructor of Loop, *)
(* which drains the loop and so delivers tasks, and Loop objects moved or  *)
(* assigned while tasks are in flight.                                     *)
(*                                                                         *)
(* The closures of a task capture this; they belong to libuv, not to the   *)
(* service.  What a program does once such a closure has outlived its      *)
(* service, or a request its loop, is undefined: that step is left out     *)
(* here, and the properties say that it is never due for a client that     *)
(* waits for activeCount() = 0 before it destroys the service.             *)
(***************************************************************************)
EXTENDS ThreadPoolService

VARIABLES
  service,   \* "alive" or "destroyed"
  loop,      \* the uv loop: open, drained by a destructor or an assignment, deleted with
             \* nothing alive in it, abandoned: deleted while something was
  bound,     \* does the Loop object the service refers to own the uv loop
  stopFlag   \* stop_flag of the uv loop, as far as it matters: a Loop::stop between two
             \* runs is only seen by uv_run when the loop ends before the next run

ends == <<service, loop, bound, stopFlag>>

allVars == <<vars, ends>>

Usable == loop \notin {"deleted", "abandoned"}

Draining == loop \in {"ending", "replaced"}

\* The client's code runs between two runs of the loop and in after-work callbacks.
ClientActs == Ready /\ (frame # None \/ ~Draining)

-----------------------------------------------------------------------------
LifeInit ==
  /\ Init
  /\ service = "alive"
  /\ loop = "open"
  /\ bound = TRUE
  /\ stopFlag = FALSE

\* What the service and its threads do, as far as it is defined.
ServiceStep ==
  /\ \/ /\ service = "alive" /\ ClientActs
        /\ Usable
        /\ \/ bound /\ \E n \in Names, timed \in BOOLEAN : Submit(n, timed)
           \/ \E n \in Names : Cancel(n)
     \/ CallStep
     \/ DeleteContext
     \/ Usable /\ \E t \in armed : TimeoutFires(t)
     \/ Usable /\ service = "alive" /\ \E c \in Contexts : AfterWork(c)
     \/ Usable /\ \E w \in Threads :
          \/ \E c \in Contexts : PickUp(w, c)
          \/ service = "alive" /\ (Lookup(w) \/ MarkInProgress(w))
          \/ RunWork(w)
  /\ UNCHANGED ends

\* Faulty variant: no task waits for a thread.
NoneQueued == {n \in Names : Tracked(n) /\ tasks[n].status = "Queued"} = {}

\* activeCount() = 0
Idle == activeCount = 0

\* The destructor of the service stops and closes its timeout timers and drops the table;
\* the requests stay with libuv.
DestroyService ==
  /\ service = "alive" /\ ClientActs /\ loop # "abandoned"
  /\ Idle
  /\ service' = "destroyed"
  /\ armed' = {}
  /\ tasks' = [n \in Names |-> None]
  /\ UNCHANGED <<activeCount, completedCount, uv, pool, lpc, local, frame, history,
                 loop, bound, stopFlag>>

\* Loop(Loop&&) leaves the object the service refers to without a loop; moving back, by
\* operator= into that empty object, restores it.
MoveLoop ==
  /\ ClientActs
  /\ loop = "open"
  /\ bound' = ~bound
  /\ UNCHANGED <<vars, service, loop, stopFlag>>

\* closeAllHandles: no timer of the loop goes off any more.
CloseAllHandles == armed' = {}

\* The destructor of Loop, and operator= of a Loop that owns one, up to uv_run.
EndLoop(to) ==
  /\ ClientActs /\ frame = None
  /\ loop = "open"
  /\ loop' = to
  /\ stopFlag' \in BOOLEAN
  /\ CloseAllHandles
  /\ UNCHANGED <<tasks, activeCount, completedCount, uv, pool, lpc, local, frame, history,
                 service, bound>>

DestroyLoop == EndLoop("ending")

ReplaceLoop == bound /\ EndLoop("replaced")

\* Faulty variant: the loop is run for one iteration only.
NothingReady == \A c \in Contexts : stage[c] \notin {"done", "cancelled"}

\* uv_run has nothing to wait for.  With the stop flag set it may return before that.
NothingAlive == Outstanding = {} /\ armed = {}

\* uv_run returns, the loop is deleted, and operator= takes over another one; if something
\* is still alive, what it does from here on is undefined.
LoopEnded ==
  /\ Draining /\ Ready /\ frame = None
  /\ stopFlag \/ NothingAlive
  /\ loop' = IF ~NothingAlive THEN "abandoned"
             ELSE IF loop = "replaced" THEN "open" ELSE "deleted"
  /\ stopFlag' = FALSE
  /\ UNCHANGED <<vars, service, bound>>

\* Loop::stop from an after-work callback, the only client code the draining runs.
StopLoop ==
  /\ Ready /\ Draining /\ frame # None
  /\ stopFlag' = TRUE
  /\ UNCHANGED <<vars, service, loop, bound>>

LifeNext ==
  \/ ServiceStep
  \/ DestroyService
  \/ MoveLoop
  \/ DestroyLoop
  \/ ReplaceLoop
  \/ LoopEnded
  \/ StopLoop

LifeSpec == LifeInit /\ [][LifeNext]_allVars

\* A call of the service goes on, work callbacks and after-work callbacks end.  libuv serves
\* its queues in order, so a request that is queued again and again while others are is not
\* passed over, and the client runs the loop again and again, so finished requests are come
\* back to between its calls.
LifeFairness ==
  /\ WF_allVars(CallStep /\ UNCHANGED ends)
  /\ WF_allVars(LoopEnded)
  /\ SF_allVars(DeleteContext /\ UNCHANGED ends)
  /\ \A c \in Contexts :
       /\ SF_allVars(Usable /\ service = "alive" /\ AfterWork(c) /\ UNCHANGED ends)
       /\ SF_allVars(Usable /\ (\E w \in Threads : PickUp(w, c)) /\ UNCHANGED ends)
  /\ \A w \in Threads :
       WF_allVars(/\ Usable
                  /\ (service = "alive" /\ (Lookup(w) \/ MarkInProgress(w))) \/ RunWork(w)
                  /\ UNCHANGED ends)

LifeFairSpec == LifeSpec /\ LifeFairness

-----------------------------------------------------------------------------
\* A client that has seen activeCount() = 0 may destroy the service, even in an after-work
\* callback and whatever became of the Loop: no closure that captured the service is still
\* to run, on the loop thread or on a thread of the pool.
ClosuresFindService ==
  service = "destroyed" =>
    /\ Outstanding = {} /\ armed = {}
    /\ \A w \in Threads : wpc[w] = "idle"
    /\ lpc = "ready"

\* A Loop deleted with nothing alive in it has delivered every task, and the table of the
\* service is empty: destroying the Loop first is safe too, unless somebody stops it.
LoopOutlivesTasks ==
  loop = "deleted" =>
    Outstanding = {} /\ armed = {} /\ activeCount = 0 /\ \A n \in Names : ~Tracked(n)

\* The bookkeeping of the service survives the end, the move and the replacement of the
\* Loop under it, with tasks in flight and calls from after-work callbacks of the draining.
BookkeepingKept == IndInv

\* Every accepted task is reported, with its name free again by then, also when its Loop is
\* destroyed, moved or replaced before it is done; the exception is a Loop that was stopped
\* as it ended.
TaskReportedDespiteEnd ==
  \A c \in Contexts :
    stage[c] = "queued" ~>
      \/ /\ frame # None /\ frame.ctx = c /\ frame.told
         /\ \A n \in Names : Tracked(n) => tasks[n].workHandle # c
      \/ loop = "abandoned"

\* The end of a Loop comes to an end: its destructor waits for no timer and no task for
\* ever, also when after-work callbacks submit a few more tasks, with timeouts, meanwhile.
LoopEnds == Draining ~> ~Draining
=============================================================================
