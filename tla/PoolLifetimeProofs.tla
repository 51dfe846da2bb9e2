------------------------- MODULE PoolLifetimeProofs -------------------------
(***************************************************************************)
(* The safety of PoolLifetime for every set of names, cells and threads:   *)
(* the inductive invariant of ThreadPoolService survives the end of the    *)
(* service and of the loop, and after either end nothing is left that      *)
(* would need it.                                                          *)
(***************************************************************************)
EXTENDS PoolLifetime, ThreadPoolRefinementProofs

\* With activeCount_ = 0 and no submit() in progress libuv has given everything back.
LEMMA NothingInFlight ==
  ASSUME IndInv, Ready, activeCount = 0
  PROVE  Outstanding = {}
<1>1. Cardinality(Outstanding) = 0
  BY OutstandingFinite DEF IndInv, CountersConsistent, Ready
<1> QED
  BY <1>1, OutstandingFinite, FS_EmptySet

\* When it has, and no report is in progress, the table is empty and the counter is zero.
LEMMA NothingTracked ==
  ASSUME IndInv, Ready, frame = None, Outstanding = {}
  PROVE  activeCount = 0 /\ \A n \in Names : ~Tracked(n)
<1>1. activeCount = 0
  BY FS_EmptySet DEF IndInv, CountersConsistent, Ready
<1>2. ASSUME NEW n \in Names, Tracked(n) PROVE FALSE
  <2>1. CASE tasks[n].workHandle = None
    BY <1>2, <2>1 DEF IndInv, EntryWithoutHandle, Ready
  <2>2. CASE tasks[n].workHandle # None
    <3>1. tasks[n].workHandle \in Contexts
      BY <1>2, <2>2 DEF IndInv, TypeOK, TaskEntry, Tracked
    <3>2. stage[tasks[n].workHandle] \in InFlight
      BY <1>2, <2>2 DEF IndInv, HandleNeverDangles
    <3> QED
      BY <3>1, <3>2 DEF Outstanding
  <2> QED
    BY <2>1, <2>2
<1> QED
  BY <1>1, <1>2

-----------------------------------------------------------------------------
\* A step of the service is a step of ThreadPoolService.
LEMMA ServiceStepIsNext == ServiceStep => Next /\ UNCHANGED ends
BY DEF ServiceStep, Next, ClientStep, PoolStep

\* The destructor of the service finds no task.
LEMMA DestroyServiceInv ==
  ASSUME IndInv, DestroyService
  PROVE  IndInv'
<1>1. Outstanding = {} /\ lpc = "ready" /\ activeCount = 0
  BY NothingInFlight DEF DestroyService, Idle, ClientActs, Ready
<1>2. \A n \in Names : ~Tracked(n)'
  BY DEF DestroyService, Tracked
<1>3. \A c \in Contexts : stage[c] \notin InFlight
  BY <1>1 DEF Outstanding
<1>4. TypeOK'
  BY DEF IndInv, DestroyService, TypeOK, uv, pool, local, history
<1>5. CountersConsistent' /\ RequestsOwned'
  BY DEF IndInv, DestroyService, CountersConsistent, RequestsOwned, Outstanding, uv, pool
<1>6. RequestsTracked' /\ HandleNeverDangles' /\ EntryWithoutHandle' /\ StatusSound'
  <2>1. RequestsTracked'
    BY <1>3 DEF DestroyService, RequestsTracked, uv
  <2>2. HandleNeverDangles' /\ EntryWithoutHandle'
    BY <1>2 DEF HandleNeverDangles, EntryWithoutHandle
  <2>3. StatusSound'
    BY <1>3 DEF DestroyService, StatusSound, InFlight, uv
  <2> QED
    BY <2>1, <2>2, <2>3
<1>7. CallConsistent' /\ CompletionFindsEntry' /\ ErasedHasNoTimeout'
  BY <1>1
  DEF IndInv, DestroyService, CallConsistent, CompletionFindsEntry, ErasedHasNoTimeout,
      uv, local
<1>8. TimeoutTargetsOwnTask'
  BY DEF DestroyService, TimeoutTargetsOwnTask
<1>9. RanIsTrue' /\ ResultTellsTruth' /\ CancelIsHonoured'
  BY DEF IndInv, DestroyService, RanIsTrue, ResultTellsTruth, CancelIsHonoured, uv, history
<1> QED
  BY <1>4, <1>5, <1>6, <1>7, <1>8, <1>9 DEF IndInv

\* closeAllHandles only takes timers away.
LEMMA EndLoopInv ==
  ASSUME IndInv, NEW to, EndLoop(to)
  PROVE  IndInv'
<1> USE DEF EndLoop, CloseAllHandles, uv, pool, local, history
<1>1. TypeOK'
  BY DEF IndInv, TypeOK
<1>2. CountersConsistent' /\ RequestsOwned' /\ RequestsTracked' /\ CallConsistent'
  BY DEF IndInv, CountersConsistent, RequestsOwned, RequestsTracked, CallConsistent,
         Outstanding, Tracked
<1>3. HandleNeverDangles' /\ EntryWithoutHandle' /\ CompletionFindsEntry' /\ StatusSound'
  BY DEF IndInv, HandleNeverDangles, EntryWithoutHandle, CompletionFindsEntry, StatusSound,
         Tracked
<1>4. TimeoutTargetsOwnTask' /\ ErasedHasNoTimeout'
  BY DEF TimeoutTargetsOwnTask, ErasedHasNoTimeout
<1>5. RanIsTrue' /\ ResultTellsTruth' /\ CancelIsHonoured'
  BY DEF IndInv, RanIsTrue, ResultTellsTruth, CancelIsHonoured
<1> QED
  BY <1>1, <1>2, <1>3, <1>4, <1>5 DEF IndInv

LEMMA LifeNextInv == IndInv /\ [LifeNext]_allVars => IndInv'
<1> SUFFICES ASSUME IndInv, [LifeNext]_allVars PROVE IndInv'
  OBVIOUS
<1>1. CASE ServiceStep
  BY <1>1, ServiceStepIsNext, NextInv
<1>2. CASE DestroyService
  BY <1>2, DestroyServiceInv
<1>3. CASE DestroyLoop \/ ReplaceLoop
  BY <1>3, EndLoopInv DEF DestroyLoop, ReplaceLoop
<1>4. CASE MoveLoop \/ LoopEnded \/ StopLoop
  <2>1. UNCHANGED vars
    BY <1>4 DEF MoveLoop, LoopEnded, StopLoop
  <2> QED
    BY <2>1, NextInv
<1>5. CASE UNCHANGED allVars
  BY <1>5, NextInv DEF allVars
<1> QED
  BY <1>1, <1>2, <1>3, <1>4, <1>5 DEF LifeNext

\* The bookkeeping of the service survives the end of the service and of the loop.
THEOREM BookkeepingCorrect == LifeSpec => []BookkeepingKept
<1>1. LifeInit => IndInv
  BY InitInv DEF LifeInit
<1> QED
  BY <1>1, LifeNextInv, PTL DEF LifeSpec, BookkeepingKept

-----------------------------------------------------------------------------
\* Nothing is in flight, in progress or armed, and the service cannot be called.
AtRest ==
  /\ Outstanding = {} /\ armed = {}
  /\ \A w \in Threads : wpc[w] = "idle"
  /\ lpc = "ready"

\* A destroyed service is at rest.  A deleted loop has in addition no report in progress
\* and an empty table.
EndsAtRest ==
  /\ service = "destroyed" => AtRest
  /\ loop = "deleted" =>
       AtRest /\ frame = None /\ activeCount = 0 /\ \A n \in Names : ~Tracked(n)

\* Where no request is in flight no pool thread is busy.
LEMMA ThreadsIdle ==
  ASSUME IndInv, Outstanding = {}
  PROVE  \A w \in Threads : wpc[w] = "idle"
BY DEF IndInv, RequestsOwned, Outstanding, InFlight

\* At rest only the return of the client's last callback is left to happen.
LEMMA RestStep ==
  ASSUME IndInv, AtRest, service = "destroyed" \/ ~Usable, ServiceStep
  PROVE  DeleteContext
<1>1. ASSUME CallStep PROVE FALSE
  BY <1>1
  DEF AtRest, CallStep, InsertEntry, QueueWork, QueueFails, StoreHandle, EraseRejected,
      WorkCancel, FinishTask, EraseEntry
<1>2. ASSUME NEW w \in Threads, (\E c \in Contexts : PickUp(w, c)) \/ RunWork(w) PROVE FALSE
  BY <1>2 DEF AtRest, PickUp, RunWork, Outstanding, InFlight
<1>3. ASSUME NEW w \in Threads, Lookup(w) \/ MarkInProgress(w) PROVE FALSE
  BY <1>3 DEF AtRest, Lookup, MarkInProgress
<1> QED
  BY <1>1, <1>2, <1>3 DEF ServiceStep, AtRest

\* It leaves everything at rest.
LEMMA DeleteContextRest ==
  ASSUME IndInv, AtRest, DeleteContext
  PROVE  AtRest'
<1>1. stage[frame.ctx] = "after" /\ frame.ctx \in Contexts
  BY DEF IndInv, TypeOK, RequestsOwned, DeleteContext, Frame
<1>2. Outstanding' = Outstanding
  BY <1>1 DEF DeleteContext, Outstanding, InFlight, IndInv, TypeOK
<1> QED
  BY <1>2 DEF AtRest, DeleteContext, code, pool, Ready

LEMMA EndsStep == IndInv /\ EndsAtRest /\ [LifeNext]_allVars => EndsAtRest'
<1> SUFFICES ASSUME IndInv, EndsAtRest, [LifeNext]_allVars PROVE EndsAtRest'
  OBVIOUS
<1>1. CASE ServiceStep
  <2>1. UNCHANGED ends
    BY <1>1, ServiceStepIsNext
  <2>2. CASE service = "destroyed"
    <3>1. DeleteContext /\ AtRest'
      BY <1>1, <2>2, RestStep, DeleteContextRest DEF EndsAtRest
    <3> QED
      BY <2>1, <3>1 DEF EndsAtRest, DeleteContext, ends
  <2>3. CASE loop = "deleted"
    <3>1. DeleteContext
      BY <1>1, <2>3, RestStep DEF EndsAtRest, Usable
    <3> QED
      BY <2>3, <3>1 DEF EndsAtRest, DeleteContext
  <2> QED
    BY <2>1, <2>2, <2>3 DEF EndsAtRest, ends
<1>2. CASE DestroyService
  <2>1. Outstanding = {} /\ lpc = "ready" /\ activeCount = 0
    BY <1>2, NothingInFlight DEF DestroyService, Idle, ClientActs, Ready
  <2>2. AtRest'
    BY <1>2, <2>1, ThreadsIdle DEF DestroyService, AtRest, Outstanding, uv, pool
  <2> QED
    BY <1>2, <2>1, <2>2 DEF DestroyService, EndsAtRest, Tracked
<1>3. CASE DestroyLoop \/ ReplaceLoop
  <2>1. ASSUME AtRest PROVE AtRest'
    BY <1>3, <2>1
    DEF DestroyLoop, ReplaceLoop, EndLoop, CloseAllHandles, AtRest, Outstanding, uv, pool
  <2> QED
    BY <1>3, <2>1 DEF DestroyLoop, ReplaceLoop, EndLoop, EndsAtRest
<1>4. CASE LoopEnded
  <2>1. UNCHANGED vars /\ service' = service
    BY <1>4 DEF LoopEnded
  <2>2. AtRest' <=> AtRest
    BY <2>1 DEF AtRest, Outstanding, vars, code, uv, pool
  <2>3. ASSUME loop' = "deleted"
        PROVE  AtRest /\ frame = None /\ activeCount = 0 /\ \A n \in Names : ~Tracked(n)
    BY <1>4, <2>3, NothingTracked, ThreadsIdle DEF LoopEnded, NothingAlive, AtRest, Ready
  <2> QED
    BY <2>1, <2>2, <2>3 DEF EndsAtRest, Tracked, vars, code
<1>5. CASE MoveLoop \/ StopLoop \/ UNCHANGED allVars
  <2>1. UNCHANGED <<vars, service, loop>>
    BY <1>5 DEF MoveLoop, StopLoop, allVars, ends
  <2> QED
    BY <2>1 DEF EndsAtRest, AtRest, Outstanding, Tracked, vars, code, uv, pool
<1> QED
  BY <1>1, <1>2, <1>3, <1>4, <1>5 DEF LifeNext

THEOREM EndsInvariance == LifeSpec => []EndsAtRest
<1>1. LifeInit => IndInv /\ EndsAtRest
  BY InitInv DEF LifeInit, EndsAtRest
<1> QED
  BY <1>1, LifeNextInv, EndsStep, PTL DEF LifeSpec

\* No closure that captured the service runs after a client that has seen activeCount() = 0
\* destroyed it.
THEOREM ClosuresCorrect == LifeSpec => []ClosuresFindService
<1>1. EndsAtRest => ClosuresFindService
  BY DEF EndsAtRest, AtRest, ClosuresFindService
<1> QED
  BY <1>1, EndsInvariance, PTL

\* A Loop that was drained to the end is deleted only after every task was delivered.
THEOREM LoopCorrect == LifeSpec => []LoopOutlivesTasks
<1>1. EndsAtRest => LoopOutlivesTasks
  BY DEF EndsAtRest, AtRest, LoopOutlivesTasks
<1> QED
  BY <1>1, EndsInvariance, PTL

-----------------------------------------------------------------------------
\* The ends of the service and of its loop are not seen by a task: nothing happens to it then.
LEMMA EndsAreHidden ==
  ASSUME DestroyService \/ MoveLoop \/ DestroyLoop \/ ReplaceLoop \/ LoopEnded \/ StopLoop
         \/ UNCHANGED allVars
  PROVE  UNCHANGED phase
<1>1. UNCHANGED <<stage, owner, frame, ran>>
  BY DEF DestroyService, MoveLoop, DestroyLoop, ReplaceLoop, EndLoop, LoopEnded, StopLoop,
         allVars, vars, uv, history, code
<1> QED
  BY <1>1, Stutter

\* With its end, and with its loop moved, replaced, drained or lost, the service is still an
\* implementation of TaskLifecycle: no task is run twice, reported twice or falsely, not by
\* the draining of the loop and not by anything submitted from the callbacks it invokes.
THEOREM LifeRefinement == LifeSpec => LifecycleRefined
<1>1. LifeInit => IndInv /\ Abstract!Init
  BY InitInv, InitAbstract DEF LifeInit
<1>2. IndInv /\ [LifeNext]_allVars => IndInv'
  BY LifeNextInv
<1>3. IndInv /\ IndInv' /\ [LifeNext]_allVars => [Abstract!Next]_phase
  <2> SUFFICES ASSUME IndInv, IndInv', [LifeNext]_allVars
               PROVE  [Abstract!Next]_phase
    OBVIOUS
  <2>1. CASE ServiceStep
    BY <2>1, ServiceStepIsNext, NextAbstract
  <2>2. CASE ~ServiceStep
    BY <2>2, EndsAreHidden DEF LifeNext
  <2> QED
    BY <2>1, <2>2
<1> QED
  BY <1>1, <1>2, <1>3, PTL DEF LifeSpec, LifecycleRefined, Abstract!Spec
=============================================================================
