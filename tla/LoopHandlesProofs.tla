-------------------------- MODULE LoopHandlesProofs --------------------------
(***************************************************************************)
(* Proofs about LoopHandles, for any number of objects and handles: the    *)
(* invariant IndInv, and what follows from it about owners, callbacks and  *)
(* the destructor of Loop.                                                 *)
(***************************************************************************)
EXTENDS LoopHandles, TLAPS

LEMMA InitInv == Init => IndInv
BY HandleAssumption
DEF Init, IndInv, TypeOK, States, Clients, OwnerSound, DeadOwnNothing, OpenIsOwned, Open, LoopEnds

\* Each action keeps the invariant.
LEMMA ConstructInv ==
  ASSUME IndInv, NEW o \in Objects, NEW c \in Cells, Construct(o, c) PROVE IndInv'
<1> USE HandleAssumption DEF IndInv, Construct, TypeOK, States
<1>1. TypeOK'
  OBVIOUS
<1>2. OwnerSound' /\ DeadOwnNothing'
  BY DEF OwnerSound, DeadOwnNothing
<1>3. OpenIsOwned'
  BY DEF OpenIsOwned, Open
<1>4. LoopEnds'
  BY DEF LoopEnds, Open, Pending
<1> QED
  BY <1>1, <1>2, <1>3, <1>4

\* A handle that keeps its owner and stays open, or is one that is open already.
LEMMA StartInv ==
  ASSUME IndInv, NEW o \in Objects, Start(o) \/ Stop(o) PROVE IndInv'
<1> DEFINE c == handle[o]
<1>1. /\ c \in Cells /\ Open(c) /\ o \in alive /\ ClientRuns
      /\ \E s \in {"stopped", "active"} : uvh' = [uvh EXCEPT ![c] = s]
      /\ UNCHANGED <<alive, handle, data, loop, stopFlag, client>>
  BY HandleAssumption
  DEF IndInv, TypeOK, States, OwnerSound, Start, Stop, StartResult, isClosing, Open
<1>2. TypeOK' /\ OwnerSound' /\ DeadOwnNothing' /\ OpenIsOwned'
  BY <1>1 DEF IndInv, TypeOK, States, OwnerSound, DeadOwnNothing, OpenIsOwned, Open
<1>3. LoopEnds'
  BY <1>1 DEF IndInv, TypeOK, LoopEnds, Open, Pending
<1> QED
  BY <1>2, <1>3 DEF IndInv

LEMMA CloseInv ==
  ASSUME IndInv, NEW o \in Objects, Close(o) PROVE IndInv'
<1>1. CASE handle[o] # None /\ ~isClosing(handle[o])
  <2>1. /\ handle[o] \in Cells /\ Open(handle[o]) /\ o \in alive
        /\ uvh' = [uvh EXCEPT ![handle[o]] = "closing"]
        /\ data' = [data EXCEPT ![handle[o]] = None]
        /\ handle' = [handle EXCEPT ![o] = None]
        /\ UNCHANGED <<alive, loop, stopFlag, client>>
    BY <1>1 DEF IndInv, TypeOK, States, OwnerSound, Close, CloseHandle, isClosing, Open
  <2>2. TypeOK'
    BY <2>1 DEF IndInv, TypeOK, States
  <2>3. OwnerSound' /\ DeadOwnNothing'
    BY <2>1, HandleAssumption DEF IndInv, TypeOK, OwnerSound, DeadOwnNothing
  <2>4. OpenIsOwned'
    BY <2>1 DEF IndInv, TypeOK, OpenIsOwned, OwnerSound, Open
  <2>5. LoopEnds'
    BY <2>1 DEF IndInv, TypeOK, LoopEnds, Open, Pending
  <2> QED
    BY <2>2, <2>3, <2>4, <2>5 DEF IndInv
<1>2. CASE ~(handle[o] # None /\ ~isClosing(handle[o]))
  BY <1>2
  DEF IndInv, TypeOK, OwnerSound, DeadOwnNothing, OpenIsOwned, LoopEnds, Open, Pending, Close,
      CloseHandle
<1> QED
  BY <1>1, <1>2

LEMMA DestroyInv ==
  ASSUME IndInv, NEW o \in Objects, Destroy(o) PROVE IndInv'
<1>0. /\ alive' = alive \ {o} /\ handle' = [handle EXCEPT ![o] = None] /\ o \in alive
      /\ UNCHANGED <<loop, stopFlag, client>>
  BY DEF Destroy
<1>1. CASE handle[o] # None /\ ~isClosing(handle[o])
  <2>1. /\ handle[o] \in Cells /\ Open(handle[o])
        /\ uvh' = [uvh EXCEPT ![handle[o]] = "closing"]
        /\ data' = [data EXCEPT ![handle[o]] = None]
    BY <1>0, <1>1 DEF IndInv, TypeOK, States, OwnerSound, Destroy, CloseHandle, isClosing, Open
  <2>2. TypeOK'
    BY <1>0, <2>1 DEF IndInv, TypeOK, States
  <2>3. OwnerSound' /\ DeadOwnNothing'
    BY <1>0, <2>1, HandleAssumption DEF IndInv, TypeOK, OwnerSound, DeadOwnNothing
  <2>4. OpenIsOwned'
    BY <1>0, <2>1 DEF IndInv, TypeOK, OpenIsOwned, OwnerSound, Open
  <2>5. LoopEnds'
    BY <1>0, <2>1 DEF IndInv, TypeOK, LoopEnds, Open, Pending
  <2> QED
    BY <2>2, <2>3, <2>4, <2>5 DEF IndInv
<1>2. CASE ~(handle[o] # None /\ ~isClosing(handle[o]))
  <2>1. UNCHANGED <<uvh, data>> /\ (handle[o] # None => ~Open(handle[o]))
    BY <1>2 DEF Destroy, CloseHandle, isClosing, Open
  <2>2. TypeOK' /\ LoopEnds'
    BY <1>0, <2>1 DEF IndInv, TypeOK, LoopEnds, Open, Pending
  <2>3. OwnerSound' /\ DeadOwnNothing'
    BY <1>0, <2>1 DEF IndInv, TypeOK, OwnerSound, DeadOwnNothing
  <2>4. OpenIsOwned'
    BY <1>0, <2>1, HandleAssumption DEF IndInv, TypeOK, OpenIsOwned, Open
  <2> QED
    BY <2>2, <2>3, <2>4 DEF IndInv
<1> QED
  BY <1>1, <1>2

LEMMA MoveInv ==
  ASSUME IndInv, NEW o \in Objects, NEW p \in Objects, Move(o, p) PROVE IndInv'
<1>1. /\ o \in alive /\ p \notin alive /\ o # p /\ alive' = alive \cup {p}
      /\ handle' = [handle EXCEPT ![p] = handle[o], ![o] = None]
      /\ data' = IF handle[o] # None THEN [data EXCEPT ![handle[o]] = p] ELSE data
      /\ UNCHANGED <<uvh, loop, stopFlag, client>> /\ ClientRuns
  BY DEF Move
<1>2. TypeOK'
  BY <1>1 DEF IndInv, TypeOK
<1>3. OwnerSound' /\ DeadOwnNothing'
  BY <1>1 DEF IndInv, TypeOK, OwnerSound, DeadOwnNothing
<1>4. OpenIsOwned'
  BY <1>1, HandleAssumption DEF IndInv, TypeOK, OpenIsOwned, OwnerSound, Open
<1>5. LoopEnds'
  BY <1>1 DEF IndInv, TypeOK, LoopEnds, Open, Pending, ClientRuns
<1> QED
  BY <1>2, <1>3, <1>4, <1>5 DEF IndInv

LEMMA FireInv ==
  ASSUME IndInv, NEW c \in Cells, Fire(c) PROVE IndInv'
<1>1. /\ Open(c) /\ loop = "running"
      /\ \E s \in {"stopped", "active"} : uvh' = [uvh EXCEPT ![c] = s]
      /\ UNCHANGED <<alive, handle, data, loop, stopFlag, client>>
  BY DEF Fire, Open
<1>2. TypeOK' /\ OwnerSound' /\ DeadOwnNothing' /\ OpenIsOwned'
  BY <1>1 DEF IndInv, TypeOK, States, OwnerSound, DeadOwnNothing, OpenIsOwned, Open
<1>3. LoopEnds'
  BY <1>1 DEF IndInv, TypeOK, LoopEnds, Open, Pending
<1> QED
  BY <1>2, <1>3 DEF IndInv

LEMMA OnCloseInv ==
  ASSUME IndInv, NEW c \in Cells, OnClose(c) PROVE IndInv'
<1>1. /\ uvh' = [uvh EXCEPT ![c] = IF @ = "closing" THEN "free" ELSE "closed"]
      /\ uvh[c] \in {"closing", "forced"} /\ loop \in {"running", "draining"}
      /\ UNCHANGED <<alive, handle, data, loop, stopFlag, client>>
  BY DEF OnClose, Pending
<1>2. TypeOK' /\ OwnerSound' /\ DeadOwnNothing' /\ OpenIsOwned'
  BY <1>1 DEF IndInv, TypeOK, States, OwnerSound, DeadOwnNothing, OpenIsOwned, Open
<1>3. LoopEnds'
  BY <1>1 DEF IndInv, TypeOK, LoopEnds, Open, Pending
<1> QED
  BY <1>2, <1>3 DEF IndInv

\* Entering and leaving uv_run.
LEMMA RunInv ==
  ASSUME IndInv, Run \/ RunReturns \/ StopLoop \/ DeleteLoop PROVE IndInv'
<1>1. UNCHANGED <<alive, handle, uvh, data, client>>
  BY DEF Run, RunReturns, StopLoop, DeleteLoop
<1>2. TypeOK' /\ OwnerSound' /\ DeadOwnNothing' /\ OpenIsOwned'
  BY <1>1
  DEF IndInv, TypeOK, OwnerSound, DeadOwnNothing, OpenIsOwned, Open, Run, RunReturns,
      StopLoop, DeleteLoop
<1>3. LoopEnds'
  BY <1>1 DEF IndInv, TypeOK, LoopEnds, Open, Pending, Run, RunReturns, StopLoop, DeleteLoop
<1> QED
  BY <1>2, <1>3 DEF IndInv

LEMMA DestroyLoopInv == ASSUME IndInv, DestroyLoop PROVE IndInv'
<1>1. /\ uvh' = [c \in Cells |-> IF Open(c) THEN "forced" ELSE uvh[c]]
      /\ UNCHANGED <<alive, handle, data, stopFlag, client>> /\ loop = "idle"
      /\ client.outlives => alive = {}
      /\ loop' = IF stopFlag THEN "deleted" ELSE "draining"
  BY DEF DestroyLoop, CloseAllHandles, Open
<1>2. TypeOK' /\ OwnerSound' /\ DeadOwnNothing' /\ OpenIsOwned'
  BY <1>1 DEF IndInv, TypeOK, States, OwnerSound, DeadOwnNothing, OpenIsOwned, Open
<1>3. LoopEnds'
  BY <1>1 DEF IndInv, TypeOK, LoopEnds, OpenIsOwned, Open, Pending
<1> QED
  BY <1>2, <1>3 DEF IndInv

LEMMA NextInv == IndInv /\ [Next]_vars => IndInv'
<1> SUFFICES ASSUME IndInv, [Next]_vars PROVE IndInv'
  OBVIOUS
<1>1. CASE ClientStep
  BY <1>1, ConstructInv, StartInv, CloseInv, DestroyInv, MoveInv DEF ClientStep
<1>2. CASE LoopStep
  BY <1>2, FireInv, OnCloseInv, RunInv, DestroyLoopInv DEF LoopStep
<1>3. CASE UNCHANGED vars
  BY <1>3
  DEF vars, IndInv, TypeOK, OwnerSound, DeadOwnNothing, OpenIsOwned, LoopEnds, Open, Pending
<1> QED
  BY <1>1, <1>2, <1>3 DEF Next

THEOREM Invariance == Spec => []IndInv
<1>1. Init => IndInv
  BY InitInv
<1>2. IndInv /\ [Next]_vars => IndInv'
  BY NextInv
<1> QED
  BY <1>1, <1>2, PTL DEF Spec

\* Every variable keeps to its type.
THEOREM TypeCorrect == Spec => []TypeOK
<1>1. IndInv => TypeOK
  BY DEF IndInv
<1> QED
  BY <1>1, Invariance, PTL

\* No call through handle_ reaches a deleted handle, and none is closed twice.
THEOREM OwnersCorrect == Spec => []OwnerSound
<1>1. IndInv => OwnerSound
  BY DEF IndInv
<1> QED
  BY <1>1, Invariance, PTL

\* A timer callback always finds the live owner of its handle.
THEOREM CallbacksCorrect == Spec => []CallbackFindsOwner
<1>1. IndInv => CallbackFindsOwner
  BY DEF IndInv, OpenIsOwned, Open, CallbackFindsOwner
<1> QED
  BY <1>1, Invariance, PTL

\* No uv_timer_t is lost, unless Loop::stop is called between runs or a Timer outlives the Loop.
THEOREM HandlesFreed == Spec => []NothingLeaks
<1>1. IndInv => NothingLeaks
  <2> SUFFICES ASSUME IndInv, NEW c \in Cells, uvh[c] # "free"
               PROVE  \/ \E o \in alive : handle[o] = c
                      \/ uvh[c] = "closing" /\ (loop = "deleted" => client.stopsIdle)
                      \/ uvh[c] \in {"forced", "closed"} /\ ~client.outlives
    BY DEF NothingLeaks
  <2>1. CASE Open(c)
    BY <2>1 DEF IndInv, OpenIsOwned
  <2>2. CASE uvh[c] = "closing"
    BY <2>2 DEF IndInv, LoopEnds, Pending
  <2>3. CASE uvh[c] \in {"forced", "closed"}
    BY <2>3 DEF IndInv, LoopEnds
  <2> QED
    BY <2>1, <2>2, <2>3 DEF IndInv, TypeOK, States, Open
<1> QED
  BY <1>1, Invariance, PTL

\* If Loop::stop is only called inside Loop::run, a Loop is deleted with nothing open.
THEOREM LoopsCleanUp == Spec => []LoopCleansUp
<1>1. IndInv => LoopCleansUp
  BY DEF IndInv, TypeOK, States, LoopEnds, Open, Pending, LoopCleansUp, CleanedUp
<1> QED
  BY <1>1, Invariance, PTL
=============================================================================
