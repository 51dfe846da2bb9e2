--------------------- MODULE ThreadPoolRefinementProofs ---------------------
(***************************************************************************)
(* Proof that ThreadPoolService implements TaskLifecycle: under the        *)
(* mapping phase the initial state is the abstract one, and every step is  *)
(* an abstract step of one name or leaves every phase as it is.            *)
(***************************************************************************)
EXTENDS ThreadPoolServiceProofs

\* Two requests in flight never belong to the same name: both would be the handle of
\* the one entry.
LEMMA OnePerName ==
  ASSUME IndInv, NEW c \in Contexts, NEW d \in Contexts,
         stage[c] \in InFlight, stage[d] \in InFlight, owner[c] = owner[d]
  PROVE  c = d
BY PoolAssumption DEF IndInv, RequestsTracked

\* The phase of a name with a request in flight is what libuv does with the request.
InFlightPhases ==
  \A c \in Contexts :
    /\ stage[c] \in InFlight => owner[c] \in Names
    /\ stage[c] = "queued" => phase[owner[c]] = "waiting"
    /\ stage[c] = "running" => phase[owner[c]] = "running"
    /\ stage[c] = "done" => phase[owner[c]] = "executed"
    /\ stage[c] = "cancelled" => phase[owner[c]] = "withdrawn"

\* The phase of a name without one: the report in progress, if it is about that name.
RestPhases ==
  \A n \in Names : (\A c \in Contexts : stage[c] \in InFlight => owner[c] # n) =>
    phase[n] = IF frame # None /\ owner[frame.ctx] = n THEN FramePhase ELSE "absent"

\* The invariant determines both.
LEMMA PhaseInFlight == IndInv => InFlightPhases
<1> SUFFICES ASSUME IndInv, NEW c \in Contexts, stage[c] \in InFlight
             PROVE  /\ owner[c] \in Names
                    /\ stage[c] = "queued" => phase[owner[c]] = "waiting"
                    /\ stage[c] = "running" => phase[owner[c]] = "running"
                    /\ stage[c] = "done" => phase[owner[c]] = "executed"
                    /\ stage[c] = "cancelled" => phase[owner[c]] = "withdrawn"
  BY DEF InFlightPhases, InFlight
<1>1. owner[c] \in Names
  BY DEF IndInv, TypeOK, RequestsOwned, InFlight
<1>2. \A s \in InFlight : HasRequest(owner[c], s) <=> s = stage[c]
  BY OnePerName DEF HasRequest
<1> QED
  BY <1>1, <1>2 DEF phase, PhaseOf, InFlight

LEMMA PhaseAtRest == IndInv => RestPhases
<1> SUFFICES ASSUME IndInv, NEW n \in Names,
                    \A c \in Contexts : stage[c] \in InFlight => owner[c] # n
             PROVE  phase[n] = IF frame # None /\ owner[frame.ctx] = n
                               THEN FramePhase ELSE "absent"
  BY DEF RestPhases
<1>1. \A s \in InFlight : ~HasRequest(n, s)
  BY DEF HasRequest
<1>2. HasRequest(n, "after") <=> frame # None /\ owner[frame.ctx] = n
  BY DEF IndInv, TypeOK, Frame, RequestsOwned, HasRequest
<1> QED
  BY <1>1, <1>2 DEF phase, PhaseOf, InFlight

\* And so they hold after a step that keeps it.
LEMMA PhasesNext == IndInv' => InFlightPhases' /\ RestPhases'
BY PhaseInFlight, PhaseAtRest, PTL

\* A name keeps its phase in a step that changes none of its requests and, if it is the
\* one being reported, nothing of the report.
LEMMA PhaseKept ==
  ASSUME NEW n \in Names,
         \A s \in Stages : HasRequest(n, s)' <=> HasRequest(n, s),
         HasRequest(n, "after") => FramePhase' = FramePhase
  PROVE  phase'[n] = phase[n]
BY DEF phase, PhaseOf, Stages, InFlight

\* A step that touches neither requests nor their report is a stutter.
LEMMA Stutter ==
  ASSUME UNCHANGED <<stage, owner, frame, ran>>
  PROVE  UNCHANGED phase
<1>1. \A n \in Names : phase'[n] = phase[n]
  BY PhaseKept DEF HasRequest, FramePhase
<1> QED
  BY <1>1 DEF phase

\* A step of one name that leaves the phases of the others alone.
LEMMA StepOf ==
  ASSUME NEW n \in Names, NEW from, NEW to, phase[n] \in from, phase'[n] = to,
         \A m \in Names \ {n} : phase'[m] = phase[m]
  PROVE  Abstract!Step(n, from, to)
<1>1. phase' = [phase EXCEPT ![n] = to]
  BY DEF phase
<1> QED
  BY <1>1 DEF Abstract!Step

-----------------------------------------------------------------------------
(* The actions the abstract specification sees. *)

\* A request leaves the queue of the pool without having run.
LEMMA WithdrawStep ==
  ASSUME IndInv, IndInv', NEW c \in Contexts, UvCancel(c), stage[c] \in InFlight,
         UNCHANGED <<owner, frame, ran>>
  PROVE  [Abstract!Next]_phase
<1>1. CASE stage[c] = "queued"
  <2>1. stage' = [stage EXCEPT ![c] = "cancelled"]
    BY <1>1 DEF UvCancel, Cancellable
  <2>2. owner[c] \in Names /\ phase[owner[c]] = "waiting"
    BY <1>1, PhaseInFlight DEF InFlightPhases
  <2>3. phase'[owner[c]] = "withdrawn"
    BY <2>1, PhasesNext DEF InFlightPhases, IndInv, TypeOK
  <2>4. \A m \in Names \ {owner[c]} : phase'[m] = phase[m]
    BY <2>1, PhaseKept DEF HasRequest, FramePhase, IndInv, TypeOK
  <2>5. Abstract!Withdraw(owner[c])
    BY <2>2, <2>3, <2>4, StepOf DEF Abstract!Withdraw
  <2> QED
    BY <2>2, <2>5 DEF Abstract!Next
<1>2. CASE stage[c] # "queued"
  BY <1>2, Stutter DEF UvCancel, Cancellable, IndInv, TypeOK
<1> QED
  BY <1>1, <1>2

\* cancel() and the timeout withdraw the request of an entry.
LEMMA WorkCancelStep == ASSUME IndInv, IndInv', WorkCancel PROVE [Abstract!Next]_phase
BY WithdrawStep DEF WorkCancel, IndInv, CallConsistent

LEMMA TimeoutFiresStep ==
  ASSUME IndInv, IndInv', NEW t \in armed, TimeoutFires(t) PROVE [Abstract!Next]_phase
<1>1. Tracked(t.name) /\ tasks[t.name].workHandle = t.ctx /\ t.ctx \in Contexts /\ t.name \in Names
  BY DEF IndInv, TypeOK, TimeoutTargetsOwnTask
<1>2. stage[t.ctx] \in InFlight
  BY <1>1, PoolAssumption DEF IndInv, HandleNeverDangles, TimeoutFires, Ready
<1> QED
  BY <1>1, <1>2, WithdrawStep DEF TimeoutFires

\* A request is queued for a name that has none.
LEMMA QueueWorkStep ==
  ASSUME IndInv, IndInv', NEW c \in Contexts, QueueWork(c) PROVE [Abstract!Next]_phase
<1>1. /\ stage' = [stage EXCEPT ![c] = "queued"] /\ owner' = [owner EXCEPT ![c] = lname]
      /\ stage[c] = "free" /\ frame' = frame /\ ran' = ran \ {c} /\ lname \in Names
      /\ owner[c] = None
  BY DEF IndInv, CallConsistent, QueueWork, RequestsOwned
<1>2. \A d \in Contexts : stage[d] \in InFlight => owner[d] # lname
  BY PoolAssumption DEF IndInv, QueueWork, RequestsTracked, CallConsistent
<1>3. frame # None => frame.told /\ frame.ctx # c
  BY <1>1 DEF IndInv, QueueWork, CallConsistent, RequestsOwned
<1>4. phase[lname] \in {"absent", "succeeded", "cancelled"}
  BY <1>1, <1>2, <1>3, PhaseAtRest DEF RestPhases, FramePhase
<1>5. phase'[lname] = "waiting"
  BY <1>1, PhasesNext DEF InFlightPhases, IndInv, TypeOK
<1>6. \A m \in Names \ {lname} : phase'[m] = phase[m]
  <2> SUFFICES ASSUME NEW m \in Names \ {lname} PROVE phase'[m] = phase[m]
    OBVIOUS
  <2>1. \A s \in Stages : HasRequest(m, s)' <=> HasRequest(m, s)
    BY <1>1, PoolAssumption DEF HasRequest, IndInv, TypeOK
  <2>2. HasRequest(m, "after") => FramePhase' = FramePhase
    BY <1>1, <1>3 DEF HasRequest, FramePhase, IndInv, RequestsOwned
  <2> QED
    BY <2>1, <2>2, PhaseKept
<1>7. Abstract!Accept(lname)
  BY <1>1, <1>4, <1>5, <1>6, StepOf DEF Abstract!Accept
<1> QED
  BY <1>1, <1>7 DEF Abstract!Next

\* A pool thread takes a request.
LEMMA PickUpStep ==
  ASSUME IndInv, IndInv', NEW w \in Threads, NEW c \in Contexts, PickUp(w, c)
  PROVE  [Abstract!Next]_phase
<1>1. /\ stage' = [stage EXCEPT ![c] = "running"] /\ stage[c] = "queued"
      /\ UNCHANGED <<owner, frame, ran>>
  BY DEF PickUp, history
<1>2. owner[c] \in Names /\ phase[owner[c]] = "waiting"
  BY <1>1, PhaseInFlight DEF InFlightPhases, InFlight
<1>3. phase'[owner[c]] = "running"
  BY <1>1, PhasesNext DEF InFlightPhases, IndInv, TypeOK
<1>4. \A m \in Names \ {owner[c]} : phase'[m] = phase[m]
  BY <1>1, PhaseKept DEF HasRequest, FramePhase, IndInv, TypeOK
<1>5. Abstract!Start(owner[c])
  BY <1>2, <1>3, <1>4, StepOf DEF Abstract!Start
<1> QED
  BY <1>2, <1>5 DEF Abstract!Next

\* The work callback of a request has run.
LEMMA RunWorkStep ==
  ASSUME IndInv, IndInv', NEW w \in Threads, RunWork(w) PROVE [Abstract!Next]_phase
<1> DEFINE c == wctx[w]
<1>1. /\ c \in Contexts /\ stage[c] = "running" /\ stage' = [stage EXCEPT ![c] = "done"]
      /\ ran' = ran \cup {c} /\ UNCHANGED <<owner, frame>>
  BY DEF RunWork, IndInv, RequestsOwned
<1>2. owner[c] \in Names /\ phase[owner[c]] = "running"
  BY <1>1, PhaseInFlight DEF InFlightPhases, InFlight
<1>3. phase'[owner[c]] = "executed"
  BY <1>1, PhasesNext DEF InFlightPhases, IndInv, TypeOK
<1>4. \A m \in Names \ {owner[c]} : phase'[m] = phase[m]
  <2>1. frame # None => frame.ctx # c
    BY <1>1 DEF IndInv, RequestsOwned
  <2> SUFFICES ASSUME NEW m \in Names \ {owner[c]} PROVE phase'[m] = phase[m]
    OBVIOUS
  <2>2. \A s \in Stages : HasRequest(m, s)' <=> HasRequest(m, s)
    BY <1>1 DEF HasRequest, IndInv, TypeOK
  <2>3. HasRequest(m, "after") => FramePhase' = FramePhase
    BY <1>1, <2>1 DEF HasRequest, FramePhase, IndInv, RequestsOwned
  <2> QED
    BY <2>2, <2>3, PhaseKept
<1>5. Abstract!Execute(owner[c])
  BY <1>2, <1>3, <1>4, StepOf DEF Abstract!Execute
<1> QED
  BY <1>2, <1>5 DEF Abstract!Next

\* The loop takes a request back; what happened to the task stays what it was.
LEMMA AfterWorkStep ==
  ASSUME IndInv, IndInv', NEW c \in Contexts, AfterWork(c) PROVE [Abstract!Next]_phase
<1>1. /\ stage' = [stage EXCEPT ![c] = "after"] /\ stage[c] \in {"done", "cancelled"}
      /\ frame = None /\ frame'.ctx = c /\ ~frame'.told /\ UNCHANGED <<owner, ran>>
  BY DEF AfterWork, history
<1>2. owner[c] \in Names
  BY <1>1, PhaseInFlight DEF InFlightPhases, InFlight
<1>3. phase'[owner[c]] = phase[owner[c]]
  <2>1. phase[owner[c]] = IF c \in ran THEN "executed" ELSE "withdrawn"
    BY <1>1, PhaseInFlight DEF InFlightPhases, IndInv, RanIsTrue
  <2>2. \A d \in Contexts : stage'[d] \in InFlight => owner'[d] # owner'[c]
    BY <1>1, OnePerName DEF IndInv, TypeOK, InFlight
  <2>3. frame' # None
    BY <1>1 DEF IndInv, TypeOK, RequestsOwned
  <2> QED
    BY <1>1, <1>2, <2>1, <2>2, <2>3, PhasesNext DEF RestPhases, FramePhase
<1>4. \A m \in Names \ {owner[c]} : phase'[m] = phase[m]
  BY <1>1, PhaseKept DEF HasRequest, IndInv, TypeOK, RequestsOwned
<1> QED
  BY <1>2, <1>3, <1>4 DEF phase

\* onTaskComplete invokes the client's callback with what happened to the task.
LEMMA EraseEntryStep ==
  ASSUME IndInv, IndInv', EraseEntry PROVE [Abstract!Next]_phase
<1>1. /\ UNCHANGED <<stage, owner, ran, lname>> /\ frame # None /\ frame' # None
      /\ frame'.ctx = frame.ctx /\ frame'.err = frame.err /\ frame'.told /\ ~frame.told
      /\ owner[frame.ctx] = lname /\ lname \in Names /\ frame.ctx \in Contexts
      /\ frame.err \in Errors /\ stage[frame.ctx] = "after"
  <2>1. frame \in Frame /\ frame # None
    BY DEF IndInv, TypeOK, EraseEntry, CallConsistent
  <2>2. frame' = [frame EXCEPT !.told = TRUE] /\ frame' \in Frame
    BY <2>1 DEF EraseEntry, Frame
  <2> QED
    BY <2>1, <2>2, PoolAssumption
       DEF IndInv, TypeOK, EraseEntry, Frame, CallConsistent, RequestsOwned, uv, history, local
<1>2. \A c \in Contexts : stage[c] \in InFlight => owner[c] # lname
  BY <1>1 DEF IndInv, EraseEntry, RequestsTracked, CompletionFindsEntry, InFlight
<1>3. phase[lname] = IF frame.err = "EE_SUCCESS" THEN "executed" ELSE "withdrawn"
  BY <1>1, <1>2, PhaseAtRest DEF RestPhases, FramePhase, IndInv, ResultTellsTruth, Errors
<1>4. phase'[lname] = IF frame.err = "EE_SUCCESS" THEN "succeeded" ELSE "cancelled"
  BY <1>1, <1>2, PhasesNext DEF RestPhases, FramePhase
<1>5. \A m \in Names \ {lname} : phase'[m] = phase[m]
  <2> SUFFICES ASSUME NEW m \in Names \ {lname} PROVE phase'[m] = phase[m]
    OBVIOUS
  <2>1. \A s \in Stages : HasRequest(m, s)' <=> HasRequest(m, s)
    BY <1>1 DEF HasRequest
  <2>2. ~HasRequest(m, "after")
    BY <1>1 DEF HasRequest, IndInv, RequestsOwned
  <2> QED
    BY <2>1, <2>2, PhaseKept
<1>6. Abstract!ReportSuccess(lname) \/ Abstract!ReportCancelled(lname)
  BY <1>1, <1>3, <1>4, <1>5, StepOf DEF Abstract!ReportSuccess, Abstract!ReportCancelled
<1> QED
  BY <1>1, <1>6 DEF Abstract!Next

\* The name of a reported task is forgotten, unless the callback has submitted it again.
LEMMA DeleteContextStep ==
  ASSUME IndInv, IndInv', DeleteContext PROVE [Abstract!Next]_phase
<1> DEFINE c == frame.ctx
           n == owner[c]
<1>1. /\ frame # None /\ frame.told /\ frame' = None /\ c \in Contexts /\ stage[c] = "after"
      /\ stage' = [stage EXCEPT ![c] = "free"] /\ owner' = [owner EXCEPT ![c] = None]
      /\ ran' = ran /\ n \in Names
  BY DEF IndInv, TypeOK, DeleteContext, Ready, Frame, CallConsistent, RequestsOwned, history
<1>2. \A m \in Names \ {n} : phase'[m] = phase[m]
  <2> SUFFICES ASSUME NEW m \in Names \ {n} PROVE phase'[m] = phase[m]
    OBVIOUS
  <2>1. \A s \in Stages : HasRequest(m, s)' <=> HasRequest(m, s)
    BY <1>1, PoolAssumption DEF HasRequest, IndInv, TypeOK
  <2>2. ~HasRequest(m, "after")
    BY <1>1 DEF HasRequest, IndInv, RequestsOwned
  <2> QED
    BY <2>1, <2>2, PhaseKept
<1>3. CASE \A d \in Contexts : stage[d] \in InFlight => owner[d] # n
  <2>1. phase[n] \in {"succeeded", "cancelled"}
    BY <1>1, <1>3, PhaseAtRest DEF RestPhases, FramePhase
  <2>2. \A d \in Contexts : stage'[d] \in InFlight => owner'[d] # n
    BY <1>1, <1>3 DEF IndInv, TypeOK, InFlight
  <2>3. phase'[n] = "absent"
    BY <1>1, <2>2, PhasesNext DEF RestPhases
  <2>4. Abstract!Forget(n)
    BY <1>1, <1>2, <2>1, <2>3, StepOf DEF Abstract!Forget
  <2> QED
    BY <1>1, <2>4 DEF Abstract!Next
<1>4. CASE \E d \in Contexts : stage[d] \in InFlight /\ owner[d] = n
  <2> PICK d \in Contexts : stage[d] \in InFlight /\ owner[d] = n
    BY <1>4
  <2>1. stage'[d] = stage[d] /\ owner'[d] = n /\ d # c
    BY <1>1 DEF IndInv, TypeOK, InFlight
  <2>2. phase'[n] = phase[n]
    BY <2>1, PhaseInFlight, PhasesNext DEF InFlightPhases, InFlight
  <2>3. \A m \in Names : phase'[m] = phase[m]
    BY <1>2, <2>2
  <2> QED
    BY <2>3 DEF phase
<1> QED
  BY <1>3, <1>4

\* The remaining actions move the loop thread, or a pool thread before its work
\* callback; the abstract specification does not see them.
LEMMA HiddenStep ==
  ASSUME IndInv, IndInv',
         \/ ClientStep
         \/ InsertEntry \/ QueueFails \/ StoreHandle \/ EraseRejected \/ FinishTask
         \/ \E w \in Threads : Lookup(w) \/ MarkInProgress(w)
         \/ UNCHANGED vars
  PROVE  [Abstract!Next]_phase
<1>1. UNCHANGED <<stage, owner, frame, ran>>
  BY DEF ClientStep, Submit, Cancel, InsertEntry, QueueFails, StoreHandle, EraseRejected,
         FinishTask, Lookup, MarkInProgress, vars, uv, history
<1> QED
  BY <1>1, Stutter

-----------------------------------------------------------------------------
(* The refinement. *)

LEMMA InitAbstract == Init => Abstract!Init
<1> SUFFICES ASSUME Init PROVE \A n \in Names : phase[n] = "absent"
  BY DEF Abstract!Init, phase
<1>1. IndInv
  BY InitInv
<1>2. frame = None /\ \A c \in Contexts : stage[c] \notin InFlight
  BY DEF Init, InFlight
<1> QED
  BY <1>1, <1>2, PhaseAtRest DEF RestPhases

LEMMA NextAbstract == IndInv /\ IndInv' /\ [Next]_vars => [Abstract!Next]_phase
<1> SUFFICES ASSUME IndInv, IndInv', [Next]_vars PROVE [Abstract!Next]_phase
  OBVIOUS
<1>1. CASE ClientStep
  BY <1>1, HiddenStep
<1>2. CASE CallStep
  BY <1>2, HiddenStep, QueueWorkStep, WorkCancelStep, EraseEntryStep DEF CallStep
<1>3. CASE DeleteContext
  BY <1>3, DeleteContextStep
<1>4. CASE \E t \in armed : TimeoutFires(t)
  BY <1>4, TimeoutFiresStep
<1>5. CASE \E c \in Contexts : AfterWork(c)
  BY <1>5, AfterWorkStep
<1>6. CASE \E w \in Threads : PoolStep(w)
  BY <1>6, PickUpStep, RunWorkStep, HiddenStep DEF PoolStep
<1>7. CASE UNCHANGED vars
  BY <1>7, HiddenStep
<1> QED
  BY <1>1, <1>2, <1>3, <1>4, <1>5, <1>6, <1>7 DEF Next

\* The thread pool service implements TaskLifecycle for any number of names, Contexts
\* and pool threads: it runs every accepted task at most once, reports it at most once
\* and truthfully, and never has two tasks of one name in flight.
THEOREM Refinement == Spec => LifecycleRefined
<1>1. Init => Abstract!Init
  BY InitAbstract
<1>2. IndInv /\ IndInv' /\ [Next]_vars => [Abstract!Next]_phase
  BY NextAbstract
<1> QED
  BY <1>1, <1>2, Invariance, PTL DEF Spec, LifecycleRefined, Abstract!Spec
=============================================================================
