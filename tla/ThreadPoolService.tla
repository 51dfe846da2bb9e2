------------------------- MODULE ThreadPoolService -------------------------
(***************************************************************************)
(* eventengine::threadpool::ThreadPoolService together with the request    *)
(* wrapper Work it is built on.                                            *)
(*                                                                         *)
(* Two kinds of thread run this code.  The loop thread executes the client *)
(* calls submit and cancel, the timeout callbacks and onTaskComplete; it   *)
(* is described by lpc and its local variables, with frame the Context     *)
(* whose onAfterWork is on its stack while the client's after-work         *)
(* callback runs.  The threads of libuv's pool execute wrappedWork.  Both  *)
(* look into tasks_, which no lock protects; every change of the table is  *)
(* therefore two steps here, and a pool thread that looks a name up        *)
(* between the two may or may not find it.                                 *)
(*                                                                         *)
(* libuv is external: a request it holds is in one of the Stages below.    *)
(* The order in which requests are served is left open.                    *)
(***************************************************************************)
EXTENDS Naturals, FiniteSets

CONSTANTS
  Names,     \* task names (non-empty strings)
  Contexts,  \* heap cells a Work::Context can occupy; reused after delete
  Threads,   \* threads of the libuv pool
  None,      \* null pointer, unknown name
  MaxTasks   \* bound on accepted submissions in one behaviour

VARIABLES
  tasks,          \* tasks_: name -> TaskEntry, None when absent
  activeCount,    \* activeCount_
  completedCount, \* completedCount_
  armed,          \* started timeout timers: captured name, submission that started it
  stage,          \* what libuv does with the request of a Context
  owner,          \* taskName captured by the Context's two closures
  wpc, wctx,      \* pool threads: position in wrappedWork, request being run
  lpc, lname, lctx, ltimed,  \* loop thread: position and locals of the current call
  frame,          \* onAfterWork in progress: its Context and Error, and whether the
                  \* client's callback has been invoked; None when there is none
  ran,            \* history: Contexts whose work callback was executed
  promised,       \* history: Contexts for which cancel() returned success
  expired         \* history: Contexts whose timeout went off

code    == <<tasks, activeCount, completedCount, armed>>
uv      == <<stage, owner>>
pool    == <<wpc, wctx>>
local   == <<lname, lctx, ltimed>>
history == <<ran, promised, expired>>
vars    == <<code, uv, pool, lpc, local, frame, history>>

-----------------------------------------------------------------------------
TaskStatus == {"Queued", "InProgress", "Finished", "Cancelled", "Rejected"}

TaskEntry == [status : TaskStatus, workHandle : Contexts \cup {None}]

\* Life of a uv_work_t: unallocated, in the pool's queue, executed by a thread,
\* in the loop's queue of finished or of cancelled requests, being delivered.
Stages == {"free", "queued", "running", "done", "cancelled", "after"}

InFlight == {"queued", "running", "done", "cancelled"}

Errors == {"EE_SUCCESS", "EE_POOL_CANCELLED"}

Frame == [ctx : Contexts, err : Errors, told : BOOLEAN]

\* None is none of the values it stands for the absence of.
ASSUME PoolAssumption ==
  /\ None \notin Names \cup Contexts \cup TaskEntry \cup Frame
  /\ IsFiniteSet(Contexts)
  /\ MaxTasks \in Nat

\* The requests libuv has not given back.
Outstanding == {c \in Contexts : stage[c] \in InFlight}

\* The loop thread is between two service calls.
Ready == lpc = "ready"

\* The loop thread is inside an operation that restructures the hash table.
Mutating == lpc \in {"insert", "unwind", "erase"}

Tracked(n) == tasks[n] # None

-----------------------------------------------------------------------------
Init ==
  /\ tasks = [n \in Names |-> None]
  /\ activeCount = 0
  /\ completedCount = 0
  /\ armed = {}
  /\ stage = [c \in Contexts |-> "free"]
  /\ owner = [c \in Contexts |-> None]
  /\ wpc = [w \in Threads |-> "idle"]
  /\ wctx = [w \in Threads |-> None]
  /\ lpc = "ready"
  /\ lname = None /\ lctx = None /\ ltimed = FALSE
  /\ frame = None
  /\ ran = {} /\ promised = {} /\ expired = {}

-----------------------------------------------------------------------------
(* submit: an empty or a tracked name is refused without any change. *)

\* Faulty variant: no check for a tracked name.
SubmitUnchecked(n, timed) ==
  /\ Ready
  /\ activeCount + completedCount < MaxTasks
  /\ lpc' = "insert"
  /\ lname' = n
  /\ ltimed' = timed
  /\ UNCHANGED <<code, uv, pool, lctx, frame, history>>

Submit(n, timed) ==
  /\ Ready
  /\ ~Tracked(n)
  /\ activeCount + completedCount < MaxTasks
  /\ lpc' = "insert"
  /\ lname' = n
  /\ ltimed' = timed
  /\ UNCHANGED <<code, uv, pool, lctx, frame, history>>

\* Faulty variant: the task is counted only when a thread takes it.
InsertUncounted ==
  /\ lpc = "insert"
  /\ tasks' = [tasks EXCEPT ![lname] = [status |-> "Queued", workHandle |-> None]]
  /\ lpc' = "queue"
  /\ UNCHANGED <<activeCount, completedCount, armed, uv, pool, local, frame, history>>

\* Faulty variant: the entry is born InProgress.
InsertStarted ==
  /\ lpc = "insert"
  /\ tasks' = [tasks EXCEPT ![lname] = [status |-> "InProgress", workHandle |-> None]]
  /\ activeCount' = activeCount + 1
  /\ lpc' = "queue"
  /\ UNCHANGED <<completedCount, armed, uv, pool, local, frame, history>>

\* tasks_[name] has returned; the entry is filled in and counted.
InsertEntry ==
  /\ lpc = "insert"
  /\ tasks' = [tasks EXCEPT ![lname] = [status |-> "Queued", workHandle |-> None]]
  /\ activeCount' = activeCount + 1
  /\ lpc' = "queue"
  /\ UNCHANGED <<completedCount, armed, uv, pool, local, frame, history>>

\* Work::queue allocates a Context and hands its request to the pool.
QueueWork(c) ==
  /\ lpc = "queue"
  /\ stage[c] = "free"
  /\ stage' = [stage EXCEPT ![c] = "queued"]
  /\ owner' = [owner EXCEPT ![c] = lname]
  /\ lctx' = c
  /\ lpc' = "assign"
  /\ ran' = ran \ {c}
  /\ promised' = promised \ {c}
  /\ expired' = expired \ {c}
  /\ UNCHANGED <<code, pool, lname, ltimed, frame>>

\* A pool thread may already be running the task when its handle is stored.
StoreHandle ==
  /\ lpc = "assign"
  /\ tasks' = [tasks EXCEPT ![lname].workHandle = lctx]
  /\ armed' = IF ltimed THEN armed \cup {[name |-> lname, ctx |-> lctx]} ELSE armed
  /\ lpc' = "ready"
  /\ UNCHANGED <<activeCount, completedCount, uv, pool, local, frame, history>>

\* Faulty variant: the rollback forgets the counter.
QueueFailsCounted ==
  /\ lpc = "queue"
  /\ tasks' = [tasks EXCEPT ![lname].status = "Rejected"]
  /\ lpc' = "unwind"
  /\ UNCHANGED <<activeCount, completedCount, armed, uv, pool, local, frame, history>>

\* uv_queue_work reports an error: the submission is rolled back.
QueueFails ==
  /\ lpc = "queue"
  /\ activeCount' = activeCount - 1
  /\ tasks' = [tasks EXCEPT ![lname].status = "Rejected"]
  /\ lpc' = "unwind"
  /\ UNCHANGED <<completedCount, armed, uv, pool, local, frame, history>>

EraseRejected ==
  /\ lpc = "unwind"
  /\ tasks' = [tasks EXCEPT ![lname] = None]
  /\ lpc' = "ready"
  /\ UNCHANGED <<activeCount, completedCount, armed, uv, pool, local, frame, history>>

-----------------------------------------------------------------------------
(* cancel: an unknown task and one that is not Queued are refused. *)

Cancel(n) ==
  /\ Ready
  /\ Tracked(n)
  /\ tasks[n].status = "Queued"
  /\ lctx' = tasks[n].workHandle
  /\ lpc' = "cancel"
  /\ UNCHANGED <<code, uv, pool, lname, ltimed, frame, history>>

\* uv_cancel succeeds on a request no thread has taken, and again on one that is
\* already cancelled and not yet delivered.
Cancellable(c) == stage[c] \in {"queued", "cancelled"}

UvCancel(c) == stage' = IF Cancellable(c) THEN [stage EXCEPT ![c] = "cancelled"] ELSE stage

\* Faulty variant: the result of uv_cancel is dropped.
WorkCancelUnchecked ==
  /\ lpc = "cancel"
  /\ UvCancel(lctx)
  /\ promised' = promised \cup {lctx}
  /\ lpc' = "ready"
  /\ UNCHANGED <<code, owner, pool, local, frame, ran, expired>>

\* Work::cancel turns the result of uv_cancel into the Error that cancel returns.
WorkCancel ==
  /\ lpc = "cancel"
  /\ UvCancel(lctx)
  /\ promised' = IF Cancellable(lctx) THEN promised \cup {lctx} ELSE promised
  /\ lpc' = "ready"
  /\ UNCHANGED <<code, owner, pool, local, frame, ran, expired>>

\* The callback of a timeout timer looks its task up by name and cancels it.
TimeoutFires(t) ==
  /\ Ready
  /\ frame = None
  /\ armed' = armed \ {t}
  /\ expired' = expired \cup {t.ctx}
  /\ IF Tracked(t.name) THEN UvCancel(tasks[t.name].workHandle) ELSE UNCHANGED stage
  /\ UNCHANGED <<tasks, activeCount, completedCount, owner, pool, lpc, local, frame,
                 ran, promised>>

-----------------------------------------------------------------------------
(* wrappedWork on a pool thread. *)

PickUp(w, c) ==
  /\ wpc[w] = "idle"
  /\ stage[c] = "queued"
  /\ stage' = [stage EXCEPT ![c] = "running"]
  /\ wpc' = [wpc EXCEPT ![w] = "lookup"]
  /\ wctx' = [wctx EXCEPT ![w] = c]
  /\ UNCHANGED <<code, owner, lpc, local, frame, history>>

\* tasks_.find(taskName), unsynchronised: during a change of the table by the loop
\* thread the lookup may miss an entry that is there.
Lookup(w) ==
  /\ wpc[w] = "lookup"
  /\ \/ /\ Tracked(owner[wctx[w]])
        /\ wpc' = [wpc EXCEPT ![w] = "mark"]
     \/ /\ ~Tracked(owner[wctx[w]]) \/ Mutating
        /\ wpc' = [wpc EXCEPT ![w] = "work"]
  /\ UNCHANGED <<code, uv, wctx, lpc, local, frame, history>>

\* it->second.status = InProgress, through the iterator found before.
MarkInProgress(w) ==
  /\ wpc[w] = "mark"
  /\ tasks' = IF Tracked(owner[wctx[w]])
              THEN [tasks EXCEPT ![owner[wctx[w]]].status = "InProgress"]
              ELSE tasks
  /\ wpc' = [wpc EXCEPT ![w] = "work"]
  /\ UNCHANGED <<activeCount, completedCount, armed, uv, wctx, lpc, local, frame, history>>

\* The client's work callback runs to its end and the request goes back to the loop.
RunWork(w) ==
  /\ wpc[w] = "work"
  /\ stage' = [stage EXCEPT ![wctx[w]] = "done"]
  /\ ran' = ran \cup {wctx[w]}
  /\ wpc' = [wpc EXCEPT ![w] = "idle"]
  /\ wctx' = [wctx EXCEPT ![w] = None]
  /\ UNCHANGED <<code, owner, lpc, local, frame, promised, expired>>

-----------------------------------------------------------------------------
(* onAfterWork and onTaskComplete on the loop thread. *)

\* Faulty variant: the status is ignored.
ErrorIgnored(c) == IF c \in Contexts THEN "EE_SUCCESS" ELSE "EE_POOL_CANCELLED"

\* Work::onAfterWork: how the status libuv reports becomes an Error.
ErrorOf(c) == IF stage[c] = "cancelled" THEN "EE_POOL_CANCELLED" ELSE "EE_SUCCESS"

\* The loop takes a request back; onTaskComplete has decremented activeCount_.
AfterWork(c) ==
  /\ Ready
  /\ frame = None
  /\ stage[c] \in {"done", "cancelled"}
  /\ frame' = [ctx |-> c, err |-> ErrorOf(c), told |-> FALSE]
  /\ stage' = [stage EXCEPT ![c] = "after"]
  /\ activeCount' = activeCount - 1
  /\ lname' = owner[c]
  /\ lpc' = "complete"
  /\ UNCHANGED <<tasks, completedCount, armed, owner, pool, lctx, ltimed, history>>

\* Faulty variant: the timer outlives the entry.
LeaveTimeout(n) == armed' = {t \in armed : n \in Names}

\* The timer the entry owns is stopped and destroyed.
StopTimeout(n) == armed' = {t \in armed : t.name # n}

\* onTaskComplete up to its early return or to the erase of the entry.
FinishTask ==
  /\ lpc = "complete"
  /\ completedCount' = completedCount + 1
  /\ IF Tracked(lname)
     THEN /\ StopTimeout(lname)
          /\ tasks' = [tasks EXCEPT ![lname].status =
                         IF frame.err = "EE_POOL_CANCELLED" THEN "Cancelled" ELSE "Finished"]
          /\ lpc' = "erase"
     ELSE /\ lpc' = "ready"
          /\ UNCHANGED <<tasks, armed>>
  /\ UNCHANGED <<activeCount, uv, pool, local, frame, history>>

\* Faulty variant: the entry stays in the table until the name is used again.
KeepEntry ==
  /\ lpc = "erase"
  /\ frame' = [frame EXCEPT !.told = TRUE]
  /\ lpc' = "ready"
  /\ UNCHANGED <<code, uv, pool, local, history>>

\* Faulty variant: the callback stored in the entry is erased with it.
EraseUntold ==
  /\ lpc = "erase"
  /\ tasks' = [tasks EXCEPT ![lname] = None]
  /\ lpc' = "ready"
  /\ UNCHANGED <<activeCount, completedCount, armed, uv, pool, local, frame, history>>

\* tasks_.erase(it), then the client's callback: it runs from here to DeleteContext,
\* and may submit and cancel.
EraseEntry ==
  /\ lpc = "erase"
  /\ tasks' = [tasks EXCEPT ![lname] = None]
  /\ frame' = [frame EXCEPT !.told = TRUE]
  /\ lpc' = "ready"
  /\ UNCHANGED <<activeCount, completedCount, armed, uv, pool, local, history>>

\* The callback has returned; onAfterWork deletes the Context.
DeleteContext ==
  /\ Ready
  /\ frame # None
  /\ stage' = [stage EXCEPT ![frame.ctx] = "free"]
  /\ owner' = [owner EXCEPT ![frame.ctx] = None]
  /\ frame' = None
  /\ UNCHANGED <<code, pool, lpc, local, history>>

-----------------------------------------------------------------------------
PoolStep(w) ==
  \/ \E c \in Contexts : PickUp(w, c)
  \/ Lookup(w)
  \/ MarkInProgress(w)
  \/ RunWork(w)

\* The loop thread finishes the call it is in.
CallStep ==
  \/ InsertEntry
  \/ \E c \in Contexts : QueueWork(c)
  \/ QueueFails
  \/ StoreHandle
  \/ EraseRejected
  \/ WorkCancel
  \/ FinishTask
  \/ EraseEntry

ClientStep ==
  \/ \E n \in Names, timed \in BOOLEAN : Submit(n, timed)
  \/ \E n \in Names : Cancel(n)

Next ==
  \/ ClientStep
  \/ CallStep
  \/ DeleteContext
  \/ \E t \in armed : TimeoutFires(t)
  \/ \E c \in Contexts : AfterWork(c)
  \/ \E w \in Threads : PoolStep(w)

Spec == Init /\ [][Next]_vars

-----------------------------------------------------------------------------
(* Safety *)

TypeOK ==
  /\ tasks \in [Names -> TaskEntry \cup {None}]
  /\ activeCount \in Nat
  /\ completedCount \in Nat
  /\ armed \subseteq [name : Names, ctx : Contexts]
  /\ stage \in [Contexts -> Stages]
  /\ owner \in [Contexts -> Names \cup {None}]
  /\ wpc \in [Threads -> {"idle", "lookup", "mark", "work"}]
  /\ wctx \in [Threads -> Contexts \cup {None}]
  /\ lpc \in {"ready", "insert", "queue", "assign", "unwind", "cancel", "complete", "erase"}
  /\ lname \in Names \cup {None}
  /\ lctx \in Contexts \cup {None}
  /\ ltimed \in BOOLEAN
  /\ frame \in Frame \cup {None}
  /\ ran \subseteq Contexts /\ promised \subseteq Contexts /\ expired \subseteq Contexts

\* activeCount_ is the number of submissions libuv has not given back yet, plus the
\* one submit() has counted and not handed over; a rollback leaves no trace in it.
CountersConsistent ==
  activeCount = Cardinality(Outstanding) + (IF lpc = "queue" THEN 1 ELSE 0)

\* The uv_work_t an entry points to is alive and its own: cancel() and the timeout
\* callback never pass uv_cancel a request that onAfterWork has deleted, nor one that
\* belongs to another task, and the entry outlives the request by no call.
HandleNeverDangles ==
  \A n \in Names : Tracked(n) /\ tasks[n].workHandle # None =>
    LET c == tasks[n].workHandle
    IN  /\ owner[c] = n
        /\ \/ stage[c] \in InFlight
           \/ frame # None /\ frame.ctx = c /\ lname = n /\ lpc \in {"complete", "erase"}

\* onTaskComplete always finds the entry of the submission it completes, so its early
\* return, which would drop the client's after-work callback, is never taken.
CompletionFindsEntry ==
  lpc \in {"complete", "erase"} =>
    /\ frame # None
    /\ Tracked(lname)
    /\ tasks[lname].workHandle = frame.ctx

\* A pool thread that looks its task up, or holds the iterator it has found, works on
\* an entry that is there: the loop thread does not erase it underneath.
PoolThreadFindsEntry ==
  \A w \in Threads : wpc[w] \in {"lookup", "mark"} => Tracked(owner[wctx[w]])

\* A timeout timer that can still go off belongs to the submission that started it:
\* it never cancels a later task that was submitted under the same name.
TimeoutTargetsOwnTask ==
  \A t \in armed : Tracked(t.name) /\ tasks[t.name].workHandle = t.ctx

\* The Error passed to the after-work callback says whether the work callback ran.
ResultTellsTruth ==
  frame # None => (frame.err = "EE_POOL_CANCELLED" <=> frame.ctx \notin ran)

\* A cancel() that returned success is honoured: the work callback is not run, even if
\* a timeout went off too, and the after-work callback gets EE_POOL_CANCELLED.
CancelIsHonoured ==
  /\ \A c \in promised : c \notin ran /\ stage[c] \notin {"queued", "running", "done"}
  /\ frame # None /\ frame.ctx \in promised => frame.err = "EE_POOL_CANCELLED"

\* A task that a pool thread has not taken is never shown as InProgress, whatever the
\* interleaving with submit(); so the guard of cancel() refuses no task that uv_cancel
\* could still withdraw.
StatusSound ==
  \A c \in Contexts : stage[c] \in {"queued", "cancelled"} /\ Tracked(owner[c]) =>
    tasks[owner[c]].status = "Queued"

-----------------------------------------------------------------------------
(* The inductive invariant the proofs of the properties above rest on. *)

\* A request is somewhere: it has an owner while it exists, the one that is being
\* delivered is the frame's, and each busy pool thread has one of its own.
RequestsOwned ==
  /\ \A c \in Contexts : stage[c] = "free" <=> owner[c] = None
  /\ \A c \in Contexts : stage[c] = "after" <=> frame # None /\ frame.ctx = c
  /\ \A w \in Threads : wpc[w] # "idle" => wctx[w] \in Contexts /\ stage[wctx[w]] = "running"
  /\ \A v, w \in Threads : wpc[v] # "idle" /\ wpc[w] # "idle" /\ wctx[v] = wctx[w] => v = w

\* Every request libuv holds has its entry, which points to it as soon as submit() has
\* stored the handle; two submissions in flight never share a name.
RequestsTracked ==
  \A c \in Contexts : stage[c] \in InFlight =>
    /\ Tracked(owner[c])
    /\ \/ tasks[owner[c]].workHandle = c
       \/ /\ lpc = "assign" /\ lctx = c
          /\ tasks[owner[c]].workHandle = None

\* What the loop thread knows at each point inside a call.
CallConsistent ==
  /\ lpc \notin {"ready", "cancel"} => lname \in Names
  /\ lpc = "insert" => ~Tracked(lname)
  /\ lpc \in {"queue", "assign", "unwind"} =>
       Tracked(lname) /\ tasks[lname].workHandle = None
  /\ lpc = "queue" => tasks[lname].status = "Queued"
  /\ lpc = "assign" => lctx \in Contexts /\ owner[lctx] = lname /\ stage[lctx] \in InFlight
  /\ lpc = "cancel" => lctx \in Contexts /\ stage[lctx] \in InFlight
  /\ lpc \in {"complete", "erase"} => frame # None /\ owner[frame.ctx] = lname
  /\ frame # None => (frame.told <=> lpc \notin {"complete", "erase"})

\* An entry without a handle belongs to the submit() in progress.
EntryWithoutHandle ==
  \A n \in Names : Tracked(n) /\ tasks[n].workHandle = None =>
    lname = n /\ lpc \in {"queue", "assign", "unwind"}

\* The timeout of an entry is gone before the entry is.
ErasedHasNoTimeout == lpc = "erase" => \A t \in armed : t.name # lname

\* The work callback has run exactly for the requests a thread has finished with.
RanIsTrue ==
  \A c \in Contexts :
    /\ stage[c] \in {"queued", "running", "cancelled"} => c \notin ran
    /\ stage[c] = "done" => c \in ran

IndInv ==
  /\ TypeOK
  /\ CountersConsistent
  /\ RequestsOwned
  /\ RequestsTracked
  /\ CallConsistent
  /\ HandleNeverDangles
  /\ EntryWithoutHandle
  /\ CompletionFindsEntry
  /\ TimeoutTargetsOwnTask
  /\ ErasedHasNoTimeout
  /\ RanIsTrue
  /\ ResultTellsTruth
  /\ CancelIsHonoured
  /\ StatusSound

-----------------------------------------------------------------------------
(* What a client sees of a task, as the module TaskLifecycle states it. *)

HasRequest(n, s) == \E c \in Contexts : owner[c] = n /\ stage[c] = s

\* The report in progress: before the client's callback is invoked the task still is
\* what libuv made of it.
FramePhase ==
  IF frame.told THEN (IF frame.err = "EE_SUCCESS" THEN "succeeded" ELSE "cancelled")
  ELSE (IF frame.ctx \in ran THEN "executed" ELSE "withdrawn")

PhaseOf(n) ==
  CASE HasRequest(n, "queued")    -> "waiting"
    [] HasRequest(n, "running")   -> "running"
    [] HasRequest(n, "done")      -> "executed"
    [] HasRequest(n, "cancelled") -> "withdrawn"
    [] ~(\E s \in InFlight : HasRequest(n, s)) /\ HasRequest(n, "after") -> FramePhase
    [] OTHER -> "absent"

phase == [n \in Names |-> PhaseOf(n)]

Abstract == INSTANCE TaskLifecycle WITH Names <- Names, phase <- phase

\* The service runs every accepted task at most once, reports none twice, and reports what
\* happened; a name is never in flight twice.
LifecycleRefined == Abstract!Spec

\* The documented threading rule: tasks_ belongs to the loop thread, so that no pool thread
\* looks into it while the loop thread restructures it.
TableAccessExclusive == ~(Mutating /\ \E w \in Threads : wpc[w] \in {"lookup", "mark"})

\* The documented effect of a timeout: a task whose timeout went off is reported as
\* cancelled.
TimedOutTaskIsCancelled ==
  frame # None /\ frame.ctx \in expired => frame.err = "EE_POOL_CANCELLED"
=============================================================================
