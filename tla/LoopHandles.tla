----------------------------- MODULE LoopHandles -----------------------------
(***************************************************************************)
(* eventengine::Loop and the handles on it: the base class Handle, used by *)
(* Timer, and its uv_timer_t on the heap.                                  *)
(*                                                                         *)
(* A uv handle lives longer than the object that owns it: uv_close only    *)
(* asks for it to be closed, and libuv calls onClose, which deletes it, in *)
(* a later iteration of the loop.  The destructor of Loop closes what is   *)
(* left, without a callback, and runs the loop once more.  Everything is   *)
(* on the loop thread; libuv calls back only inside uv_run.                *)
(***************************************************************************)
EXTENDS Naturals, FiniteSets

CONSTANTS
  Objects,  \* storage a Timer object can be constructed in; reused
  Cells,    \* heap cells of a uv_timer_t; reused after delete
  None      \* null pointer

ASSUME HandleAssumption == None \notin Objects \cup Cells

VARIABLES
  alive,    \* objects between constructor and destructor
  handle,   \* handle_ of each object
  uvh,      \* what libuv does with the handle in a cell
  data,     \* uv_handle_t::data, the object a callback is for
  loop,     \* the Loop: between runs, inside uv_run, inside its destructor, deleted
  stopFlag, \* stop_flag of the uv loop
  client    \* what the client keeps to: does its Loop outlive every Timer on it, does
            \* it call Loop::stop between two runs; never changes

vars == <<alive, handle, uvh, data, loop, stopFlag, client>>

Clients == [outlives : BOOLEAN, stopsIdle : BOOLEAN]

\* A handle that is closing is given back through onClose; one the Loop has closed,
\* "forced", has no callback, and is left behind "closed".
States == {"free", "stopped", "active", "closing", "forced", "closed"}

isClosing(c) == uvh[c] \in {"closing", "forced", "closed"}

Pending == {c \in Cells : uvh[c] \in {"closing", "forced"}}

\* uv_loop_alive
LoopAlive == \E c \in Cells : uvh[c] \in {"active", "closing", "forced"}

\* No client code runs while the destructor of Loop drains it.
ClientRuns == loop # "draining"

-----------------------------------------------------------------------------
Init ==
  /\ alive = {}
  /\ handle = [o \in Objects |-> None]
  /\ uvh = [c \in Cells |-> "free"]
  /\ data = [c \in Cells |-> None]
  /\ loop = "idle"
  /\ stopFlag = FALSE
  /\ client \in Clients

\* Faulty variant: the back pointer is the handle itself.
ConstructSelf(o, c) ==
  /\ loop \in {"idle", "running"}
  /\ o \notin alive /\ uvh[c] = "free"
  /\ alive' = alive \cup {o}
  /\ handle' = [handle EXCEPT ![o] = c]
  /\ data' = [data EXCEPT ![c] = c]
  /\ uvh' = [uvh EXCEPT ![c] = "stopped"]
  /\ UNCHANGED <<loop, stopFlag, client>>

\* Handle(loop) and uv_timer_init.
Construct(o, c) ==
  /\ loop \in {"idle", "running"}
  /\ o \notin alive /\ uvh[c] = "free"
  /\ alive' = alive \cup {o}
  /\ handle' = [handle EXCEPT ![o] = c]
  /\ data' = [data EXCEPT ![c] = o]
  /\ uvh' = [uvh EXCEPT ![c] = "stopped"]
  /\ UNCHANGED <<loop, stopFlag, client>>

\* What Timer::start comes to: libuv refuses a handle that is closing, and
\* dereferences the pointer close() has reset.
StartResult(o) ==
  IF handle[o] = None THEN "null dereference"
  ELSE IF isClosing(handle[o]) THEN "EE_UNKNOWN"
  ELSE "EE_SUCCESS"

Start(o) ==
  /\ ClientRuns
  /\ o \in alive /\ StartResult(o) = "EE_SUCCESS"
  /\ uvh' = [uvh EXCEPT ![handle[o]] = "active"]
  /\ UNCHANGED <<alive, handle, data, loop, stopFlag, client>>

Stop(o) ==
  /\ ClientRuns
  /\ o \in alive /\ handle[o] # None
  /\ uvh[handle[o]] = "active"
  /\ uvh' = [uvh EXCEPT ![handle[o]] = "stopped"]
  /\ UNCHANGED <<alive, handle, data, loop, stopFlag, client>>

\* The part close() and the destructor share: libuv is asked to close an open handle,
\* which then knows of no object.
CloseHandle(o) ==
  IF handle[o] # None /\ ~isClosing(handle[o])
  THEN /\ data' = [data EXCEPT ![handle[o]] = None]
       /\ uvh' = [uvh EXCEPT ![handle[o]] = "closing"]
  ELSE UNCHANGED <<data, uvh>>

\* Faulty variant: handle_ is not reset.
CloseKeepingPointer(o) ==
  /\ ClientRuns
  /\ o \in alive
  /\ CloseHandle(o)
  /\ UNCHANGED <<alive, handle, loop, stopFlag, client>>

\* close(): a handle that the Loop has closed keeps its pointer.
Close(o) ==
  /\ ClientRuns
  /\ o \in alive
  /\ CloseHandle(o)
  /\ handle' = IF handle[o] # None /\ ~isClosing(handle[o])
               THEN [handle EXCEPT ![o] = None] ELSE handle
  /\ UNCHANGED <<alive, loop, stopFlag, client>>

\* ~Handle: an open handle is closed, its pointer is gone.
Destroy(o) ==
  /\ ClientRuns
  /\ o \in alive
  /\ CloseHandle(o)
  /\ alive' = alive \ {o}
  /\ handle' = [handle EXCEPT ![o] = None]
  /\ UNCHANGED <<loop, stopFlag, client>>

\* Faulty variant: the back pointer still is the old object.
MoveUnbound(o, p) ==
  /\ ClientRuns
  /\ o \in alive /\ p \notin alive
  /\ alive' = alive \cup {p}
  /\ handle' = [handle EXCEPT ![p] = handle[o], ![o] = None]
  /\ UNCHANGED <<uvh, data, loop, stopFlag, client>>

\* The move constructor: p takes over the handle of o.
Move(o, p) ==
  /\ ClientRuns
  /\ o \in alive /\ p \notin alive
  /\ alive' = alive \cup {p}
  /\ handle' = [handle EXCEPT ![p] = handle[o], ![o] = None]
  /\ data' = IF handle[o] # None THEN [data EXCEPT ![handle[o]] = p] ELSE data
  /\ UNCHANGED <<uvh, loop, stopFlag, client>>

-----------------------------------------------------------------------------
(* libuv, inside uv_run. *)

\* A timer is due; a one-shot timer is stopped before onTimer calls its object.
Fire(c) ==
  /\ loop = "running"
  /\ uvh[c] = "active"
  /\ \E next \in {"active", "stopped"} : uvh' = [uvh EXCEPT ![c] = next]
  /\ UNCHANGED <<alive, handle, data, loop, stopFlag, client>>

\* A closing handle is closed, and onClose deletes it.
OnClose(c) ==
  /\ loop \in {"running", "draining"}
  /\ c \in Pending
  /\ uvh' = [uvh EXCEPT ![c] = IF @ = "closing" THEN "free" ELSE "closed"]
  /\ UNCHANGED <<alive, handle, data, loop, stopFlag, client>>

\* uv_run with a stop flag that is already set only resets it.
Run ==
  /\ loop = "idle"
  /\ IF stopFlag THEN stopFlag' = FALSE /\ UNCHANGED loop
     ELSE LoopAlive /\ loop' = "running" /\ UNCHANGED stopFlag
  /\ UNCHANGED <<alive, handle, uvh, data, client>>

\* It returns when it is stopped, when nothing is alive, or after one iteration.
RunReturns ==
  /\ loop = "running"
  /\ loop' = "idle"
  /\ stopFlag' = FALSE
  /\ UNCHANGED <<alive, handle, uvh, data, client>>

StopLoop ==
  /\ loop = "running" \/ (loop = "idle" /\ client.stopsIdle)
  /\ stopFlag' = TRUE
  /\ UNCHANGED <<alive, handle, uvh, data, loop, client>>

\* Faulty variant: only active handles are closed.
CloseActiveHandles ==
  uvh' = [c \in Cells |-> IF uvh[c] = "active" THEN "forced" ELSE uvh[c]]

\* uv_walk visits every handle the loop has.
CloseAllHandles ==
  uvh' = [c \in Cells |-> IF uvh[c] \in {"stopped", "active"} THEN "forced" ELSE uvh[c]]

\* Faulty variant: the loop is not run again.
DestroyLoopAtOnce ==
  /\ loop = "idle"
  /\ client.outlives => alive = {}
  /\ CloseAllHandles
  /\ loop' = "deleted"
  /\ UNCHANGED <<alive, handle, data, stopFlag, client>>

\* The destructor of Loop, up to its call of uv_run: with the stop flag set it returns
\* at once, and the failure of uv_loop_close is not looked at.
DestroyLoop ==
  /\ loop = "idle"
  /\ client.outlives => alive = {}
  /\ CloseAllHandles
  /\ loop' = IF stopFlag THEN "deleted" ELSE "draining"
  /\ UNCHANGED <<alive, handle, data, stopFlag, client>>

\* uv_run has returned; uv_loop_close and delete.
DeleteLoop ==
  /\ loop = "draining"
  /\ Pending = {}
  /\ loop' = "deleted"
  /\ UNCHANGED <<alive, handle, uvh, data, stopFlag, client>>

-----------------------------------------------------------------------------
ClientStep ==
  \/ \E o \in Objects, c \in Cells : Construct(o, c)
  \/ \E o \in Objects : Start(o)
  \/ \E o \in Objects : Stop(o)
  \/ \E o \in Objects : Close(o)
  \/ \E o \in Objects : Destroy(o)
  \/ \E o, p \in Objects : Move(o, p)

LoopStep ==
  \/ \E c \in Cells : Fire(c)
  \/ \E c \in Cells : OnClose(c)
  \/ Run
  \/ RunReturns
  \/ StopLoop
  \/ DestroyLoop
  \/ DeleteLoop

Next == ClientStep \/ LoopStep

Spec == Init /\ [][Next]_vars

\* The client runs the loop as long as something is alive on it; each iteration of
\* uv_run ends with the handles that are closing.
FairSpec ==
  /\ Spec
  /\ WF_vars(Run)
  /\ WF_vars(DeleteLoop)
  /\ \A c \in Cells : SF_vars(OnClose(c))

-----------------------------------------------------------------------------
TypeOK ==
  /\ alive \subseteq Objects
  /\ handle \in [Objects -> Cells \cup {None}]
  /\ uvh \in [Cells -> States]
  /\ data \in [Cells -> Objects \cup {None}]
  /\ loop \in {"idle", "running", "draining", "deleted"}
  /\ stopFlag \in BOOLEAN
  /\ client \in Clients

\* The handle_ of an object is a handle of its own that is not about to be deleted: no
\* call through it, in whatever order objects are closed, moved and destroyed, reaches
\* a uv_timer_t that onClose has deleted or closes one twice.
OwnerSound ==
  \A o \in alive : handle[o] # None =>
    /\ uvh[handle[o]] \notin {"free", "closing"}
    /\ \A p \in alive : handle[p] = handle[o] => p = o

\* Whenever libuv can call onTimer, the object it finds in data exists and still is
\* the owner: a callback never reaches an object that was moved from or destroyed.
CallbackFindsOwner ==
  \A c \in Cells : uvh[c] = "active" => data[c] \in alive /\ handle[data[c]] = c

\* Every uv_timer_t has an owner, or onClose is still to be called for it by a Loop that
\* exists.  There are two ways to lose one, and no other: a Loop stopped between runs is
\* deleted with handles closing, and one that does not outlive its Timers closes theirs
\* without a callback.
NothingLeaks ==
  \A c \in Cells : uvh[c] # "free" =>
    \/ \E o \in alive : handle[o] = c
    \/ uvh[c] = "closing" /\ (loop = "deleted" => client.stopsIdle)
    \/ uvh[c] \in {"forced", "closed"} /\ ~client.outlives

\* A Loop is deleted with nothing open or closing on it, so that uv_loop_close succeeds.
CleanedUp == loop = "deleted" => \A c \in Cells : uvh[c] \in {"free", "closed"}

\* So it is, whatever Timers are left, for a client that stops the Loop only while it runs.
LoopCleansUp == ~client.stopsIdle => CleanedUp

\* The inductive invariant the proofs rest on.

Open(c) == uvh[c] \in {"stopped", "active"}

DeadOwnNothing == \A o \in Objects \ alive : handle[o] = None

OpenIsOwned == \A c \in Cells : Open(c) => data[c] \in alive /\ handle[data[c]] = c

\* The end of the Loop: what its destructor has found and left.
LoopEnds ==
  /\ loop \in {"draining", "deleted"} => \A c \in Cells : ~Open(c)
  /\ loop = "idle" /\ stopFlag => client.stopsIdle
  /\ loop = "deleted" /\ ~client.stopsIdle => Pending = {}
  /\ client.outlives =>
       /\ \A c \in Cells : uvh[c] \notin {"forced", "closed"}
       /\ loop \in {"draining", "deleted"} => alive = {}

IndInv == TypeOK /\ OwnerSound /\ DeadOwnNothing /\ OpenIsOwned /\ LoopEnds

\* The documented result of starting a Timer that was closed is an error.
StartAfterCloseFails == \A o \in alive : StartResult(o) \in {"EE_SUCCESS", "EE_UNKNOWN"}

\* A handle that was asked to close is closed in the end, also when the loop is stopped
\* again and again while it runs, or the Loop is destroyed first.
ClosingEnds ==
  \A c \in Cells : c \in Pending /\ ~client.stopsIdle ~> c \notin Pending
=============================================================================
