---------------------------- MODULE ManagedTimer ----------------------------
(***************************************************************************)
(* What the timer service promises of the timer of each id, without libuv, *)
(* callbacks on the stack, a graveyard or the time at which what has ended *)
(* is noted for removal: a timer waits for the time it was given, which    *)
(* passes while it is Running only; when it has waited it fires; it fires  *)
(* as often as its policy says and then has expired.                       *)
(*                                                                         *)
(* A step moves the timer it is about and no other, but for pauseAll,      *)
(* resumeAll and cancelAll, which move what their names say, and for       *)
(* setTimer, which takes the timers that have ended away.  To a client who *)
(* reschedules a timer after it has ended, that happens all the same.      *)
(***************************************************************************)
EXTENDS Naturals

CONSTANTS Ids, Timeouts, Policies, Forever, Absent

VARIABLES
  timer,  \* id -> what the client knows of the timer, or Absent
  client  \* does the client leave ended timers alone, does it reschedule; never changes

managedVars == <<timer, client>>

Disciplines == [orderly : BOOLEAN, reschedules : BOOLEAN]

\* The fires a policy allows.
Budget(p) == IF p.max = 0 THEN 1 ELSE p.max

\* A timer that is leaving has ended, and goes when another one is set.
Fresh(t, p, leaving) ==
  [state |-> "Running", wait |-> t, toGo |-> Budget(p), interval |-> p.interval,
   leaving |-> leaving]

Shows(id, s) == timer[id] # Absent /\ timer[id].state = s

Leaving == {id \in Ids : timer[id] # Absent /\ timer[id].leaving}

MayEnd(id) ==
  /\ timer[id] # Absent
  /\ client.orderly => Shows(id, "Running") \/ Shows(id, "Paused")

Init == timer = [id \in Ids |-> Absent] /\ client \in Disciplines

-----------------------------------------------------------------------------
(* What a step makes of the timer it is about. *)

Moved(r, s) == [r EXCEPT !.state = s]

Cancelled(r) == [r EXCEPT !.state = "Cancelled", !.wait = 0, !.leaving = TRUE]

Expired(r) == [r EXCEPT !.state = "Expired", !.toGo = 0, !.leaving = TRUE]

Repeated(r) ==
  [r EXCEPT !.wait = r.interval, !.toGo = IF @ = Forever THEN Forever ELSE @ - 1]

Waited(r) ==
  IF r # Absent /\ r.state = "Running" /\ r.wait > 0 THEN [r EXCEPT !.wait = @ - 1] ELSE r

-----------------------------------------------------------------------------
(* The steps of one timer. *)

\* The timer starts all over again; if it had ended, it still goes with the next one set.
Reschedule(id) ==
  /\ client.reschedules
  /\ MayEnd(id)
  /\ timer'[id] \in {Fresh(t, p, timer[id].leaving) : t \in Timeouts, p \in Policies}

Cancel(id) == MayEnd(id) /\ timer'[id] = Cancelled(timer[id])

\* Only the state changes: time neither passes nor comes back.
Pause(id) == Shows(id, "Running") /\ timer'[id] = Moved(timer[id], "Paused")

Resume(id) == Shows(id, "Paused") /\ timer'[id] = Moved(timer[id], "Running")

Fire(id) ==
  /\ Shows(id, "Running") /\ timer[id].wait = 0
  /\ timer'[id] = IF timer[id].toGo = 1 THEN Expired(timer[id]) ELSE Repeated(timer[id])

\* A timer that was rescheduled in its last callback may be allowed to stay.
Spare(id) ==
  /\ ~client.orderly
  /\ Shows(id, "Running") \/ Shows(id, "Paused")
  /\ timer'[id] = [timer[id] EXCEPT !.leaving = FALSE]

\* No other timer is touched.
OneTimer(id) ==
  /\ \A i \in Ids \ {id} : timer'[i] = timer[i]
  /\ \/ Reschedule(id)
     \/ Cancel(id)
     \/ Pause(id)
     \/ Resume(id)
     \/ Fire(id)
     \/ Spare(id)

-----------------------------------------------------------------------------
(* The steps of several timers. *)

\* A new timer.  Those that have ended go, except perhaps the one whose last callback makes
\* this call.  A timer that such a callback sets under its own id, having disposed of the old
\* one, goes with the next: the callback is taken for its last.
Set(id) ==
  /\ timer[id] = Absent
  /\ timer'[id] \in {Fresh(t, p, leaving) : t \in Timeouts, p \in Policies, leaving \in BOOLEAN}
  /\ client.orderly => ~timer'[id].leaving
  /\ \A i \in Ids \ {id} : timer'[i] = timer[i] \/ (i \in Leaving /\ timer'[i] = Absent)
  /\ \A i, j \in Leaving : timer'[i] # Absent /\ timer'[j] # Absent => i = j

CancelAll == \A id \in Ids : timer'[id] = Absent

AllMove(from, to) ==
  \A id \in Ids :
    timer'[id] = IF Shows(id, from) THEN Moved(timer[id], to) ELSE timer[id]

PauseAll == AllMove("Running", "Paused")

ResumeAll == AllMove("Paused", "Running")

\* Time passes for all that are Running, and for no other.
Tick == \A id \in Ids : timer'[id] = Waited(timer[id])

Next ==
  /\ timer' = [id \in Ids |-> timer'[id]]
  /\ UNCHANGED client
  /\ \/ \E id \in Ids : OneTimer(id) \/ Set(id)
     \/ CancelAll
     \/ PauseAll
     \/ ResumeAll
     \/ Tick

Spec == Init /\ [][Next]_managedVars
=============================================================================
