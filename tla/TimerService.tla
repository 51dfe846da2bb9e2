---------------------------- MODULE TimerService ----------------------------
(***************************************************************************)
(* eventengine::timer::TimerService on the Timers of one loop.             *)
(*                                                                         *)
(* One thread runs everything, but not one call at a time: while the       *)
(* callback of a timer is on the stack (frame) the client may call the     *)
(* service again, and what those calls do to timers_, pendingRemoval_ and  *)
(* graveyard_ is what the rest of the callback wrapper finds.              *)
(*                                                                         *)
(* Of libuv the model has what the wrapper uses.  Time is kept relative: a *)
(* started timer holds the time left until it is due, which is also what   *)
(* uv_timer_get_due_in returns, zero when it is late.                      *)
(***************************************************************************)
EXTENDS Naturals, FiniteSets

CONSTANTS
  Ids,        \* timer ids (non-empty strings)
  None,       \* no entry, no frame
  Forever,    \* maxCount of RepeatPolicy::forever
  Timeouts,   \* timeouts a client asks for
  Policies,   \* repeat policies a client asks for
  MaxFires,   \* fireCount is counted up to here
  maxTimers,  \* maxTimers_
  Clients     \* the kinds of client

Policy == [max : Nat \cup {Forever}, interval : Nat]

UvTimer == [on : BOOLEAN, due : Nat, repeat : Nat]

TimerStatus == {"Running", "Paused", "Expired", "Cancelled"}

TimerEntry == [timer : UvTimer, timeout : Nat, policy : Policy, status : TimerStatus,
               fireCount : Nat, remaining : Nat]

\* Where the Timer whose callback is running is found now.
Homes == {"timers_", "graveyard_", "destroyed"}

Frame == [id : Ids, stop : BOOLEAN, home : Homes, closure : BOOLEAN, callback : BOOLEAN]

\* What a client sees of a timer.
Seen == [state : TimerStatus, wait : Nat, toGo : Nat \cup {Forever}, interval : Nat,
         leaving : BOOLEAN]

Ops == {"set", "cancel", "cancelAll", "pause", "resume", "pauseAll", "resumeAll", "reschedule"}

\* The operations a client calls between callbacks and inside the callback of a timer, and
\* whether it cancels or reschedules timers that have ended.
Client == [between : SUBSET Ops, inside : SUBSET Ops, actsOnEnded : BOOLEAN]

\* None is none of the values it stands for the absence of.
ASSUME TimerAssumption ==
  /\ Timeouts \subseteq Nat
  /\ Policies \subseteq Policy
  /\ Forever \notin Nat
  /\ MaxFires \in Nat \ {0}
  /\ maxTimers \in Nat
  /\ IsFiniteSet(Ids)
  /\ \A p \in Policies : p.max # Forever => p.max <= MaxFires
  /\ Clients \subseteq Client
  /\ None \notin TimerEntry \cup UvTimer \cup Frame \cup Seen

VARIABLES
  timers,     \* timers_: id -> TimerEntry, None when absent
  pending,    \* pendingRemoval_, as a set: a second removal of an id does nothing
  graveyard,  \* graveyard_: id -> the uv timer of an entry that was flushed, or None
  frame,      \* the callback wrapper in progress: the id it captured, shouldStop, where
              \* its Timer is, whether its closure and the client's callback it has called,
              \* which is in the entry, still exist; None when there is none
  client      \* the kind of client; never changes

vars == <<timers, pending, graveyard, frame, client>>

-----------------------------------------------------------------------------
Exists(id) == timers[id] # None

Has(id, s) == Exists(id) /\ timers[id].status = s

Live(id) == Has(id, "Running") \/ Has(id, "Paused")

Entries == {id \in Ids : Exists(id)}

\* hasTimer and allTimerIds leave out what waits for its removal.
hasTimer(id) == Exists(id) /\ id \notin pending

\* What the client is told; uv_timer_get_due_in for a Timer that is Running.
remainingTime(id) ==
  IF Has(id, "Running") THEN timers[id].timer.due
  ELSE IF Has(id, "Paused") THEN timers[id].remaining
  ELSE 0

MayCall(op) == op \in (IF frame = None THEN client.between ELSE client.inside)

\* Cancelling and rescheduling are possible as long as there is an entry.
MayEnd(id) == Exists(id) /\ (client.actsOnEnded \/ Live(id))

Stopped == [on |-> FALSE, due |-> 0, repeat |-> 0]

\* uv_timer_start
Started(timeout, repeat) == [on |-> TRUE, due |-> timeout, repeat |-> repeat]

\* uv__run_timers calls uv_timer_again before the callback: only a repeat re-arms.
Rearmed(t) == IF t.repeat = 0 THEN Stopped ELSE Started(t.repeat, t.repeat)

isOneShot(p) == p.max = 0

\* Faulty variant: the interval is left out.
RepeatForgotten(p) == IF isOneShot(p) THEN 0 ELSE 0 * p.interval

RepeatOf(p) == IF isOneShot(p) THEN 0 ELSE p.interval

\* startTimerEntry for an entry whose timeout and policy are set.
StartedEntry(e) ==
  [e EXCEPT !.timer = Started(e.timeout, RepeatOf(e.policy)), !.status = "Running"]

\* startTimerEntry gives the Timer a new callback; the closure of a callback that is
\* running in that Timer is destroyed.
FrameAfterStart(ids) ==
  frame' = IF frame # None /\ frame.home = "timers_" /\ frame.id \in ids
           THEN [frame EXCEPT !.closure = FALSE]
           ELSE frame

-----------------------------------------------------------------------------
Init ==
  /\ timers = [id \in Ids |-> None]
  /\ pending = {}
  /\ graveyard = [id \in Ids |-> None]
  /\ frame = None
  /\ client \in Clients

\* Faulty variant: one entry too many.
FullLate == Cardinality(Entries) > maxTimers

Full == Cardinality(Entries) >= maxTimers

\* What setTimer answers; the checks come before pending removals are done.
SetResult(id) ==
  IF Exists(id) THEN "EE_TIMER_ALREADY_EXISTS"
  ELSE IF Full THEN "EE_TIMER_LIMIT_REACHED"
  ELSE "EE_SUCCESS"

\* Faulty variant: everything that has ended.
FlushesEnded(id) == Exists(id) /\ ~Live(id)

\* flushPending removes what was noted and is still there.
Flushes(id) == Exists(id) /\ id \in pending

\* Faulty variant: the graveyard is never emptied.
BuriedToo(id) == IF Flushes(id) THEN timers[id].timer ELSE graveyard[id]

\* The graveyard after a flush: the Timers of the last one are destroyed.
Buried(id) == IF Flushes(id) THEN timers[id].timer ELSE None

\* flushPending keeps the Timers it removes, since one of them may be running the callback
\* that called setTimer.  The callback itself goes with its entry.
Flush ==
  /\ graveyard' = [id \in Ids |-> Buried(id)]
  /\ pending' = {}
  /\ frame' = IF frame = None THEN None
              ELSE [frame EXCEPT
                      !.home = IF @ = "timers_" /\ ~Flushes(frame.id) THEN "timers_"
                               ELSE IF @ = "timers_" THEN "graveyard_"
                               ELSE "destroyed",
                      !.closure = @ /\ frame.home = "timers_",
                      !.callback = @ /\ ~Flushes(frame.id)]

NewEntry(timeout, policy) ==
  StartedEntry([timer |-> Stopped, timeout |-> timeout, policy |-> policy,
                status |-> "Running", fireCount |-> 0, remaining |-> 0])

\* setTimer, when it succeeds; refused it changes nothing.
SetTimer(id, timeout, policy) ==
  /\ MayCall("set")
  /\ SetResult(id) = "EE_SUCCESS"
  /\ Flush
  /\ timers' = [i \in Ids |-> IF i = id THEN NewEntry(timeout, policy)
                              ELSE IF Flushes(i) THEN None ELSE timers[i]]
  /\ UNCHANGED client

\* Faulty variant: nothing is noted for the next flush.
NotedLive(id) == IF Live(id) THEN pending ELSE pending \cup {id}

NotedForRemoval(id) == pending \cup {id}

\* cancelTimer: whatever the status, the entry is stopped and left for the next flush.
CancelTimer(id) ==
  /\ MayCall("cancel")
  /\ MayEnd(id)
  /\ timers' = [timers EXCEPT ![id].status = "Cancelled", ![id].timer = Stopped]
  /\ pending' = NotedForRemoval(id)
  /\ UNCHANGED <<graveyard, frame, client>>

\* cancelAll destroys every entry with its Timer, and the graveyard.
CancelAll ==
  /\ MayCall("cancelAll")
  /\ timers' = [id \in Ids |-> None]
  /\ pending' = {}
  /\ graveyard' = [id \in Ids |-> None]
  /\ frame' = IF frame = None THEN None
              ELSE [frame EXCEPT !.home = "destroyed", !.closure = FALSE, !.callback = FALSE]
  /\ UNCHANGED client

-----------------------------------------------------------------------------
\* Faulty variant: the Timer is not stopped.
PausedUnstopped(e) ==
  [e EXCEPT !.remaining = e.timer.due, !.status = "Paused"]

PausedEntry(e) ==
  [e EXCEPT !.remaining = e.timer.due, !.timer = Stopped, !.status = "Paused"]

\* Faulty variant: the whole timeout again.
ResumedAfresh(e) ==
  StartedEntry([e EXCEPT !.remaining = 0])

ResumedEntry(e) ==
  StartedEntry([e EXCEPT !.timeout = e.remaining, !.remaining = 0])

\* pauseTimer and pauseAll: only Running timers.
Pause(ids) ==
  /\ timers' = [id \in Ids |-> IF id \in ids THEN PausedEntry(timers[id]) ELSE timers[id]]
  /\ UNCHANGED <<pending, graveyard, frame, client>>

PauseTimer(id) == MayCall("pause") /\ Has(id, "Running") /\ Pause({id})

PauseAll == MayCall("pauseAll") /\ Pause({id \in Ids : Has(id, "Running")})

\* Faulty variant: the status is not checked.
ResumableAny(id) == Exists(id)

Resumable(id) == Has(id, "Paused")

\* resumeTimer and resumeAll: only Paused timers.
Resume(ids) ==
  /\ timers' = [id \in Ids |-> IF id \in ids THEN ResumedEntry(timers[id]) ELSE timers[id]]
  /\ FrameAfterStart(ids)
  /\ UNCHANGED <<pending, graveyard, client>>

ResumeTimer(id) == MayCall("resume") /\ Resumable(id) /\ Resume({id})

ResumeAll == MayCall("resumeAll") /\ Resume({id \in Ids : Resumable(id)})

\* rescheduleTimer: any entry, also one that has ended and waits for its removal.
RescheduleTimer(id, timeout, policy) ==
  /\ MayCall("reschedule")
  /\ MayEnd(id)
  /\ timers' = [timers EXCEPT ![id] = NewEntry(timeout, policy)]
  /\ FrameAfterStart({id})
  /\ UNCHANGED <<pending, graveyard, client>>

-----------------------------------------------------------------------------
(* The callback wrapper of startTimerEntry. *)

\* Faulty variant: it counts the fires that are left.
CountedDown(n) == n - 1

CountedUp(n) == IF n < MaxFires THEN n + 1 ELSE n

\* shouldStop for an entry that has fired n times.
Spent(p, n) == isOneShot(p) \/ (p.max # Forever /\ n >= p.max)

Fired(e) ==
  LET n == CountedUp(e.fireCount)
  IN  IF Spent(e.policy, n)
      THEN [e EXCEPT !.fireCount = n, !.status = "Expired", !.timer = Stopped]
      ELSE [e EXCEPT !.fireCount = n]

\* A timer is due: the wrapper counts the fire and calls the client's callback, which
\* runs until FireEnd.
FireBegin(id) ==
  /\ frame = None
  /\ Exists(id)
  /\ timers[id].timer.on /\ timers[id].timer.due = 0
  /\ LET e == Fired([timers[id] EXCEPT !.timer = Rearmed(@)])
     IN  /\ timers' = [timers EXCEPT ![id] = e]
         /\ frame' = [id |-> id, stop |-> Spent(e.policy, e.fireCount),
                      home |-> "timers_", closure |-> TRUE, callback |-> TRUE]
  /\ UNCHANGED <<pending, graveyard, client>>

\* The Timer of a flushed entry may still be started.  Its wrapper looks the id up and
\* returns, unless there is a timer of that id again.
FireStale(id) ==
  /\ frame = None
  /\ graveyard[id] # None
  /\ graveyard[id].on /\ graveyard[id].due = 0
  /\ graveyard' = [graveyard EXCEPT ![id] = Rearmed(@)]
  /\ IF Exists(id)
     THEN /\ timers' = [timers EXCEPT ![id] = Fired(@)]
          /\ frame' = [id |-> id, stop |-> Fired(timers[id]).status = "Expired",
                       home |-> "graveyard_", closure |-> TRUE, callback |-> TRUE]
     ELSE UNCHANGED <<timers, frame>>
  /\ UNCHANGED <<pending, client>>

\* Faulty variant: every fire is the last.
StopsAlways(f) == f.id \in Ids

Stops(f) == f.stop

\* The callback has returned.  The wrapper reads the id it captured; when its closure
\* was destroyed meanwhile, what it appends is the old id or something else.
FireEnd ==
  /\ frame # None
  /\ \/ Stops(frame) /\ pending' = pending \cup {frame.id}
     \/ (~Stops(frame) \/ ~frame.closure) /\ UNCHANGED pending
  /\ frame' = None
  /\ UNCHANGED <<timers, graveyard, client>>

-----------------------------------------------------------------------------
Elapsed(t) == [t EXCEPT !.due = IF t.on /\ t.due > 0 THEN t.due - 1 ELSE t.due]

\* The loop updates its time, between callbacks only.
Tick ==
  /\ frame = None
  /\ timers' = [id \in Ids |-> IF Exists(id) THEN [timers[id] EXCEPT !.timer = Elapsed(@)]
                               ELSE None]
  /\ graveyard' = [id \in Ids |-> IF graveyard[id] # None THEN Elapsed(graveyard[id]) ELSE None]
  /\ UNCHANGED <<pending, frame, client>>

ClientStep ==
  \/ \E id \in Ids, t \in Timeouts, p \in Policies : SetTimer(id, t, p)
  \/ \E id \in Ids : CancelTimer(id)
  \/ CancelAll
  \/ \E id \in Ids : PauseTimer(id)
  \/ PauseAll
  \/ \E id \in Ids : ResumeTimer(id)
  \/ ResumeAll
  \/ \E id \in Ids, t \in Timeouts, p \in Policies : RescheduleTimer(id, t, p)

Next ==
  \/ ClientStep
  \/ \E id \in Ids : FireBegin(id)
  \/ \E id \in Ids : FireStale(id)
  \/ FireEnd
  \/ Tick

Spec == Init /\ [][Next]_vars

\* uv_run updates the time, runs every due timer, and a callback returns.
Fairness ==
  /\ WF_vars(Tick)
  /\ SF_vars(FireEnd)
  /\ \A id \in Ids : SF_vars(FireBegin(id))

FairSpec == Spec /\ Fairness

-----------------------------------------------------------------------------
(* Safety *)

TypeOK ==
  /\ timers \in [Ids -> TimerEntry \cup {None}]
  /\ pending \subseteq Ids
  /\ graveyard \in [Ids -> UvTimer \cup {None}]
  /\ frame \in Frame \cup {None}
  /\ client \in Clients

\* A timer that was paused or cancelled, or has expired, is not started in libuv,
\* whatever the order of calls and callbacks: its callback cannot be called.
OnlyRunningIsArmed == \A id \in Ids : Exists(id) /\ timers[id].timer.on => Has(id, "Running")

\* libuv takes an interval of zero for no repeat at all.
Stranded(id) ==
  /\ ~isOneShot(timers[id].policy) /\ timers[id].policy.interval = 0
  /\ timers[id].fireCount > 0

\* TIMER_SERVICE.md:143 says of Running "timer is active and counting".  That is so, libuv
\* will call the wrapper again, but for one kind of timer: one that repeats with an interval
\* of zero is left Running for ever when it has fired once and had fires to go.
RunningIsArmed ==
  \A id \in Ids : Has(id, "Running") => timers[id].timer.on \/ Stranded(id)

\* timers_ never holds more than maxTimers_ entries, ended ones included.
LimitHolds == Cardinality(Entries) <= maxTimers

\* A Timer in the graveyard has an id no entry has: when it goes off late, its wrapper
\* finds nothing and does not count a fire for a later timer of the same id.
GraveyardDisjoint == \A id \in Ids : graveyard[id] # None => ~Exists(id)

\* An entry that has ended is waiting for its removal, or its last callback is still
\* running: the next successful setTimer removes it.
EndedIsPending ==
  \A id \in Ids : Exists(id) /\ ~Live(id) =>
    id \in pending \/ (frame # None /\ frame.stop /\ frame.id = id)

\* The client leaves ended timers alone, and cancelAll while a callback runs.
Orderly == ~client.actsOnEnded /\ "cancelAll" \notin client.inside

\* While the last callback of a timer runs its entry, with the client's callback object
\* and the closure the wrapper reads its id from afterwards, is not destroyed or replaced,
\* whatever the callback of an orderly client creates, cancels, pauses or resumes.
LastCallbackKept ==
  Orderly /\ frame # None /\ frame.stop =>
    /\ frame.home = "timers_" /\ Exists(frame.id)
    /\ frame.closure /\ frame.callback

\* The only way for an orderly client to destroy the callback that is running, in any
\* callback and by any calls: it has cancelled the timer of that very callback, and now
\* sets another.
CallbackLostOnlyCancelled ==
  Orderly /\ frame # None /\ frame.callback /\ frame' # None =>
    frame'.callback \/ Has(frame.id, "Cancelled")

RunningCallbackKept == [][CallbackLostOnlyCancelled]_vars

\* hasTimer, allTimerIds and activeCount show an orderly client every timer that runs or
\* is paused: none of them is noted for removal.
LiveIsListed == Orderly => \A id \in Ids : Live(id) => hasTimer(id)

\* The transitions of the documented state machine; removal follows the end, except
\* that cancelAll cancels and removes at once.
Documented ==
  {<<"absent", "Running">>, <<"Running", "Paused">>, <<"Paused", "Running">>,
   <<"Running", "Expired">>, <<"Running", "Cancelled">>, <<"Paused", "Cancelled">>,
   <<"Running", "absent">>, <<"Paused", "absent">>,
   <<"Expired", "absent">>, <<"Cancelled", "absent">>}

state(id) == IF Exists(id) THEN timers[id].status ELSE "absent"

MovesAsDocumented ==
  \A id \in Ids : state(id)' = state(id) \/ <<state(id), state(id)'>> \in Documented

\* Every step moves every timer along the documented state machine, or leaves it; in
\* particular nothing leads back from Expired and Cancelled.
LifecycleOrdered == [][MovesAsDocumented]_vars

\* So it is for an orderly client, whatever it does in callbacks.
OrderlyLifecycle == [][Orderly => MovesAsDocumented]_vars

-----------------------------------------------------------------------------
(* The inductive invariant the proofs of the properties above rest on. *)

\* The fires a policy allows.
budget(p) == IF isOneShot(p) THEN 1 ELSE p.max

\* What holds of an entry by itself: libuv has its Timer exactly as the entry says, and the
\* count of its fires fits its status.
EntrySound(e) ==
  /\ e \in TimerEntry
  /\ e.policy \in Policies
  /\ e.timer.on => e.status = "Running" /\ e.timer.repeat = RepeatOf(e.policy)
  /\ ~e.timer.on => e.timer.due = 0
  /\ e.policy.max # Forever =>
       /\ e.fireCount <= budget(e.policy)
       /\ e.status \in {"Running", "Paused"} => e.fireCount # budget(e.policy)
       /\ e.status = "Expired" => e.fireCount = budget(e.policy)

EntriesSound ==
  /\ timers \in [Ids -> TimerEntry \cup {None}]
  /\ \A id \in Ids : Exists(id) => EntrySound(timers[id])

\* The wrapper in progress is going to note the entry for removal: its closure, with the
\* id, is still there.
WillBeNoted(id) ==
  /\ frame # None /\ frame.stop /\ frame.id = id
  /\ frame.closure /\ frame.home = "timers_"

EndedIsNoted == \A id \in Ids : Exists(id) /\ ~Live(id) => id \in pending \/ WillBeNoted(id)

\* A last callback leaves its entry ended and not noted yet, so no call of an orderly
\* client inside it touches the entry.
LastCallbackUntouched ==
  frame # None /\ frame.stop =>
    /\ frame.home = "timers_" /\ frame.closure /\ frame.callback
    /\ Exists(frame.id) /\ ~Live(frame.id) /\ frame.id \notin pending

OrderlySound == Orderly => LastCallbackUntouched /\ \A id \in Ids : Live(id) => id \notin pending

IndInv ==
  /\ EntriesSound
  /\ pending \subseteq Ids
  /\ graveyard \in [Ids -> UvTimer \cup {None}]
  /\ frame \in Frame \cup {None}
  /\ client \in Clients
  /\ LimitHolds
  /\ GraveyardDisjoint
  /\ EndedIsNoted
  /\ OrderlySound

-----------------------------------------------------------------------------
(* What a client sees of a timer, as the module ManagedTimer states it. *)

toGo(e) == IF e.policy.max = Forever THEN Forever ELSE budget(e.policy) - e.fireCount

\* The next flush takes the timer away: it is noted, or will be when its last callback returns.
leaving(id) == id \in pending \/ (frame # None /\ frame.stop /\ frame.id = id)

timer ==
  [id \in Ids |->
     IF Exists(id) THEN [state    |-> timers[id].status,
                         wait     |-> remainingTime(id),
                         toGo     |-> toGo(timers[id]),
                         interval |-> timers[id].policy.interval,
                         leaving  |-> leaving(id)]
     ELSE None]

discipline ==
  [orderly     |-> Orderly,
   reschedules |-> "reschedule" \in client.between \cup client.inside]

Managed == INSTANCE ManagedTimer WITH timer <- timer, client <- discipline, Absent <- None

\* A timer waits as long as it was told, not counting the time it is paused, and fires as
\* often as its policy says.  A call moves the timer it is about and no other, also inside a
\* callback, except that setTimer removes those that have ended: for an orderly client no
\* timer that runs or is paused.  To others it may happen that it removes one they have
\* rescheduled after its end; ManagedTimer has that as a field of the timer (leaving).  The
\* wait of a timer is changed by time, by its fires, its cancellation and reschedule only;
\* that pausing and resuming lose and add none shows at the clients that never reschedule.
TimersManaged == Managed!Spec

-----------------------------------------------------------------------------
(* Liveness *)

CallsBack(id) == frame # None /\ frame.id = id

\* A timer for which time passes again and again while it is Running comes to its
\* callback, however often it is paused and resumed, unless it is ended or is one of those
\* that a zero interval leaves behind.
RunningTimerFires ==
  \A id \in Ids :
    []<><<Tick /\ Has(id, "Running") /\ ~Stranded(id)>>_vars =>
      []<>(CallsBack(id) \/ ~Live(id))
=============================================================================
