--------------------------- MODULE TimerListener ---------------------------
(***************************************************************************)
(* The event listener of TimerService, which may call the service back.    *)
(*                                                                         *)
(* Every operation tells the listener what it did, most of them as the     *)
(* last thing they do.  Four go on afterwards: cancelTimer notes the id    *)
(* for removal, the callback wrapper uses its reference into timers_ and   *)
(* then calls the client, and cancelAll, pauseAll and resumeAll move an    *)
(* iterator on.  A listener that calls the service from there changes what *)
(* they go on with; the calls it interrupts are the stack of this module.  *)
(*                                                                         *)
(* Timers, policies and the graveyard are those of TimerService; here a    *)
(* timer that is Running may go off, for the last time or not, whenever    *)
(* the loop runs.                                                          *)
(***************************************************************************)
EXTENDS Naturals, Sequences

CONSTANTS
  Ids,       \* timer ids
  Clients,   \* the kinds of client
  MaxDepth   \* calls that may be in progress at a time

Ops == {"set", "cancel", "cancelAll", "pause", "resume", "pauseAll", "resumeAll", "reschedule"}

Loops == {"cancelAll", "pauseAll", "resumeAll"}

\* The operations the listener and the callbacks of timers call, and whether the client
\* cancels or reschedules timers that have ended.
Client == [inside : SUBSET Ops, actsOnEnded : BOOLEAN]

ASSUME ListenerAssumption == Clients \subseteq Client /\ MaxDepth \in Nat \ {0}

TimerStatus == {"absent", "Running", "Paused", "Expired", "Cancelled"}

\* What a call does when the client returns to it: leave, note the id, go on in the wrapper
\* after its event Fired, its event Expired or the callback, go on in a loop.
Places == {"leave", "cancel", "fired", "expired", "callback"} \cup Loops

\* A call that waits for the client: its place, the entry it refers to, whether that
\* reference or iterator is still good, whether the closure it runs in still exists,
\* shouldStop, and the entries its loop has not come to yet.
Frame == [at : Places, id : Ids, good : BOOLEAN, closure : BOOLEAN, stop : BOOLEAN,
          todo : SUBSET Ids]

VARIABLES
  timers,   \* timers_: the status of each id
  pending,  \* pendingRemoval_, as a set
  stack,    \* the calls in progress; the client's code runs for the last one
  client    \* the kind of client; never changes

vars == <<timers, pending, stack, client>>

-----------------------------------------------------------------------------
Exists(id) == timers[id] # "absent"

Live(id) == timers[id] \in {"Running", "Paused"}

MayCall(op) == stack = <<>> \/ (Len(stack) < MaxDepth /\ op \in client.inside)

MayEnd(id) == Exists(id) /\ (client.actsOnEnded \/ Live(id))

Call(at, id, todo) ==
  [at |-> at, id |-> id, good |-> TRUE, closure |-> TRUE, stop |-> FALSE, todo |-> todo]

\* The frame f after the entries erased have left timers_ and those in started have a new
\* closure in their Timer.
Disturbed(f, erased, started) ==
  [f EXCEPT !.good = @ /\ f.id \notin erased,
            !.closure = @ /\ ~(f.good /\ f.id \in started),
            !.todo = @ \ erased]

Below(erased, started) == [i \in DOMAIN stack |-> Disturbed(stack[i], erased, started)]

\* A frame after an insertion: a rehash spoils the iterators of the loops, not the
\* references of the wrapper; without one a loop may or may not come to the new entry.
AfterInsert(f, id, rehash, comes) ==
  IF f.at \notin Loops THEN f
  ELSE [f EXCEPT !.good = @ /\ ~rehash, !.todo = IF comes THEN @ \cup {id} ELSE @]

-----------------------------------------------------------------------------
Init ==
  /\ timers = [id \in Ids |-> "absent"]
  /\ pending = {}
  /\ stack = <<>>
  /\ client \in Clients

\* Faulty variant: the flush removes whatever has ended.
EndedIds == {id \in Ids : Exists(id) /\ ~Live(id)}

\* The entries flushPending erases.
Flushed == {id \in pending : Exists(id)}

\* Faulty variant: the list is not emptied.
PendingKept == pending

PendingAfterFlush == {}

\* setTimer: flush, insert, event Created.
SetTimer(id) ==
  /\ MayCall("set")
  /\ ~Exists(id)
  /\ timers' = [i \in Ids |-> IF i = id THEN "Running" ELSE IF i \in Flushed THEN "absent"
                              ELSE timers[i]]
  /\ pending' = PendingAfterFlush
  /\ \E rehash, comes \in BOOLEAN :
       stack' = Append([i \in DOMAIN stack |->
                          AfterInsert(Below(Flushed, {})[i], id, rehash, comes)],
                       Call("leave", id, {}))
  /\ UNCHANGED client

\* cancelTimer up to its event.
CancelTimer(id) ==
  /\ MayCall("cancel")
  /\ MayEnd(id)
  /\ timers' = [timers EXCEPT ![id] = "Cancelled"]
  /\ stack' = Append(stack, Call("cancel", id, {}))
  /\ UNCHANGED <<pending, client>>

\* pauseTimer, resumeTimer and rescheduleTimer tell the listener and are done.
PauseTimer(id) ==
  /\ MayCall("pause")
  /\ timers[id] = "Running"
  /\ timers' = [timers EXCEPT ![id] = "Paused"]
  /\ stack' = Append(stack, Call("leave", id, {}))
  /\ UNCHANGED <<pending, client>>

Restart(id) ==
  /\ timers' = [timers EXCEPT ![id] = "Running"]
  /\ stack' = Append(Below({}, {id}), Call("leave", id, {}))
  /\ UNCHANGED <<pending, client>>

ResumeTimer(id) == MayCall("resume") /\ timers[id] = "Paused" /\ Restart(id)

RescheduleTimer(id) == MayCall("reschedule") /\ MayEnd(id) /\ Restart(id)

-----------------------------------------------------------------------------
(* The loops over timers_: below is the stack without the loop's own frame, todo what the  *)
(* iterator has still to come to.                                                          *)

\* Faulty variant: a timer that is paused is left out.
CancelsRunning(op, id) ==
  \/ op \in {"cancelAll", "pauseAll"} /\ timers[id] = "Running"
  \/ op = "resumeAll" /\ timers[id] = "Paused"

\* The entries the loop changes, and tells the listener about.
Changes(op, id) ==
  \/ op = "cancelAll" /\ Exists(id)
  \/ op = "pauseAll" /\ timers[id] = "Running"
  \/ op = "resumeAll" /\ timers[id] = "Paused"

\* Faulty variant: the name of the event is taken for the status.
ChangedToEvent(op) ==
  CASE op = "cancelAll" -> "Cancelled" [] op = "pauseAll" -> "Paused" [] OTHER -> "Resumed"

ChangedTo(op) ==
  CASE op = "cancelAll" -> "Cancelled" [] op = "pauseAll" -> "Paused" [] OTHER -> "Running"

\* On to the next entry the loop changes, past some it does not.
LoopNext(op, below, todo) ==
  \E id \in {i \in todo : Changes(op, i)}, passed \in SUBSET {i \in todo : ~Changes(op, i)} :
    /\ timers' = [timers EXCEPT ![id] = ChangedTo(op)]
    /\ stack' = Append([i \in DOMAIN below |->
                          Disturbed(below[i], {}, IF op = "resumeAll" THEN {id} ELSE {})],
                       Call(op, id, todo \ ({id} \cup passed)))

\* Nothing is left; cancelAll then clears the table.
LoopDone(op, below, todo) ==
  /\ \A id \in todo : ~Changes(op, id)
  /\ timers' = IF op = "cancelAll" THEN [id \in Ids |-> "absent"] ELSE timers
  /\ stack' = IF op = "cancelAll"
              THEN [i \in DOMAIN below |-> [Disturbed(below[i], Ids, {}) EXCEPT !.closure = FALSE]]
              ELSE below

\* cancelAll, pauseAll and resumeAll up to the first event, or altogether.
StartLoop(op) ==
  /\ MayCall(op)
  /\ pending' = IF op = "cancelAll" THEN {} ELSE pending
  /\ LET all == {id \in Ids : Exists(id)}
     IN  LoopNext(op, stack, all) \/ LoopDone(op, stack, all)
  /\ UNCHANGED client

-----------------------------------------------------------------------------
\* A timer goes off: the wrapper tells the listener Fired.
Fire(id, stop) ==
  /\ stack = <<>>
  /\ timers[id] = "Running"
  /\ timers' = [timers EXCEPT ![id] = IF stop THEN "Expired" ELSE @]
  /\ stack' = <<[Call("fired", id, {}) EXCEPT !.stop = stop]>>
  /\ UNCHANGED <<pending, client>>

Top == stack[Len(stack)]

Rest == SubSeq(stack, 1, Len(stack) - 1)

\* The listener returns to a call that has nothing left to do, or to the wrapper, which
\* goes on to its next event or to the callback if the entry and its closure are there.
Leave ==
  /\ stack # <<>>
  /\ \/ Top.at = "leave" /\ stack' = Rest
     \/ /\ Top.at \in {"fired", "expired"} /\ Top.good /\ Top.closure
        /\ stack' = [stack EXCEPT ![Len(stack)].at =
                       IF Top.stop /\ Top.at = "fired" THEN "expired" ELSE "callback"]
  /\ UNCHANGED <<timers, pending, client>>

\* cancelTimer and the wrapper of a last callback note the id.  A wrapper whose closure was
\* destroyed meanwhile may note something else.
NoteRemoval ==
  /\ stack # <<>>
  /\ \/ Top.at = "cancel" /\ pending' = pending \cup {Top.id}
     \/ Top.at = "callback" /\ Top.stop /\ pending' = pending \cup {Top.id}
     \/ Top.at = "callback" /\ (~Top.stop \/ ~Top.closure \/ ~Top.good) /\ UNCHANGED pending
  /\ stack' = Rest
  /\ UNCHANGED <<timers, client>>

\* The listener returns to a loop whose iterator is good.
ContinueLoop ==
  /\ stack # <<>>
  /\ Top.at \in Loops /\ Top.good
  /\ LoopNext(Top.at, Rest, Top.todo) \/ LoopDone(Top.at, Rest, Top.todo)
  /\ UNCHANGED <<pending, client>>

Next ==
  \/ \E id \in Ids : SetTimer(id)
  \/ \E id \in Ids : CancelTimer(id)
  \/ \E id \in Ids : PauseTimer(id)
  \/ \E id \in Ids : ResumeTimer(id)
  \/ \E id \in Ids : RescheduleTimer(id)
  \/ \E op \in Loops : StartLoop(op)
  \/ \E id \in Ids, stop \in BOOLEAN : Fire(id, stop)
  \/ Leave
  \/ NoteRemoval
  \/ ContinueLoop

Spec == Init /\ [][Next]_vars

-----------------------------------------------------------------------------
TypeOK ==
  /\ timers \in [Ids -> TimerStatus]
  /\ pending \subseteq Ids
  /\ stack \in Seq(Frame) /\ Len(stack) <= MaxDepth
  /\ client \in Clients

Orderly == ~client.actsOnEnded

Calls(ops) == client.inside \cap ops # {}

\* A listener that disturbs no wrapper: it may pause, resume or cancel timers, or set new
\* ones, but not pause and resume, cancel and set, reschedule, or call cancelAll.
Gentle ==
  /\ Orderly
  /\ ~Calls({"cancelAll", "reschedule"})
  /\ ~(Calls({"pause", "pauseAll"}) /\ Calls({"resume", "resumeAll"}))
  /\ ~(Calls({"cancel"}) /\ Calls({"set"}))

\* A listener without setTimer and cancelAll spoils no iterator of the loops it is called in:
\* cancelTimer only notes, it erases nothing.
IteratorsKept ==
  ~Calls({"set", "cancelAll"}) => \A i \in DOMAIN stack : stack[i].at \in Loops => stack[i].good

\* What a call goes on with when the listener returns is still there.  A wrapper that has
\* told it Fired or Expired finds its entry and its closure, if the listener is gentle; a
\* loop over the table finds its iterator, if the listener adds and clears no entries.
ReferencesKept ==
  /\ Gentle => \A i \in DOMAIN stack : stack[i].at \in {"fired", "expired"} =>
                 stack[i].good /\ stack[i].closure
  /\ IteratorsKept

\* The listener never both clears the table and sets timers.
ClearsOrSets == Orderly /\ ~(Calls({"set"}) /\ Calls({"cancelAll"}))

\* A timer that is live is not noted for removal, and hasTimer shows it, unless the listener
\* of an orderly client both clears the table and sets timers while cancelTimer waits.
LiveIsListed == ClearsOrSets => \A id \in Ids : Live(id) => id \notin pending

\* No timer disappears before the listener was told of its end, if the listener of an
\* orderly client sets none: the table is only ever cleared of what has ended.
NoSilentEnd ==
  [][Orderly /\ ~Calls({"set"}) =>
       \A id \in Ids : Live(id) => Exists(id)']_vars

-----------------------------------------------------------------------------
(* The inductive invariant the proofs of the properties above rest on. *)

Wrappers == {"fired", "expired", "callback"}

\* The loop calls a wrapper only when nothing else is in progress.
WrapperIsFirst == \A i \in DOMAIN stack : stack[i].at \in Wrappers => i = 1

\* All but the first call in progress are calls of the listener or of a callback.
NestedAsAllowed ==
  \A i \in DOMAIN stack : i # 1 /\ stack[i].at \in Loops \cup {"cancel"} =>
    stack[i].at \in client.inside

\* The call will note its id for removal.
Notes(f) == f.at = "cancel" \/ (f.at \in Wrappers /\ f.stop)

\* What is going to be noted has ended.  If new timers may be set meanwhile its entry is still
\* there, so that none of them has its id, and only one call will note it.
NotedHasEnded ==
  ClearsOrSets =>
    /\ \A i \in DOMAIN stack : Notes(stack[i]) => ~Live(stack[i].id)
    /\ Calls({"set"}) =>
         /\ \A i \in DOMAIN stack : Notes(stack[i]) =>
              Exists(stack[i].id) /\ stack[i].id \notin pending
         /\ \A i, j \in DOMAIN stack : Notes(stack[i]) /\ Notes(stack[j]) /\ i # j =>
              stack[i].id # stack[j].id

\* cancelAll has still to come to every timer that is live.
LeftToCancel ==
  Orderly /\ ~Calls({"set"}) =>
    \A i \in DOMAIN stack : stack[i].at = "cancelAll" =>
      \A id \in Ids : Live(id) => id \in stack[i].todo

\* No call of a gentle listener reaches the entry of the wrapper: resume does not apply to
\* it, and a flush does not remove it.
WrapperUntouched ==
  Gentle => \A i \in DOMAIN stack : stack[i].at \in {"fired", "expired"} =>
    /\ stack[i].good /\ stack[i].closure
    /\ Calls({"resume", "resumeAll"}) => timers[stack[i].id] # "Paused"
    /\ Calls({"set"}) => stack[i].id \notin pending

IndInv ==
  /\ TypeOK
  /\ WrapperIsFirst
  /\ NestedAsAllowed
  /\ LiveIsListed
  /\ NotedHasEnded
  /\ LeftToCancel
  /\ WrapperUntouched
  /\ IteratorsKept
=============================================================================
