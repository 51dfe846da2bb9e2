----------------------- MODULE TimerRefinementProofs -----------------------
(***************************************************************************)
(* The steps of TimerService: for an orderly client they follow the        *)
(* documented state machine, and for every client, seen through the        *)
(* mapping timer, they are steps of ManagedTimer or stutter.               *)
(***************************************************************************)
EXTENDS TimerServiceProofs

LEMMA DocumentedStep ==
  ASSUME IndInv, [Next]_vars, Orderly, NEW i \in Ids
  PROVE  state(i)' = state(i) \/ <<state(i), state(i)'>> \in Documented
<1> USE DEF state, Exists
<1>1. \A t \in Timeouts, p \in Policies :
        NewEntry(t, p).status = "Running" /\ NewEntry(t, p) # None
  BY NewEntrySound, TimerAssumption DEF EntrySound
<1>2. \A id \in Ids : Exists(id) => timers[id].status \in TimerStatus /\ timers[id] \in TimerEntry
  BY DEF IndInv, EntriesSound, EntrySound, TimerEntry
<1>3. ASSUME NEW id \in Ids, NEW t \in Timeouts, NEW p \in Policies, SetTimer(id, t, p)
      PROVE  state(i)' = state(i) \/ <<state(i), state(i)'>> \in Documented
  <2>1. i \in pending => ~Live(i)
    BY DEF IndInv, OrderlySound
  <2>2. timers'[i] = IF i = id THEN NewEntry(t, p) ELSE IF Flushes(i) THEN None ELSE timers[i]
    BY <1>3 DEF SetTimer
  <2>3. i = id => timers[i] = None
    BY <1>3 DEF SetTimer, SetResult
  <2> QED
    BY <1>1, <1>2, <2>1, <2>2, <2>3 DEF Documented, Live, Has, TimerStatus, Flushes
<1>4. ASSUME NEW id \in Ids, CancelTimer(id)
      PROVE  state(i)' = state(i) \/ <<state(i), state(i)'>> \in Documented
  <2> DEFINE e == [timers[id] EXCEPT !.status = "Cancelled", !.timer = Stopped]
  <2>1. Live(id) /\ timers' = [timers EXCEPT ![id] = e]
    BY <1>4 DEF CancelTimer, MayEnd, Orderly, IndInv, EntriesSound
  <2>2. EntrySound(timers[id]) /\ timers[id] \in TimerEntry
    BY <2>1 DEF Live, Has, IndInv, EntriesSound, EntrySound
  <2>3. EntrySound(e) /\ e.status = "Cancelled"
    BY <2>2, CancelledSound DEF TimerEntry
  <2>4. e # None
    BY <2>3, TimerAssumption DEF EntrySound
  <2> HIDE DEF e
  <2> QED
    BY <2>1, <2>3, <2>4 DEF Documented, Live, Has, IndInv, EntriesSound
<1>5. CASE CancelAll
  BY <1>2, <1>5 DEF CancelAll, Documented, TimerStatus
<1>6. ASSUME NEW ids \in SUBSET Ids, \A id \in ids : Has(id, "Running"), Pause(ids)
      PROVE  state(i)' = state(i) \/ <<state(i), state(i)'>> \in Documented
  <2>1. i \in ids => PausedEntry(timers[i]).status = "Paused" /\ PausedEntry(timers[i]) # None
    BY <1>6, PausedSound, TimerAssumption DEF Has, IndInv, EntriesSound, EntrySound
  <2> QED
    BY <1>6, <2>1 DEF Pause, Has, Documented
<1>7. ASSUME NEW ids \in SUBSET Ids, \A id \in ids : Has(id, "Paused"), Resume(ids)
      PROVE  state(i)' = state(i) \/ <<state(i), state(i)'>> \in Documented
  <2>1. i \in ids => ResumedEntry(timers[i]).status = "Running" /\ ResumedEntry(timers[i]) # None
    BY <1>7, ResumedSound, TimerAssumption DEF Has, IndInv, EntriesSound, EntrySound
  <2> QED
    BY <1>7, <2>1 DEF Resume, Has, Documented
<1>8. ASSUME NEW id \in Ids, NEW t \in Timeouts, NEW p \in Policies, RescheduleTimer(id, t, p)
      PROVE  state(i)' = state(i) \/ <<state(i), state(i)'>> \in Documented
  BY <1>1, <1>8 DEF RescheduleTimer, MayEnd, Orderly, Live, Has, IndInv, EntriesSound, Documented
<1>9. ASSUME NEW id \in Ids, FireBegin(id)
      PROVE  state(i)' = state(i) \/ <<state(i), state(i)'>> \in Documented
  <2> DEFINE f == Fired([timers[id] EXCEPT !.timer = Rearmed(timers[id].timer)])
  <2>1. EntrySound(timers[id]) /\ timers[id].timer.on /\ timers[id].status = "Running"
    BY <1>9 DEF FireBegin, IndInv, EntriesSound, EntrySound
  <2>2. timers' = [timers EXCEPT ![id] = f]
    BY <1>9 DEF FireBegin
  <2>3. f.status \in {"Running", "Expired"} /\ f # None
    BY <2>1, FiredSound, TimerAssumption DEF EntrySound
  <2> HIDE DEF f
  <2> QED
    BY <1>9, <2>1, <2>2, <2>3 DEF FireBegin, IndInv, EntriesSound, Documented
<1>10. ASSUME NEW id \in Ids, FireStale(id)
       PROVE  state(i)' = state(i) \/ <<state(i), state(i)'>> \in Documented
  BY <1>10, FireStaleQuiet
<1>11. CASE FireEnd
  BY <1>11 DEF FireEnd
<1>12. CASE Tick
  <2>1. timers'[i] = IF Exists(i) THEN [timers[i] EXCEPT !.timer = Elapsed(timers[i].timer)]
                     ELSE None
    BY <1>12 DEF Tick
  <2>2. Exists(i) => LET e == [timers[i] EXCEPT !.timer = Elapsed(timers[i].timer)]
                     IN  e.status = timers[i].status /\ e # None
    BY <1>2, ElapsedSound, TimerAssumption DEF IndInv, EntriesSound, EntrySound, TimerEntry
  <2> QED
    BY <2>1, <2>2
<1>13. CASE UNCHANGED vars
  BY <1>13 DEF vars
<1> QED
  BY <1>3, <1>4, <1>5, <1>6, <1>7, <1>8, <1>9, <1>10, <1>11, <1>12, <1>13
     DEF Next, ClientStep, PauseTimer, PauseAll, ResumeTimer, ResumeAll, Resumable

\* A timer of an orderly client moves along the documented state machine only, whatever its
\* callbacks create, cancel, pause and resume.
THEOREM LifecycleCorrect == Spec => OrderlyLifecycle
<1>1. IndInv /\ [Next]_vars => [Orderly => MovesAsDocumented]_vars
  BY DocumentedStep DEF MovesAsDocumented
<1> QED
  BY <1>1, Invariance, PTL DEF Spec, OrderlyLifecycle

-----------------------------------------------------------------------------
(* The refinement. *)

\* The client's view of an entry; l is whether it is leaving.
View(e, l) ==
  [state    |-> e.status,
   wait     |-> IF e.status = "Running" THEN e.timer.due
                ELSE IF e.status = "Paused" THEN e.remaining ELSE 0,
   toGo     |-> toGo(e),
   interval |-> e.policy.interval,
   leaving  |-> l]

ViewFields == {"state", "wait", "toGo", "interval", "leaving"}

LEMMA TimerView ==
  timer = [id \in Ids |-> IF Exists(id) THEN View(timers[id], leaving(id)) ELSE None]
BY DEF timer, View, remainingTime, Has, Exists

LEMMA TimerViewNext ==
  timer' = [id \in Ids |-> IF Exists(id)' THEN View(timers'[id], leaving(id)') ELSE None]
BY DEF timer, View, remainingTime, Has, Exists, toGo

LEMMA LeavingBoolean == \A id : leaving(id) \in BOOLEAN
BY DEF leaving

LEMMA ViewSeen ==
  ASSUME NEW e, EntrySound(e), NEW l \in BOOLEAN
  PROVE  View(e, l) \in Seen /\ View(e, l) # None
<1>1. /\ e \in TimerEntry /\ e.policy \in Policies /\ e.policy \in Policy
      /\ e.status \in TimerStatus /\ e.remaining \in Nat /\ e.fireCount \in Nat
      /\ e.timer.due \in Nat
  BY DEF EntrySound, TimerEntry, UvTimer
<1>2. toGo(e) \in Nat \cup {Forever}
  BY <1>1, PolicyFacts DEF toGo, EntrySound
<1>3. View(e, l) \in Seen
  BY <1>1, <1>2 DEF View, Seen, Policy
<1> QED
  BY <1>3, TimerAssumption

\* The steps of one timer, as the view shows them.
LEMMA NewView ==
  ASSUME NEW t \in Timeouts, NEW p \in Policies, NEW l
  PROVE  View(NewEntry(t, p), l) = Managed!Fresh(t, p, l)
<1> DEFINE e == NewEntry(t, p)
<1>1. /\ e.status = "Running" /\ e.policy = p /\ e.fireCount = 0
      /\ e.timer.due = t
  BY DEF NewEntry, StartedEntry, Started
<1>2. toGo(e) = Managed!Budget(p)
  BY <1>1, PolicyFacts, TimerAssumption DEF toGo, budget, isOneShot, Managed!Budget
<1> HIDE DEF e
<1> QED
  BY <1>1, <1>2 DEF View, Managed!Fresh, e

LEMMA CancelView ==
  ASSUME NEW e, EntrySound(e), NEW l
  PROVE  View([e EXCEPT !.status = "Cancelled", !.timer = Stopped], TRUE)
         = Managed!Cancelled(View(e, l))
<1> DEFINE c == [e EXCEPT !.status = "Cancelled", !.timer = Stopped]
           v == Managed!Cancelled(View(e, l))
<1>1. c.status = "Cancelled" /\ c.policy = e.policy /\ c.fireCount = e.fireCount
  BY DEF EntrySound, TimerEntry
<1>2. toGo(c) = toGo(e)
  BY <1>1 DEF toGo
<1> HIDE DEF c
<1>3. View(c, TRUE) = [state |-> "Cancelled", wait |-> 0, toGo |-> toGo(e),
                       interval |-> e.policy.interval, leaving |-> TRUE]
  BY <1>1, <1>2 DEF View
<1>4. /\ v = [x \in ViewFields |-> v[x]]
      /\ v.state = "Cancelled" /\ v.wait = 0 /\ v.toGo = toGo(e)
      /\ v.interval = e.policy.interval /\ v.leaving = TRUE
  BY DEF View, ViewFields, Managed!Cancelled
<1> HIDE DEF v
<1>5. View(c, TRUE) = v
  BY <1>3, <1>4 DEF ViewFields
<1> QED
  BY <1>5 DEF c, v

LEMMA PauseView ==
  ASSUME NEW e, EntrySound(e), e.status = "Running", NEW l
  PROVE  View(PausedEntry(e), l) = Managed!Moved(View(e, l), "Paused")
<1> DEFINE q == PausedEntry(e)
<1>1. /\ q.status = "Paused" /\ q.policy = e.policy /\ q.fireCount = e.fireCount
      /\ q.remaining = e.timer.due
  BY DEF EntrySound, TimerEntry, PausedEntry
<1>2. toGo(q) = toGo(e)
  BY <1>1 DEF toGo
<1> HIDE DEF q
<1>3. View(q, l) = [View(e, l) EXCEPT !.state = "Paused"]
  BY <1>1, <1>2 DEF View
<1> QED
  BY <1>3 DEF Managed!Moved, q

LEMMA ResumeView ==
  ASSUME NEW e, EntrySound(e), e.status = "Paused", NEW l
  PROVE  View(ResumedEntry(e), l) = Managed!Moved(View(e, l), "Running")
<1> DEFINE q == ResumedEntry(e)
<1>1. /\ q.status = "Running" /\ q.policy = e.policy /\ q.fireCount = e.fireCount
      /\ q.timer.due = e.remaining
  BY DEF EntrySound, TimerEntry, ResumedEntry, StartedEntry, Started
<1>2. toGo(q) = toGo(e)
  BY <1>1 DEF toGo
<1> HIDE DEF q
<1>3. View(q, l) = [View(e, l) EXCEPT !.state = "Running"]
  BY <1>1, <1>2 DEF View
<1> QED
  BY <1>3 DEF Managed!Moved, q

\* A fire is the last exactly when the view says so.
LEMMA FireView ==
  ASSUME NEW e, EntrySound(e), e.status = "Running", e.timer.on, e.timer.due = 0, NEW l
  PROVE  LET f == Fired([e EXCEPT !.timer = Rearmed(e.timer)])
         IN  IF f.status = "Expired"
             THEN toGo(e) = 1 /\ View(f, TRUE) = Managed!Expired(View(e, l))
             ELSE toGo(e) # 1 /\ View(f, l) = Managed!Repeated(View(e, l))
<1> DEFINE f == Fired([e EXCEPT !.timer = Rearmed(e.timer)])
           p == e.policy
<1>1. /\ p \in Policies /\ p \in Policy /\ e.fireCount \in Nat /\ e.timer \in UvTimer
      /\ e.timer.repeat = RepeatOf(p)
  BY PolicyFacts DEF EntrySound, TimerEntry
<1>2. /\ EntrySound(f) /\ f.policy = p
      /\ f.status \in {"Running", "Expired"}
      /\ f.status = "Running" => f.timer = Rearmed(e.timer) /\ ~Spent(p, f.fireCount)
      /\ p.max # Forever => f.fireCount = e.fireCount + 1
      /\ p.max # Forever /\ f.status = "Running" => f.fireCount < budget(p)
      /\ f.status = "Expired" => p.max # Forever /\ f.fireCount = budget(p)
  BY FiredSound
<1> HIDE DEF f
<1>3. /\ View(e, l).state = "Running" /\ View(e, l).wait = 0 /\ View(e, l).toGo = toGo(e)
      /\ View(e, l).interval = p.interval /\ View(e, l).leaving = l
  BY DEF View
<1>4. CASE f.status = "Expired"
  <2> DEFINE v == Managed!Expired(View(e, l))
  <2>1. toGo(e) = 1 /\ toGo(f) = 0
    BY <1>1, <1>2, <1>4, PolicyFacts DEF toGo
  <2>2. View(f, TRUE) = [state |-> "Expired", wait |-> 0, toGo |-> 0,
                         interval |-> p.interval, leaving |-> TRUE]
    BY <1>2, <1>4, <2>1 DEF View
  <2>3. /\ v = [x \in ViewFields |-> v[x]]
        /\ v.state = "Expired" /\ v.toGo = 0 /\ v.leaving = TRUE
        /\ v.wait = View(e, l).wait /\ v.interval = View(e, l).interval
    BY DEF View, ViewFields, Managed!Expired
  <2> HIDE DEF v
  <2>4. View(f, TRUE) = v
    BY <1>3, <2>2, <2>3 DEF ViewFields
  <2> QED
    BY <1>4, <2>1, <2>4 DEF v, f
<1>5. CASE f.status = "Running"
  <2> DEFINE v == Managed!Repeated(View(e, l))
  <2>1. f.timer.due = p.interval
    BY <1>1, <1>2, <1>5, RearmedTimer DEF RepeatOf, Spent
  <2>2. /\ toGo(e) # 1
        /\ toGo(f) = IF toGo(e) = Forever THEN Forever ELSE toGo(e) - 1
    BY <1>1, <1>2, <1>5, PolicyFacts, TimerAssumption DEF toGo
  <2>3. View(f, l) = [state |-> "Running", wait |-> p.interval, toGo |-> toGo(f),
                     interval |-> p.interval, leaving |-> l]
    BY <1>2, <1>5, <2>1 DEF View
  <2>4. /\ v = [x \in ViewFields |-> v[x]]
        /\ v.state = View(e, l).state /\ v.wait = p.interval
        /\ v.interval = View(e, l).interval /\ v.leaving = l
        /\ v.toGo = IF toGo(e) = Forever THEN Forever ELSE toGo(e) - 1
    BY DEF View, ViewFields, Managed!Repeated
  <2> HIDE DEF v
  <2>5. View(f, l) = v
    BY <1>3, <2>2, <2>3, <2>4 DEF ViewFields
  <2> QED
    BY <1>5, <2>2, <2>5 DEF v, f
<1> QED
  BY <1>2, <1>4, <1>5

LEMMA TickView ==
  ASSUME NEW e, EntrySound(e), NEW l \in BOOLEAN
  PROVE  View([e EXCEPT !.timer = Elapsed(e.timer)], l) = Managed!Waited(View(e, l))
<1> DEFINE q == [e EXCEPT !.timer = Elapsed(e.timer)]
<1>1. /\ q.status = e.status /\ q.policy = e.policy /\ q.fireCount = e.fireCount
      /\ q.remaining = e.remaining /\ q.timer = Elapsed(e.timer)
      /\ e.timer \in UvTimer
  BY DEF EntrySound, TimerEntry
<1>2. toGo(q) = toGo(e)
  BY <1>1 DEF toGo
<1> HIDE DEF q
<1>3. q.timer.due = IF e.timer.due > 0 THEN e.timer.due - 1 ELSE e.timer.due
  BY <1>1 DEF EntrySound, Elapsed, UvTimer
<1>4. View(e, l) # None
  BY ViewSeen
<1>5. CASE e.status = "Running"
  <2>1. /\ View(q, l) = [state |-> "Running", wait |-> q.timer.due, toGo |-> toGo(e),
                        interval |-> e.policy.interval, leaving |-> l]
        /\ View(e, l) = [state |-> "Running", wait |-> e.timer.due, toGo |-> toGo(e),
                        interval |-> e.policy.interval, leaving |-> l]
    BY <1>1, <1>2, <1>5 DEF View
  <2>2. Managed!Waited(View(e, l)) =
          IF e.timer.due > 0 THEN [View(e, l) EXCEPT !.wait = e.timer.due - 1] ELSE View(e, l)
    BY <1>4, <2>1 DEF Managed!Waited
  <2>3. View(q, l) = Managed!Waited(View(e, l))
    BY <1>3, <2>1, <2>2
  <2> QED
    BY <2>3 DEF q
<1>6. CASE e.status # "Running"
  <2>1. View(q, l) = View(e, l) /\ View(e, l).state # "Running"
    BY <1>1, <1>2, <1>6 DEF View
  <2>2. View(q, l) = Managed!Waited(View(e, l))
    BY <2>1 DEF Managed!Waited
  <2> QED
    BY <2>2 DEF q
<1> QED
  BY <1>5, <1>6

-----------------------------------------------------------------------------
(* The steps of the service. *)

\* What a client sees of a timer now, and after a step; who the client is does not change.
Seeing ==
  /\ \A i \in Ids : timer[i] = IF Exists(i) THEN View(timers[i], leaving(i)) ELSE None
  /\ \A i \in Ids : timer'[i] = IF Exists(i)' THEN View(timers'[i], leaving(i)') ELSE None
  /\ \A i \in Ids : Exists(i) => /\ EntrySound(timers[i])
                                 /\ View(timers[i], leaving(i)) # None
  /\ \A e : EntrySound(e) => e # None

LEMMA SeeingHolds == ASSUME IndInv PROVE Seeing
<1>1. \A i \in Ids : Exists(i) => EntrySound(timers[i]) /\ View(timers[i], leaving(i)) # None
  BY ViewSeen, LeavingBoolean DEF IndInv, EntriesSound
<1>2. \A e : EntrySound(e) => e # None
  BY TimerAssumption DEF EntrySound
<1> QED
  BY <1>1, <1>2, TimerView, TimerViewNext DEF Seeing

LEMMA ShowsView ==
  ASSUME IndInv, NEW i \in Ids, NEW s
  PROVE  Managed!Shows(i, s) <=> Has(i, s)
<1>1. CASE Exists(i)
  <2>1. timer[i] = View(timers[i], leaving(i)) /\ timer[i] # None
    BY <1>1, SeeingHolds DEF Seeing
  <2>2. timer[i].state = timers[i].status
    BY <2>1 DEF View
  <2> QED
    BY <1>1, <2>1, <2>2 DEF Managed!Shows, Has
<1>2. CASE ~Exists(i)
  <2>1. timer[i] = None
    BY <1>2, SeeingHolds DEF Seeing
  <2> QED
    BY <1>2, <2>1 DEF Managed!Shows, Has
<1> QED
  BY <1>1, <1>2

\* The timers the view shows as leaving.
LEMMA LeavingView ==
  ASSUME IndInv, NEW i \in Ids
  PROVE  /\ i \in Managed!Leaving <=> Exists(i) /\ leaving(i)
         /\ Exists(i) => timer[i].leaving = leaving(i)
<1>1. Exists(i) => timer[i] = View(timers[i], leaving(i)) /\ timer[i] # None
  BY SeeingHolds DEF Seeing
<1>2. Exists(i) => timer[i].leaving = leaving(i)
  BY <1>1 DEF View
<1>3. ~Exists(i) => timer[i] = None
  BY SeeingHolds DEF Seeing
<1>4. i \in Managed!Leaving <=> timer[i] # None /\ timer[i].leaving
  BY DEF Managed!Leaving
<1> QED
  BY <1>1, <1>2, <1>3, <1>4

\* Starting a timer changes nothing of what is going to leave.
LEMMA StartLeaving ==
  ASSUME IndInv, NEW ids, FrameAfterStart(ids), UNCHANGED pending, NEW i
  PROVE  leaving(i)' = leaving(i)
<1>1. CASE frame = None
  BY <1>1 DEF FrameAfterStart, leaving
<1>2. CASE frame # None
  <2>1. frame' \in Frame /\ frame'.id = frame.id /\ frame'.stop = frame.stop
    BY <1>2 DEF FrameAfterStart, IndInv, Frame
  <2> QED
    BY <1>2, <2>1, TimerAssumption DEF leaving
<1> QED
  BY <1>1, <1>2

LEMMA MayEndView ==
  ASSUME IndInv, NEW i \in Ids, MayEnd(i)
  PROVE  Managed!MayEnd(i)
BY ShowsView, SeeingHolds DEF Seeing, Managed!MayEnd, MayEnd, discipline, Orderly, Live, Exists

\* It is enough that the timers take one of the abstract steps.
LEMMA StepOfAll ==
  ASSUME UNCHANGED client,
         \/ \E id \in Ids : Managed!OneTimer(id) \/ Managed!Set(id)
         \/ Managed!CancelAll
         \/ Managed!PauseAll
         \/ Managed!ResumeAll
         \/ Managed!Tick
  PROVE  Managed!Next
<1>1. timer' = [id \in Ids |-> timer'[id]]
  BY TimerViewNext
<1>2. discipline' = discipline
  BY DEF discipline, Orderly
<1> QED
  BY <1>1, <1>2 DEF Managed!Next

LEMMA Unseen ==
  ASSUME UNCHANGED <<timers, client>>, \A i \in Ids : Exists(i) => leaving(i)' = leaving(i)
  PROVE  UNCHANGED <<timer, discipline>>
<1>1. \A i \in Ids : Exists(i)' <=> Exists(i)
  BY DEF Exists
<1>2. UNCHANGED timer
  BY <1>1, TimerView, TimerViewNext
<1> QED
  BY <1>2 DEF discipline, Orderly

LEMMA SetTimerRefined ==
  ASSUME IndInv, NEW id \in Ids, NEW t \in Timeouts, NEW p \in Policies, SetTimer(id, t, p)
  PROVE  Managed!Set(id)
<1> USE SeeingHolds DEF Seeing
<1>1. ~Exists(id) /\ timer[id] = None
  BY DEF SetTimer, SetResult
<1>2. NewEntry(t, p) # None
  BY NewEntrySound
<1>3. timer'[id] = Managed!Fresh(t, p, leaving(id)') /\ leaving(id)' \in BOOLEAN
  BY <1>2, NewView, LeavingBoolean DEF SetTimer, Exists, leaving
<1>4. \A i \in Ids : leaving(i)' <=> frame # None /\ frame.stop /\ frame.id = i
  <2>1. pending' = {} /\ (frame = None => frame' = None)
    BY DEF SetTimer, Flush
  <2>2. frame # None => frame' # None /\ frame'.id = frame.id /\ frame'.stop = frame.stop
    BY SetTimerFrame, TimerAssumption DEF IndInv
  <2> QED
    BY <2>1, <2>2 DEF leaving
<1>5. discipline.orderly => ~timer'[id].leaving
  <2>1. Orderly => ~leaving(id)'
    BY <1>1, <1>4 DEF IndInv, OrderlySound, LastCallbackUntouched
  <2> QED
    BY <1>3, <2>1 DEF discipline, Managed!Fresh
<1>6. ASSUME NEW i \in Ids \ {id}
      PROVE  IF Flushes(i) THEN i \in Managed!Leaving /\ timer'[i] = None
             ELSE timer'[i] = timer[i]
  <2>1. CASE Flushes(i)
    <3>1. i \in Managed!Leaving
      BY <2>1, LeavingView DEF Flushes, leaving
    <3>2. timers'[i] = None
      BY <1>6, <2>1 DEF SetTimer
    <3> QED
      BY <2>1, <3>1, <3>2 DEF Exists
  <2>2. CASE ~Flushes(i) /\ Exists(i)
    <3>1. leaving(i)' = leaving(i)
      BY <1>4, <2>2 DEF Flushes, leaving
    <3>2. timers'[i] = timers[i]
      BY <1>6, <2>2 DEF SetTimer
    <3> QED
      BY <2>2, <3>1, <3>2 DEF Exists
  <2>3. CASE ~Exists(i)
    BY <1>6, <2>3 DEF SetTimer, Flushes, Exists
  <2> QED
    BY <2>1, <2>2, <2>3
<1>7. ASSUME NEW i \in Managed!Leaving, timer'[i] # None
      PROVE  frame.id = i
  <2>1. i \in Ids /\ Exists(i) /\ leaving(i)
    BY <1>7, LeavingView DEF Managed!Leaving
  <2>2. i # id /\ ~Flushes(i)
    BY <1>1, <1>6, <1>7, <2>1
  <2> QED
    BY <2>1, <2>2 DEF Flushes, leaving
<1>8. timer'[id] \in {Managed!Fresh(x, q, l) : x \in Timeouts, q \in Policies, l \in BOOLEAN}
  BY <1>3
<1>9. \A i, j \in Managed!Leaving : timer'[i] # None /\ timer'[j] # None => i = j
  BY <1>7
<1> QED
  BY <1>1, <1>5, <1>6, <1>8, <1>9 DEF Managed!Set

LEMMA CancelTimerRefined ==
  ASSUME IndInv, NEW id \in Ids, CancelTimer(id)
  PROVE  Managed!OneTimer(id)
<1> USE SeeingHolds DEF Seeing
<1> DEFINE e == [timers[id] EXCEPT !.status = "Cancelled", !.timer = Stopped]
<1>1. EntrySound(timers[id]) /\ Exists(id) /\ EntrySound(e) /\ e # None
  BY CancelledSound DEF CancelTimer, MayEnd
<1>2. /\ timers' = [timers EXCEPT ![id] = e]
      /\ pending' = pending \cup {id} /\ frame' = frame
  BY DEF CancelTimer, NotedForRemoval, IndInv, EntriesSound
<1>3. View(e, TRUE) = Managed!Cancelled(View(timers[id], leaving(id)))
  BY <1>1, CancelView
<1> HIDE DEF e
<1>4. leaving(id)' = TRUE /\ \A i \in Ids \ {id} : leaving(i)' = leaving(i)
  BY <1>2 DEF leaving
<1>5. timer'[id] = Managed!Cancelled(timer[id]) /\ \A i \in Ids \ {id} : timer'[i] = timer[i]
  BY <1>1, <1>2, <1>3, <1>4 DEF Exists, IndInv, EntriesSound
<1>6. Managed!MayEnd(id)
  BY MayEndView DEF CancelTimer
<1> QED
  BY <1>5, <1>6 DEF Managed!OneTimer, Managed!Cancel

\* Pausing and resuming move every timer they are about, and no other.
LEMMA PauseRefined ==
  ASSUME IndInv, NEW ids \in SUBSET Ids, \A id \in ids : Has(id, "Running"), Pause(ids)
  PROVE  \A i \in Ids :
           timer'[i] = IF i \in ids THEN Managed!Moved(timer[i], "Paused") ELSE timer[i]
<1> USE SeeingHolds DEF Seeing
<1>1. \A i \in Ids : leaving(i)' = leaving(i)
  BY DEF Pause, leaving
<1>2. ASSUME NEW i \in ids
      PROVE  timer'[i] = Managed!Moved(timer[i], "Paused")
  <2>1. /\ EntrySound(timers[i]) /\ timers[i].status = "Running" /\ Exists(i)
        /\ PausedEntry(timers[i]) # None
    BY <1>2, PausedSound DEF Has
  <2> QED
    BY <1>1, <1>2, <2>1, PauseView DEF Pause, Exists
<1>3. \A i \in Ids \ ids : timer'[i] = timer[i]
  BY <1>1 DEF Pause, Exists
<1> QED
  BY <1>2, <1>3

LEMMA ResumeRefined ==
  ASSUME IndInv, NEW ids \in SUBSET Ids, \A id \in ids : Has(id, "Paused"), Resume(ids)
  PROVE  \A i \in Ids :
           timer'[i] = IF i \in ids THEN Managed!Moved(timer[i], "Running") ELSE timer[i]
<1> USE SeeingHolds DEF Seeing
<1>1. \A i \in Ids : leaving(i)' = leaving(i)
  BY StartLeaving DEF Resume
<1>2. ASSUME NEW i \in ids
      PROVE  timer'[i] = Managed!Moved(timer[i], "Running")
  <2>1. /\ EntrySound(timers[i]) /\ timers[i].status = "Paused" /\ Exists(i)
        /\ ResumedEntry(timers[i]) # None
    BY <1>2, ResumedSound DEF Has
  <2> QED
    BY <1>1, <1>2, <2>1, ResumeView DEF Resume, Exists
<1>3. \A i \in Ids \ ids : timer'[i] = timer[i]
  BY <1>1 DEF Resume, Exists
<1> QED
  BY <1>2, <1>3

LEMMA RescheduleRefined ==
  ASSUME IndInv, NEW id \in Ids, NEW t \in Timeouts, NEW p \in Policies,
         RescheduleTimer(id, t, p)
  PROVE  Managed!OneTimer(id)
<1> USE SeeingHolds DEF Seeing
<1>1. timers' = [timers EXCEPT ![id] = NewEntry(t, p)] /\ NewEntry(t, p) # None /\ Exists(id)
  BY NewEntrySound DEF RescheduleTimer, MayEnd
<1>2. \A i \in Ids : leaving(i)' = leaving(i)
  BY StartLeaving DEF RescheduleTimer
<1>3. timer'[id] = Managed!Fresh(t, p, leaving(id)) /\ \A i \in Ids \ {id} : timer'[i] = timer[i]
  BY <1>1, <1>2, NewView DEF Exists, IndInv, EntriesSound
<1>4. timer[id].leaving = leaving(id)
  BY <1>1, LeavingView
<1>5. discipline.reschedules
  BY DEF RescheduleTimer, MayCall, discipline
<1>6. Managed!MayEnd(id)
  BY MayEndView DEF RescheduleTimer
<1> QED
  BY <1>3, <1>4, <1>5, <1>6 DEF Managed!OneTimer, Managed!Reschedule

LEMMA FireBeginRefined ==
  ASSUME IndInv, NEW id \in Ids, FireBegin(id)
  PROVE  Managed!OneTimer(id)
<1> USE SeeingHolds DEF Seeing
<1> DEFINE e == timers[id]
           f == Fired([e EXCEPT !.timer = Rearmed(e.timer)])
<1>1. /\ Exists(id) /\ EntrySound(e)
      /\ e.timer.on /\ e.timer.due = 0 /\ e.status = "Running"
  BY DEF FireBegin, EntrySound
<1>2. /\ timers' = [timers EXCEPT ![id] = f]
      /\ frame = None /\ pending' = pending
      /\ frame'.id = id /\ frame'.stop = Spent(f.policy, f.fireCount)
      /\ frame' = [id |-> id, stop |-> Spent(f.policy, f.fireCount), home |-> "timers_",
                   closure |-> TRUE, callback |-> TRUE]
  BY DEF FireBegin
<1>3. EntrySound(f) /\ f # None /\ (Spent(f.policy, f.fireCount) <=> f.status = "Expired")
  BY <1>1, FiredSound
<1>4. IF f.status = "Expired"
      THEN toGo(e) = 1 /\ View(f, TRUE) = Managed!Expired(View(e, leaving(id)))
      ELSE toGo(e) # 1 /\ View(f, leaving(id)) = Managed!Repeated(View(e, leaving(id)))
  BY <1>1, FireView
<1> HIDE DEF f
<1>5. frame' # None
  <2>1. frame' \in Frame
    BY <1>2 DEF Frame, Homes, Spent, isOneShot
  <2> QED
    BY <2>1, TimerAssumption
<1>6. /\ leaving(id)' = (leaving(id) \/ f.status = "Expired")
      /\ \A i \in Ids \ {id} : leaving(i)' = leaving(i)
  BY <1>2, <1>3, <1>5 DEF leaving
<1>7. \A i \in Ids \ {id} : timer'[i] = timer[i]
  BY <1>2, <1>6 DEF Exists
<1>8. timer'[id] = View(f, leaving(id)') /\ timer[id] = View(e, leaving(id))
  BY <1>1, <1>2, <1>3 DEF Exists, IndInv, EntriesSound
<1>9. timer[id].wait = 0 /\ timer[id].toGo = toGo(e) /\ Managed!Shows(id, "Running")
  BY <1>1, <1>8, ShowsView DEF View, Has
<1>10. Managed!Fire(id)
  BY <1>4, <1>6, <1>8, <1>9, LeavingBoolean DEF Managed!Fire
<1> QED
  BY <1>7, <1>10 DEF Managed!OneTimer

\* What a last callback leaves behind is noted, but for a timer it has itself brought back
\* to life by replacing the closure that holds its id.
LEMMA FireEndRefined ==
  ASSUME IndInv, FireEnd, NEW id \in Ids, frame.id = id
  PROVE  Managed!OneTimer(id) \/ UNCHANGED <<timer, discipline>>
<1> USE SeeingHolds DEF Seeing
<1>1. frame # None /\ frame' = None /\ UNCHANGED <<timers, client>>
  BY DEF FireEnd
<1>2. /\ \A i \in Ids : leaving(i)' <=> i \in pending'
      /\ \A i \in Ids \ {id} : leaving(i) <=> i \in pending
      /\ \A i \in Ids : Exists(i)' <=> Exists(i)
  BY <1>1 DEF leaving, Exists
<1>3. \A i \in Ids \ {id} : leaving(i)' = leaving(i)
  <2>1. \A i \in Ids \ {id} : i \in pending' <=> i \in pending
    BY DEF FireEnd
  <2>2. \A i \in Ids : leaving(i)' \in BOOLEAN
    BY DEF leaving
  <2> QED
    BY <1>2, <2>1, <2>2, LeavingBoolean
<1>4. CASE leaving(id)' = leaving(id) \/ ~Exists(id)
  BY <1>1, <1>3, <1>4, Unseen
<1>5. CASE leaving(id)' # leaving(id) /\ Exists(id)
  <2>1. /\ frame.stop /\ ~frame.closure /\ id \notin pending
        /\ leaving(id) = TRUE /\ leaving(id)' = FALSE
    BY <1>1, <1>2, <1>5, LeavingBoolean DEF FireEnd, leaving, Stops
  <2>2. Live(id)
    BY <1>5, <2>1 DEF IndInv, EndedIsNoted, WillBeNoted
  <2>3. ~Orderly
    BY <1>1, <2>1 DEF IndInv, OrderlySound, LastCallbackUntouched
  <2>4. /\ timer[id] = View(timers[id], TRUE)
        /\ timer'[id] = View(timers[id], FALSE)
        /\ \A i \in Ids \ {id} : timer'[i] = timer[i]
    <3>1. timer[id] = View(timers[id], leaving(id))
      BY <1>5
    <3>2. timer'[id] = View(timers'[id], leaving(id)')
      BY <1>2, <1>5
    <3>3. \A i \in Ids \ {id} : timer'[i] = timer[i]
      BY <1>1, <1>2, <1>3
    <3> QED
      BY <1>1, <2>1, <3>1, <3>2, <3>3, Zenon
  <2>5. timer'[id] = [timer[id] EXCEPT !.leaving = FALSE]
    <3> DEFINE u == View(timers[id], TRUE)
               v == [u EXCEPT !.leaving = FALSE]
               w == View(timers[id], FALSE)
    <3>1. /\ v = [x \in ViewFields |-> v[x]]
          /\ v.state = u.state /\ v.wait = u.wait /\ v.toGo = u.toGo
          /\ v.interval = u.interval /\ v.leaving = FALSE
      BY DEF View, ViewFields
    <3>2. w = [state |-> u.state, wait |-> u.wait, toGo |-> u.toGo,
               interval |-> u.interval, leaving |-> FALSE]
      BY DEF View
    <3> HIDE DEF u, v, w
    <3>3. v = w
      BY <3>1, <3>2 DEF ViewFields
    <3> QED
      BY <2>4, <3>3 DEF u, v, w
  <2>6. Managed!Shows(id, "Running") \/ Managed!Shows(id, "Paused")
    BY <2>2, ShowsView DEF Live
  <2> QED
    BY <2>3, <2>4, <2>5, <2>6 DEF Managed!OneTimer, Managed!Spare, discipline
<1> QED
  BY <1>4, <1>5

LEMMA TickRefined == ASSUME IndInv, Tick PROVE Managed!Tick
<1> USE SeeingHolds DEF Seeing
<1>1. \A i \in Ids : timers'[i] = IF Exists(i)
                                  THEN [timers[i] EXCEPT !.timer = Elapsed(timers[i].timer)]
                                  ELSE None
  BY DEF Tick
<1>2. \A i \in Ids : leaving(i)' = leaving(i)
  BY DEF Tick, leaving
<1>3. ASSUME NEW i \in Ids
      PROVE  timer'[i] = Managed!Waited(timer[i])
  <2> DEFINE e == [timers[i] EXCEPT !.timer = Elapsed(timers[i].timer)]
  <2>1. CASE Exists(i)
    <3>1. e # None /\ View(e, leaving(i)) = Managed!Waited(View(timers[i], leaving(i)))
      BY <2>1, ElapsedSound, TickView, LeavingBoolean
    <3>2. timers'[i] = e
      BY <1>1, <2>1
    <3> HIDE DEF e
    <3> QED
      BY <1>2, <2>1, <3>1, <3>2 DEF Exists
  <2>2. CASE ~Exists(i)
    BY <1>1, <2>2 DEF Exists, Managed!Waited
  <2> QED
    BY <2>1, <2>2
<1> QED
  BY <1>3 DEF Managed!Tick

LEMMA RefinedStep == IndInv /\ [Next]_vars => [Managed!Next]_<<timer, discipline>>
<1> SUFFICES ASSUME IndInv, [Next]_vars
             PROVE  Managed!Next \/ UNCHANGED <<timer, discipline>>
  OBVIOUS
<1> DEFINE Refined == Managed!Next \/ UNCHANGED <<timer, discipline>>
<1>1. ASSUME NEW id \in Ids, NEW t \in Timeouts, NEW p \in Policies, SetTimer(id, t, p)
      PROVE  Refined
  BY <1>1, SetTimerRefined, StepOfAll DEF SetTimer
<1>2. ASSUME NEW id \in Ids, CancelTimer(id)
      PROVE  Refined
  BY <1>2, CancelTimerRefined, StepOfAll DEF CancelTimer
<1>3. CASE CancelAll
  <2>1. Managed!CancelAll
    BY <1>3, SeeingHolds DEF Seeing, CancelAll, Exists, Managed!CancelAll
  <2> QED
    BY <1>3, <2>1, StepOfAll DEF CancelAll
<1>4. ASSUME NEW id \in Ids, PauseTimer(id)
      PROVE  Refined
  <2>1. Managed!OneTimer(id)
    BY <1>4, PauseRefined, ShowsView DEF PauseTimer, Managed!OneTimer, Managed!Pause
  <2> QED
    BY <1>4, <2>1, StepOfAll DEF PauseTimer, Pause
<1>5. CASE PauseAll
  <2>1. Managed!PauseAll
    BY <1>5, PauseRefined, ShowsView DEF PauseAll, Managed!PauseAll, Managed!AllMove
  <2> QED
    BY <1>5, <2>1, StepOfAll DEF PauseAll, Pause
<1>6. ASSUME NEW id \in Ids, ResumeTimer(id)
      PROVE  Refined
  <2>1. Managed!OneTimer(id)
    BY <1>6, ResumeRefined, ShowsView
       DEF ResumeTimer, Resumable, Managed!OneTimer, Managed!Resume
  <2> QED
    BY <1>6, <2>1, StepOfAll DEF ResumeTimer, Resume
<1>7. CASE ResumeAll
  <2>1. Managed!ResumeAll
    BY <1>7, ResumeRefined, ShowsView
       DEF ResumeAll, Resumable, Managed!ResumeAll, Managed!AllMove
  <2> QED
    BY <1>7, <2>1, StepOfAll DEF ResumeAll, Resume
<1>8. ASSUME NEW id \in Ids, NEW t \in Timeouts, NEW p \in Policies, RescheduleTimer(id, t, p)
      PROVE  Refined
  BY <1>8, RescheduleRefined, StepOfAll DEF RescheduleTimer
<1>9. ASSUME NEW id \in Ids, FireBegin(id)
      PROVE  Refined
  BY <1>9, FireBeginRefined, StepOfAll DEF FireBegin
<1>10. ASSUME NEW id \in Ids, FireStale(id)
       PROVE  Refined
  BY <1>10, FireStaleQuiet, Unseen DEF leaving
<1>11. CASE FireEnd
  <2>1. frame.id \in Ids /\ UNCHANGED client
    BY <1>11 DEF FireEnd, IndInv, Frame
  <2> QED
    BY <1>11, <2>1, FireEndRefined, StepOfAll
<1>12. CASE Tick
  BY <1>12, TickRefined, StepOfAll DEF Tick
<1>13. CASE UNCHANGED vars
  BY <1>13, Unseen DEF vars, leaving
<1> QED
  BY <1>1, <1>2, <1>3, <1>4, <1>5, <1>6, <1>7, <1>8, <1>9, <1>10, <1>11, <1>12, <1>13
     DEF Next, ClientStep

\* The timer service implements ManagedTimer for every client.  A timer waits for as long as
\* it was told and fires as often as its policy says.  A step moves the timer it is about and
\* leaves every other as it is, except that setTimer takes away those that have ended; for an
\* orderly client these are never timers that run or are paused, for others they may be timers
\* that were rescheduled after their end.  Pausing and resuming change the wait of no timer; that
\* is visible at the clients that never reschedule, for whom nothing else restarts a timer.
THEOREM Refinement == Spec => TimersManaged
<1>1. Init => Managed!Init
  BY TimerView DEF Init, Managed!Init, Managed!Disciplines, Exists, discipline, Orderly
<1>2. IndInv /\ [Next]_vars => [Managed!Next]_<<timer, discipline>>
  BY RefinedStep
<1> QED
  BY <1>1, <1>2, Invariance, PTL DEF Spec, TimersManaged, Managed!Spec, Managed!managedVars
=============================================================================
