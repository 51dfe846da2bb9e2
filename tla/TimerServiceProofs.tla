------------------------- MODULE TimerServiceProofs -------------------------
(***************************************************************************)
(* Proofs about TimerService: its inductive invariant, the properties that *)
(* follow from it, and that it implements ManagedTimer, for any number of  *)
(* ids, any limit and all policies.                                        *)
(***************************************************************************)
EXTENDS TimerService, Integers, TLAPS, FiniteSetTheorems

-----------------------------------------------------------------------------
(* What the helpers make of a sound entry. *)

LEMMA PolicyFacts ==
  ASSUME NEW p \in Policies
  PROVE  /\ p \in Policy
         /\ RepeatOf(p) \in Nat
         /\ p.max # Forever => budget(p) \in Nat \ {0} /\ budget(p) <= MaxFires
         /\ isOneShot(p) => p.max # Forever /\ budget(p) = 1
BY TimerAssumption DEF Policy, RepeatOf, budget, isOneShot

LEMMA NewEntrySound ==
  ASSUME NEW t \in Timeouts, NEW p \in Policies
  PROVE  EntrySound(NewEntry(t, p)) /\ NewEntry(t, p).status = "Running"
<1> DEFINE e == NewEntry(t, p)
           r == [timer |-> Stopped, timeout |-> t, policy |-> p,
                 status |-> "Running", fireCount |-> 0, remaining |-> 0]
<1>1. e = [timer |-> Started(t, RepeatOf(p)), timeout |-> t, policy |-> p,
           status |-> "Running", fireCount |-> 0, remaining |-> 0]
  <2>1. e = [r EXCEPT !.timer = Started(r.timeout, RepeatOf(r.policy)), !.status = "Running"]
    BY DEF NewEntry, StartedEntry
  <2>2. r.timeout = t /\ r.policy = p
    OBVIOUS
  <2> HIDE DEF e
  <2> QED
    BY <2>1, <2>2
<1>2. Started(t, RepeatOf(p)) \in UvTimer
  BY TimerAssumption, PolicyFacts DEF Started, UvTimer
<1>3. e \in TimerEntry
  BY <1>1, <1>2, TimerAssumption, PolicyFacts DEF TimerEntry, TimerStatus
<1>4. e.timer.on /\ e.timer.repeat = RepeatOf(p)
  BY <1>1 DEF Started
<1> HIDE DEF e
<1> QED
  BY <1>1, <1>3, <1>4, PolicyFacts DEF EntrySound, e

LEMMA CancelledSound ==
  ASSUME NEW e, EntrySound(e)
  PROVE  EntrySound([e EXCEPT !.status = "Cancelled", !.timer = Stopped])
BY DEF EntrySound, Stopped, TimerEntry, UvTimer, TimerStatus

LEMMA PausedSound ==
  ASSUME NEW e, EntrySound(e), e.status = "Running"
  PROVE  EntrySound(PausedEntry(e)) /\ PausedEntry(e).status = "Paused"
BY DEF EntrySound, PausedEntry, Stopped, TimerEntry, UvTimer, TimerStatus

LEMMA ResumedSound ==
  ASSUME NEW e, EntrySound(e), e.status = "Paused"
  PROVE  EntrySound(ResumedEntry(e)) /\ ResumedEntry(e).status = "Running"
BY PolicyFacts
   DEF EntrySound, ResumedEntry, StartedEntry, Started, TimerEntry, UvTimer, TimerStatus

LEMMA ElapsedTimer ==
  ASSUME NEW t \in UvTimer
  PROVE  /\ Elapsed(t) \in UvTimer
         /\ Elapsed(t).on = t.on /\ Elapsed(t).repeat = t.repeat
         /\ ~t.on => Elapsed(t) = t
BY DEF UvTimer, Elapsed

LEMMA ElapsedSound ==
  ASSUME NEW e, EntrySound(e)
  PROVE  EntrySound([e EXCEPT !.timer = Elapsed(e.timer)])
<1>1. e.timer \in UvTimer
  BY DEF EntrySound, TimerEntry
<1> QED
  BY <1>1, ElapsedTimer DEF EntrySound, TimerEntry

LEMMA RearmedTimer ==
  ASSUME NEW t \in UvTimer
  PROVE  /\ Rearmed(t) \in UvTimer
         /\ Rearmed(t).on => Rearmed(t).repeat = t.repeat /\ Rearmed(t).due = t.repeat
         /\ Rearmed(t).on <=> t.repeat # 0
         /\ ~Rearmed(t).on => Rearmed(t).due = 0
BY DEF UvTimer, Rearmed, Started, Stopped

\* The entry the wrapper leaves when a timer goes off: what it counts is exact.
LEMMA FiredSound ==
  ASSUME NEW e, EntrySound(e), e.status = "Running", e.timer.on
  PROVE  LET f == Fired([e EXCEPT !.timer = Rearmed(e.timer)])
         IN  /\ EntrySound(f)
             /\ f.policy = e.policy
             /\ Spent(e.policy, f.fireCount) <=> f.status = "Expired"
             /\ f.status # "Expired" => f.status = "Running" /\ f.timer = Rearmed(e.timer)
             /\ e.policy.max # Forever => f.fireCount = e.fireCount + 1
             /\ e.policy.max # Forever /\ f.status = "Running" => f.fireCount < budget(e.policy)
             /\ f.status = "Expired" => e.policy.max # Forever /\ f.fireCount = budget(e.policy)
<1> DEFINE p == e.policy
           n == CountedUp(e.fireCount)
<1>1. p \in Policies /\ e.fireCount \in Nat /\ e \in TimerEntry /\ e.timer \in UvTimer
  BY DEF EntrySound, TimerEntry
<1>2. n \in Nat
  BY <1>1, TimerAssumption DEF CountedUp
<1>3. p.max # Forever => n = e.fireCount + 1 /\ n <= budget(p)
  BY <1>1, PolicyFacts, TimerAssumption DEF EntrySound, CountedUp
<1>4. Spent(p, n) <=> p.max # Forever /\ n = budget(p)
  BY <1>1, <1>2, <1>3, PolicyFacts DEF Spent, budget, Policy
<1>5. Rearmed(e.timer) \in UvTimer
  BY <1>1, RearmedTimer
<1>6. CASE Spent(p, n)
  BY <1>1, <1>2, <1>3, <1>4, <1>6
     DEF Fired, EntrySound, TimerEntry, UvTimer, Stopped, TimerStatus
<1>7. CASE ~Spent(p, n)
  <2> DEFINE r == [e EXCEPT !.timer = Rearmed(e.timer)]
             f == Fired(r)
  <2>1. r.fireCount = e.fireCount /\ r.policy = p
    BY <1>1 DEF TimerEntry
  <2>2. f = [r EXCEPT !.fireCount = n]
    BY <1>7, <2>1 DEF Fired
  <2>3. /\ f \in TimerEntry /\ f.policy = p /\ f.fireCount = n
        /\ f.status = "Running" /\ f.timer = Rearmed(e.timer)
    BY <1>1, <1>2, <1>5, <2>2 DEF TimerEntry, TimerStatus
  <2>4. Rearmed(e.timer).on => Rearmed(e.timer).repeat = RepeatOf(p)
    BY <1>1, RearmedTimer DEF EntrySound
  <2>5. p.max # Forever => n < budget(p)
    BY <1>1, <1>2, <1>3, <1>4, <1>7, PolicyFacts
  <2> HIDE DEF f, r
  <2>6. EntrySound(f)
    BY <1>1, <1>2, <1>3, <2>3, <2>4, <2>5, RearmedTimer, PolicyFacts DEF EntrySound
  <2> QED
    BY <1>3, <1>7, <2>3, <2>5, <2>6 DEF f, r
<1> QED
  BY <1>6, <1>7

-----------------------------------------------------------------------------
(* timers_ never outgrows its limit. *)

LEMMA EntriesFinite == IsFiniteSet(Entries) /\ Cardinality(Entries) \in Nat
BY TimerAssumption, FS_Subset, FS_CardinalityType DEF Entries

LEMMA NoNewEntry ==
  ASSUME LimitHolds, \A id \in Ids : Exists(id)' => Exists(id)
  PROVE  LimitHolds'
<1>1. Entries' \subseteq Entries
  BY DEF Entries
<1>2. Cardinality(Entries') <= Cardinality(Entries) /\ Cardinality(Entries') \in Nat
  BY <1>1, EntriesFinite, FS_Subset, FS_CardinalityType
<1> QED
  BY <1>2, EntriesFinite, TimerAssumption DEF LimitHolds

LEMMA OneNewEntry ==
  ASSUME NEW id \in Ids, ~Full, \A i \in Ids \ {id} : Exists(i)' => Exists(i)
  PROVE  LimitHolds'
<1>1. Entries' \subseteq Entries \cup {id}
  BY DEF Entries
<1>2. IsFiniteSet(Entries \cup {id}) /\ Cardinality(Entries \cup {id}) <= Cardinality(Entries) + 1
  BY EntriesFinite, FS_AddElement
<1>3. Cardinality(Entries \cup {id}) \in Nat
  BY <1>2, FS_CardinalityType
<1>4. Cardinality(Entries') <= Cardinality(Entries \cup {id}) /\ Cardinality(Entries') \in Nat
  BY <1>1, <1>2, FS_Subset, FS_CardinalityType
<1> QED
  BY <1>2, <1>3, <1>4, EntriesFinite, TimerAssumption DEF LimitHolds, Full

-----------------------------------------------------------------------------
(* The inductive invariant. *)

LEMMA InitSound == Init => IndInv
<1> SUFFICES ASSUME Init
             PROVE  IndInv
  OBVIOUS
<1>1. \A id \in Ids : ~Exists(id)
  BY DEF Init, Exists
<1>2. LimitHolds
  <2>1. Entries = {}
    BY <1>1 DEF Entries
  <2> QED
    BY <2>1, FS_EmptySet, TimerAssumption DEF LimitHolds
<1>3. EntriesSound /\ pending \subseteq Ids /\ graveyard \in [Ids -> UvTimer \cup {None}]
  BY <1>1 DEF Init, EntriesSound
<1>4. GraveyardDisjoint /\ EndedIsNoted /\ OrderlySound
  BY <1>1 DEF Init, GraveyardDisjoint, EndedIsNoted, OrderlySound, LastCallbackUntouched, Live, Has
<1> QED
  BY <1>2, <1>3, <1>4 DEF Init, IndInv

\* What a flush makes of the callback that is running.
LEMMA SetTimerFrame ==
  ASSUME frame \in Frame \cup {None}, frame # None,
         NEW id \in Ids, NEW t \in Timeouts, NEW p \in Policies, SetTimer(id, t, p)
  PROVE  /\ frame' \in Frame
         /\ frame'.id = frame.id /\ frame'.stop = frame.stop
         /\ ~Flushes(frame.id) => frame'.callback = frame.callback
         /\ frame.home = "timers_" => frame'.closure = frame.closure
         /\ frame.home = "timers_" /\ ~Flushes(frame.id) => frame'.home = "timers_"
<1> DEFINE home == IF frame.home = "timers_" /\ ~Flushes(frame.id) THEN "timers_"
                   ELSE IF frame.home = "timers_" THEN "graveyard_"
                   ELSE "destroyed"
<1>1. frame' = [frame EXCEPT !.home = home,
                             !.closure = frame.closure /\ frame.home = "timers_",
                             !.callback = frame.callback /\ ~Flushes(frame.id)]
  BY DEF SetTimer, Flush, Frame
<1>2. home \in Homes /\ Flushes(frame.id) \in BOOLEAN
  BY DEF Homes, Flushes
<1> HIDE DEF home
<1>3. /\ frame'.id = frame.id /\ frame'.stop = frame.stop
      /\ frame'.home = home
      /\ frame'.closure = (frame.closure /\ frame.home = "timers_")
      /\ frame'.callback = (frame.callback /\ ~Flushes(frame.id))
  BY <1>1 DEF Frame
<1>4. frame' \in Frame
  BY <1>1, <1>2 DEF Frame
<1> QED
  BY <1>3, <1>4 DEF home, Frame

LEMMA SetTimerSound ==
  ASSUME IndInv, NEW id \in Ids, NEW t \in Timeouts, NEW p \in Policies, SetTimer(id, t, p)
  PROVE  IndInv'
<1>1. ~Exists(id) /\ ~Full
  BY DEF SetTimer, SetResult
<1>2. EntrySound(NewEntry(t, p)) /\ NewEntry(t, p).status = "Running" /\ NewEntry(t, p) # None
  BY NewEntrySound, TimerAssumption DEF EntrySound
<1>3. /\ timers'[id] = NewEntry(t, p)
      /\ \A i \in Ids \ {id} : timers'[i] = IF i \in pending THEN None ELSE timers[i]
      /\ timers' \in [Ids -> TimerEntry \cup {None}]
  BY <1>2 DEF SetTimer, IndInv, EntriesSound, EntrySound, Flushes, Exists
<1>4. EntriesSound'
  BY <1>2, <1>3 DEF EntriesSound, IndInv, Exists
<1>5. LimitHolds'
  BY <1>1, <1>3, OneNewEntry DEF Exists
<1>6. /\ pending' = {} /\ client' = client
      /\ graveyard' = [i \in Ids |-> Buried(i)]
      /\ frame = None => frame' = None
  BY DEF SetTimer, Flush
<1>7. graveyard' \in [Ids -> UvTimer \cup {None}]
  BY <1>6 DEF IndInv, EntriesSound, EntrySound, TimerEntry, Buried, Flushes, Exists
<1>8. frame # None =>
        /\ frame' \in Frame
        /\ frame'.id = frame.id /\ frame'.stop = frame.stop
        /\ ~Flushes(frame.id) => frame'.callback = frame.callback
        /\ frame.home = "timers_" => frame'.closure = frame.closure
        /\ frame.home = "timers_" /\ ~Flushes(frame.id) => frame'.home = "timers_"
  BY SetTimerFrame DEF IndInv
<1>9. GraveyardDisjoint'
  BY <1>1, <1>3, <1>6 DEF GraveyardDisjoint, Exists, Buried, Flushes
<1>10. EndedIsNoted'
  <2>1. SUFFICES ASSUME NEW i \in Ids, Exists(i)', ~Live(i)'
                 PROVE  WillBeNoted(i)'
    BY DEF EndedIsNoted
  <2>2. i # id /\ Exists(i) /\ i \notin pending /\ timers'[i] = timers[i]
    BY <1>2, <1>3, <2>1 DEF Exists, Live, Has
  <2>3. WillBeNoted(i)
    BY <2>1, <2>2 DEF IndInv, EndedIsNoted, Exists, Live, Has
  <2> QED
    BY <1>8, <2>2, <2>3, TimerAssumption DEF WillBeNoted, Flushes
<1>11. OrderlySound'
  <2>1. ASSUME Orderly, frame' # None, frame'.stop
        PROVE  LastCallbackUntouched'
    <3>1. frame # None /\ frame.stop /\ frame'.id = frame.id /\ frame.id \in Ids
      BY <1>6, <1>8, <2>1 DEF IndInv, Frame
    <3>2. /\ frame.home = "timers_" /\ frame.closure /\ frame.callback
          /\ Exists(frame.id) /\ ~Live(frame.id) /\ frame.id \notin pending
      BY <2>1, <3>1 DEF IndInv, OrderlySound, LastCallbackUntouched
    <3>3. timers'[frame.id] = timers[frame.id]
      BY <1>1, <1>3, <3>1, <3>2
    <3>4. Exists(frame.id)' /\ ~Live(frame.id)'
      BY <3>1, <3>2, <3>3 DEF Exists, Live, Has
    <3>5. frame'.home = "timers_" /\ frame'.closure /\ frame'.callback
      BY <1>8, <3>1, <3>2 DEF Flushes
    <3> QED
      BY <1>6, <3>1, <3>4, <3>5 DEF LastCallbackUntouched
  <2> QED
    BY <1>6, <2>1 DEF OrderlySound, Orderly, LastCallbackUntouched
<1> QED
  BY <1>4, <1>5, <1>6, <1>7, <1>8, <1>9, <1>10, <1>11 DEF IndInv

LEMMA CancelTimerSound ==
  ASSUME IndInv, NEW id \in Ids, CancelTimer(id)
  PROVE  IndInv'
<1> DEFINE e == [timers[id] EXCEPT !.status = "Cancelled", !.timer = Stopped]
<1>1. Exists(id) /\ EntrySound(timers[id]) /\ (client.actsOnEnded \/ Live(id))
  BY DEF CancelTimer, MayEnd, IndInv, EntriesSound
<1>2. EntrySound(e) /\ e # None /\ e \in TimerEntry /\ e.status = "Cancelled"
  BY <1>1, CancelledSound, TimerAssumption DEF EntrySound, TimerEntry
<1>3. /\ timers' = [timers EXCEPT ![id] = e]
      /\ pending' = pending \cup {id}
      /\ UNCHANGED <<graveyard, frame, client>>
  BY DEF CancelTimer, NotedForRemoval, IndInv, EntriesSound
<1> HIDE DEF e
<1>4. EntriesSound'
  BY <1>2, <1>3 DEF IndInv, EntriesSound, Exists
<1>5. LimitHolds'
  BY <1>1, <1>3, NoNewEntry DEF IndInv, EntriesSound, Exists
<1>6. GraveyardDisjoint'
  BY <1>1, <1>2, <1>3 DEF IndInv, EntriesSound, GraveyardDisjoint, Exists
<1>7. EndedIsNoted'
  BY <1>1, <1>2, <1>3 DEF IndInv, EntriesSound, EndedIsNoted, WillBeNoted, Exists, Live, Has
<1>8. OrderlySound'
  BY <1>1, <1>2, <1>3
     DEF IndInv, EntriesSound, OrderlySound, Orderly, LastCallbackUntouched, Exists, Live, Has
<1> QED
  BY <1>3, <1>4, <1>5, <1>6, <1>7, <1>8 DEF IndInv

LEMMA CancelAllSound == ASSUME IndInv, CancelAll PROVE IndInv'
<1>1. /\ \A id \in Ids : ~Exists(id)'
      /\ timers' \in [Ids -> TimerEntry \cup {None}]
      /\ graveyard' \in [Ids -> UvTimer \cup {None}]
      /\ pending' = {} /\ client' = client
      /\ frame' \in Frame \cup {None}
      /\ frame' = None <=> frame = None
  BY TimerAssumption DEF CancelAll, Exists, IndInv, Frame, Homes
<1>2. EntriesSound' /\ GraveyardDisjoint' /\ EndedIsNoted'
  BY <1>1 DEF EntriesSound, GraveyardDisjoint, EndedIsNoted, Exists
<1>3. LimitHolds'
  BY <1>1, NoNewEntry DEF IndInv
<1>4. OrderlySound'
  <2>1. Orderly => frame = None
    BY DEF CancelAll, MayCall, Orderly
  <2> QED
    BY <1>1, <2>1 DEF OrderlySound, Orderly, LastCallbackUntouched, Live, Has, Exists
<1> QED
  BY <1>1, <1>2, <1>3, <1>4 DEF IndInv

\* Pausing and resuming change live entries to live entries.
LEMMA PauseSound ==
  ASSUME IndInv, NEW ids \in SUBSET Ids, \A id \in ids : Has(id, "Running"), Pause(ids)
  PROVE  IndInv'
<1>1. /\ \A id \in Ids : timers'[id] = IF id \in ids THEN PausedEntry(timers[id]) ELSE timers[id]
      /\ UNCHANGED <<pending, graveyard, frame, client>>
  BY DEF Pause
<1>2. \A id \in ids : /\ EntrySound(PausedEntry(timers[id]))
                       /\ PausedEntry(timers[id]) \in TimerEntry
                       /\ PausedEntry(timers[id]) # None
                       /\ PausedEntry(timers[id]).status = "Paused"
  BY PausedSound, TimerAssumption DEF IndInv, EntriesSound, Has, EntrySound
<1>3. timers' \in [Ids -> TimerEntry \cup {None}]
  BY <1>1, <1>2 DEF Pause, IndInv, EntriesSound
<1>4. \A id \in Ids : (Exists(id)' <=> Exists(id)) /\ (Live(id)' <=> Live(id))
  BY <1>1, <1>2 DEF Exists, Live, Has
<1>5. EntriesSound'
  BY <1>1, <1>2, <1>3 DEF IndInv, EntriesSound, Exists
<1>6. LimitHolds' /\ GraveyardDisjoint'
  BY <1>1, <1>4, NoNewEntry DEF IndInv, GraveyardDisjoint
<1>7. EndedIsNoted'
  BY <1>1, <1>4 DEF IndInv, EndedIsNoted, WillBeNoted
<1>8. OrderlySound'
  BY <1>1, <1>4 DEF IndInv, OrderlySound, Orderly, LastCallbackUntouched, Frame
<1> QED
  BY <1>1, <1>5, <1>6, <1>7, <1>8 DEF IndInv

LEMMA ResumeSound ==
  ASSUME IndInv, NEW ids \in SUBSET Ids, \A id \in ids : Has(id, "Paused"), Resume(ids)
  PROVE  IndInv'
<1>1. /\ \A id \in Ids : timers'[id] = IF id \in ids THEN ResumedEntry(timers[id]) ELSE timers[id]
      /\ UNCHANGED <<pending, graveyard, client>>
      /\ frame' = IF frame # None /\ frame.home = "timers_" /\ frame.id \in ids
                  THEN [frame EXCEPT !.closure = FALSE] ELSE frame
  BY DEF Resume, FrameAfterStart
<1>2. \A id \in ids : /\ EntrySound(ResumedEntry(timers[id]))
                       /\ ResumedEntry(timers[id]) \in TimerEntry
                       /\ ResumedEntry(timers[id]) # None
                       /\ ResumedEntry(timers[id]).status = "Running"
  BY ResumedSound, TimerAssumption DEF IndInv, EntriesSound, Has, EntrySound
<1>3. timers' \in [Ids -> TimerEntry \cup {None}] /\ frame' \in Frame \cup {None}
  BY <1>1, <1>2 DEF Resume, IndInv, EntriesSound, Frame
<1>4. \A id \in Ids : (Exists(id)' <=> Exists(id)) /\ (Live(id)' <=> Live(id))
  BY <1>1, <1>2 DEF Exists, Live, Has
<1>5. EntriesSound'
  BY <1>1, <1>2, <1>3 DEF IndInv, EntriesSound, Exists
<1>6. LimitHolds' /\ GraveyardDisjoint'
  BY <1>1, <1>4, NoNewEntry DEF IndInv, GraveyardDisjoint
<1>7. \A id \in ids : Live(id)
  BY DEF Live
<1>8. EndedIsNoted'
  BY <1>1, <1>4, <1>7 DEF IndInv, EndedIsNoted, WillBeNoted, Frame
<1>9. OrderlySound'
  BY <1>1, <1>4, <1>7, TimerAssumption
     DEF IndInv, OrderlySound, Orderly, LastCallbackUntouched, Frame
<1> QED
  BY <1>1, <1>3, <1>5, <1>6, <1>8, <1>9 DEF IndInv

LEMMA RescheduleSound ==
  ASSUME IndInv, NEW id \in Ids, NEW t \in Timeouts, NEW p \in Policies,
         RescheduleTimer(id, t, p)
  PROVE  IndInv'
<1>1. Exists(id) /\ (client.actsOnEnded \/ Live(id))
  BY DEF RescheduleTimer, MayEnd
<1>2. /\ timers' = [timers EXCEPT ![id] = NewEntry(t, p)]
      /\ UNCHANGED <<pending, graveyard, client>>
      /\ frame' = IF frame # None /\ frame.home = "timers_" /\ frame.id = id
                  THEN [frame EXCEPT !.closure = FALSE] ELSE frame
  BY DEF RescheduleTimer, FrameAfterStart
<1>3. /\ EntrySound(NewEntry(t, p)) /\ NewEntry(t, p).status = "Running"
      /\ NewEntry(t, p) \in TimerEntry /\ NewEntry(t, p) # None
  BY NewEntrySound, TimerAssumption DEF EntrySound
<1>4. frame' \in Frame \cup {None} /\ EntriesSound'
  BY <1>2, <1>3 DEF IndInv, EntriesSound, Exists, Frame
<1>5. \A i \in Ids : /\ Exists(i)' <=> Exists(i)
                     /\ Live(i)' <=> Live(i) \/ i = id
  BY <1>1, <1>2, <1>3 DEF IndInv, EntriesSound, Exists, Live, Has
<1>6. LimitHolds' /\ GraveyardDisjoint'
  BY <1>2, <1>5, NoNewEntry DEF IndInv, GraveyardDisjoint
<1>7. EndedIsNoted'
  BY <1>2, <1>5 DEF IndInv, EndedIsNoted, WillBeNoted, Frame
<1>8. OrderlySound'
  BY <1>1, <1>2, <1>5, TimerAssumption
     DEF IndInv, OrderlySound, Orderly, LastCallbackUntouched, Frame
<1> QED
  BY <1>2, <1>4, <1>6, <1>7, <1>8 DEF IndInv

LEMMA FireBeginSound ==
  ASSUME IndInv, NEW id \in Ids, FireBegin(id)
  PROVE  IndInv'
<1> DEFINE f == Fired([timers[id] EXCEPT !.timer = Rearmed(timers[id].timer)])
           stop == Spent(f.policy, f.fireCount)
<1>1. /\ Exists(id) /\ EntrySound(timers[id]) /\ timers[id].timer.on
      /\ timers[id].status = "Running" /\ frame = None
  BY DEF FireBegin, IndInv, EntriesSound, EntrySound
<1>2. /\ timers' = [timers EXCEPT ![id] = f]
      /\ frame' = [id |-> id, stop |-> stop, home |-> "timers_", closure |-> TRUE,
                   callback |-> TRUE]
      /\ UNCHANGED <<pending, graveyard, client>>
  BY DEF FireBegin, IndInv, EntriesSound
<1>3. /\ EntrySound(f) /\ f \in TimerEntry /\ f # None
      /\ stop \in BOOLEAN
      /\ stop <=> f.status = "Expired"
      /\ ~stop => f.status = "Running"
  BY <1>1, FiredSound, TimerAssumption DEF EntrySound, Spent, isOneShot
<1> HIDE DEF f, stop
<1>4. /\ frame' \in Frame /\ frame' # None
      /\ EntriesSound'
  <2>1. frame' \in Frame
    BY <1>2, <1>3 DEF Frame, Homes
  <2>2. EntriesSound'
    BY <1>2, <1>3 DEF IndInv, EntriesSound, Exists
  <2> QED
    BY <2>1, <2>2, TimerAssumption
<1>5. \A i \in Ids : /\ Exists(i)' <=> Exists(i)
                     /\ i # id => (Live(i)' <=> Live(i))
  BY <1>1, <1>2, <1>3 DEF IndInv, EntriesSound, Exists, Live, Has
<1>6. Live(id) /\ (Live(id)' <=> ~stop)
  BY <1>1, <1>2, <1>3 DEF IndInv, EntriesSound, Exists, Live, Has
<1>7. LimitHolds' /\ GraveyardDisjoint'
  BY <1>2, <1>5, NoNewEntry DEF IndInv, GraveyardDisjoint
<1>8. EndedIsNoted'
  BY <1>1, <1>2, <1>4, <1>5, <1>6 DEF IndInv, EndedIsNoted, WillBeNoted
<1>9. OrderlySound'
  BY <1>1, <1>2, <1>5, <1>6 DEF IndInv, OrderlySound, Orderly, LastCallbackUntouched
<1> QED
  BY <1>2, <1>4, <1>7, <1>8, <1>9 DEF IndInv

\* A Timer in the graveyard has lost its entry, so that going off it changes nothing else.
LEMMA FireStaleQuiet ==
  ASSUME IndInv, NEW id \in Ids, FireStale(id)
  PROVE  /\ UNCHANGED <<timers, pending, frame, client>>
         /\ graveyard' = [graveyard EXCEPT ![id] = Rearmed(graveyard[id])]
         /\ graveyard[id] # None
BY DEF FireStale, IndInv, GraveyardDisjoint

\* What holds of notes for removal and of the last callback speaks of nothing else.
LEMMA NotesKept ==
  ASSUME IndInv, UNCHANGED <<pending, frame, client>>,
         \A i \in Ids : (Exists(i)' <=> Exists(i)) /\ (Live(i)' <=> Live(i))
  PROVE  EndedIsNoted' /\ OrderlySound'
<1>1. EndedIsNoted'
  BY DEF IndInv, EndedIsNoted, WillBeNoted
<1>2. frame # None => frame.id \in Ids
  BY DEF IndInv, Frame
<1>3. OrderlySound'
  BY <1>2 DEF IndInv, OrderlySound, Orderly, LastCallbackUntouched
<1> QED
  BY <1>1, <1>3

LEMMA FireStaleSound ==
  ASSUME IndInv, NEW id \in Ids, FireStale(id)
  PROVE  IndInv'
<1>1. /\ graveyard' \in [Ids -> UvTimer \cup {None}]
      /\ \A i \in Ids : graveyard'[i] # None => graveyard[i] # None
  BY FireStaleQuiet, RearmedTimer DEF IndInv
<1>2. \A i \in Ids : (Exists(i)' <=> Exists(i)) /\ (Live(i)' <=> Live(i))
  BY FireStaleQuiet DEF Exists, Live, Has
<1>3. EntriesSound' /\ LimitHolds' /\ GraveyardDisjoint'
  BY <1>1, <1>2, FireStaleQuiet, NoNewEntry DEF IndInv, EntriesSound, GraveyardDisjoint
<1>4. EndedIsNoted' /\ OrderlySound'
  BY <1>2, FireStaleQuiet, NotesKept
<1> QED
  BY <1>1, <1>3, <1>4, FireStaleQuiet DEF IndInv

LEMMA FireEndSound == ASSUME IndInv, FireEnd PROVE IndInv'
<1>1. /\ UNCHANGED <<timers, graveyard, client>> /\ frame' = None
      /\ frame # None /\ frame \in Frame
      /\ pending' \subseteq Ids /\ pending \subseteq pending'
      /\ pending' = pending \/ (frame.stop /\ pending' = pending \cup {frame.id})
      /\ frame.stop /\ frame.closure => frame.id \in pending'
  BY DEF FireEnd, Stops, IndInv, Frame
<1>2. \A i \in Ids : (Exists(i)' <=> Exists(i)) /\ (Live(i)' <=> Live(i))
  BY <1>1 DEF Exists, Live, Has
<1>3. EntriesSound' /\ LimitHolds' /\ GraveyardDisjoint'
  BY <1>1, <1>2, NoNewEntry DEF IndInv, EntriesSound, GraveyardDisjoint
<1>4. EndedIsNoted'
  BY <1>1, <1>2 DEF IndInv, EndedIsNoted, WillBeNoted
<1>5. OrderlySound'
  BY <1>1, <1>2 DEF IndInv, OrderlySound, Orderly, LastCallbackUntouched
<1> QED
  BY <1>1, <1>3, <1>4, <1>5 DEF IndInv

LEMMA TickSound == ASSUME IndInv, Tick PROVE IndInv'
<1> DEFINE Aged(e) == [e EXCEPT !.timer = Elapsed(e.timer)]
<1>1. /\ UNCHANGED <<pending, frame, client>>
      /\ timers' = [id \in Ids |-> IF Exists(id) THEN Aged(timers[id]) ELSE None]
      /\ graveyard' = [id \in Ids |-> IF graveyard[id] # None THEN Elapsed(graveyard[id])
                                      ELSE None]
  BY DEF Tick
<1>2. graveyard' \in [Ids -> UvTimer \cup {None}] /\ None \notin UvTimer
  BY <1>1, ElapsedTimer, TimerAssumption DEF IndInv
<1>3. \A id \in Ids : Exists(id) =>
        /\ EntrySound(Aged(timers[id]))
        /\ Aged(timers[id]) \in TimerEntry
        /\ Aged(timers[id]) # None
        /\ Aged(timers[id]).status = timers[id].status
  BY ElapsedSound, TimerAssumption DEF IndInv, EntriesSound, EntrySound, TimerEntry
<1> HIDE DEF Aged
<1>4. timers' \in [Ids -> TimerEntry \cup {None}]
  BY <1>1, <1>3
<1>5. EntriesSound'
  BY <1>1, <1>3, <1>4 DEF EntriesSound, Exists
<1>6. \A i \in Ids : (Exists(i)' <=> Exists(i)) /\ (Live(i)' <=> Live(i))
  BY <1>1, <1>3 DEF Exists, Live, Has
<1>7. LimitHolds'
  BY <1>6, NoNewEntry DEF IndInv
<1>8. GraveyardDisjoint'
  BY <1>1, <1>6 DEF IndInv, GraveyardDisjoint
<1>9. EndedIsNoted' /\ OrderlySound'
  BY <1>1, <1>6, NotesKept
<1> QED
  BY <1>1, <1>2, <1>5, <1>7, <1>8, <1>9 DEF IndInv

LEMMA StepSound == IndInv /\ [Next]_vars => IndInv'
<1> SUFFICES ASSUME IndInv, [Next]_vars
             PROVE  IndInv'
  OBVIOUS
<1>1. ASSUME NEW id \in Ids, NEW t \in Timeouts, NEW p \in Policies, SetTimer(id, t, p)
      PROVE  IndInv'
  BY <1>1, SetTimerSound
<1>2. ASSUME NEW id \in Ids, CancelTimer(id)
      PROVE  IndInv'
  BY <1>2, CancelTimerSound
<1>3. CASE CancelAll
  BY <1>3, CancelAllSound
<1>4. ASSUME NEW id \in Ids, PauseTimer(id)
      PROVE  IndInv'
  BY <1>4, PauseSound DEF PauseTimer
<1>5. CASE PauseAll
  BY <1>5, PauseSound DEF PauseAll
<1>6. ASSUME NEW id \in Ids, ResumeTimer(id)
      PROVE  IndInv'
  BY <1>6, ResumeSound DEF ResumeTimer, Resumable
<1>7. CASE ResumeAll
  BY <1>7, ResumeSound DEF ResumeAll, Resumable
<1>8. ASSUME NEW id \in Ids, NEW t \in Timeouts, NEW p \in Policies, RescheduleTimer(id, t, p)
      PROVE  IndInv'
  BY <1>8, RescheduleSound
<1>9. ASSUME NEW id \in Ids, FireBegin(id)
      PROVE  IndInv'
  BY <1>9, FireBeginSound
<1>10. ASSUME NEW id \in Ids, FireStale(id)
       PROVE  IndInv'
  BY <1>10, FireStaleSound
<1>11. CASE FireEnd
  BY <1>11, FireEndSound
<1>12. CASE Tick
  BY <1>12, TickSound
<1>13. CASE UNCHANGED vars
  <2>1. \A i \in Ids : (Exists(i)' <=> Exists(i)) /\ (Live(i)' <=> Live(i))
    BY <1>13 DEF vars, Exists, Live, Has
  <2>2. LimitHolds'
    BY <2>1, NoNewEntry DEF IndInv
  <2>3. EndedIsNoted' /\ OrderlySound'
    BY <1>13, <2>1, NotesKept DEF vars
  <2> QED
    BY <1>13, <2>1, <2>2, <2>3 DEF vars, IndInv, EntriesSound, GraveyardDisjoint
<1> QED
  BY <1>1, <1>2, <1>3, <1>4, <1>5, <1>6, <1>7, <1>8, <1>9, <1>10, <1>11, <1>12, <1>13
     DEF Next, ClientStep

\* Every entry is sound by itself, and notes for removal, graveyard, limit and the callback
\* on the stack fit the table, whatever clients do and whenever.
THEOREM Invariance == Spec => []IndInv
BY InitSound, StepSound, PTL DEF Spec

-----------------------------------------------------------------------------
(* The safety properties. *)

\* Every variable keeps to its type, of which the counts of fires are part.
THEOREM TypeCorrect == Spec => []TypeOK
<1>1. IndInv => TypeOK
  BY DEF IndInv, EntriesSound, TypeOK
<1> QED
  BY <1>1, Invariance, PTL

\* No timer that is paused, expired or cancelled can go off.
THEOREM StoppedCorrect == Spec => []OnlyRunningIsArmed
<1>1. IndInv => OnlyRunningIsArmed
  BY DEF IndInv, EntriesSound, EntrySound, OnlyRunningIsArmed, Has
<1> QED
  BY <1>1, Invariance, PTL

\* timers_ never holds more than maxTimers_ entries, ended ones included.
THEOREM LimitCorrect == Spec => []LimitHolds
<1>1. IndInv => LimitHolds
  BY DEF IndInv
<1> QED
  BY <1>1, Invariance, PTL

\* A Timer in the graveyard that goes off late finds no entry.
THEOREM GraveyardCorrect == Spec => []GraveyardDisjoint
<1>1. IndInv => GraveyardDisjoint
  BY DEF IndInv
<1> QED
  BY <1>1, Invariance, PTL

\* An entry that has ended is noted for removal, or will be when its callback returns.
THEOREM EndedCorrect == Spec => []EndedIsPending
<1>1. IndInv => EndedIsPending
  BY DEF IndInv, EndedIsNoted, WillBeNoted, EndedIsPending
<1> QED
  BY <1>1, Invariance, PTL

\* The entry, the Timer and the closure of a last callback outlive it, for orderly clients.
THEOREM LastCallbackCorrect == Spec => []LastCallbackKept
<1>1. IndInv => LastCallbackKept
  BY DEF IndInv, OrderlySound, LastCallbackUntouched, LastCallbackKept
<1> QED
  BY <1>1, Invariance, PTL

\* hasTimer shows every timer that runs or is paused, for orderly clients.
THEOREM ListedCorrect == Spec => []LiveIsListed
<1>1. IndInv => LiveIsListed
  BY DEF IndInv, OrderlySound, LiveIsListed, hasTimer, Live, Has
<1> QED
  BY <1>1, Invariance, PTL

-----------------------------------------------------------------------------
(* The callback that is running. *)

\* A callback that is not the last of its timer has left it unexpired; nothing that is
\* called in it makes a timer expire.
NotLastNotExpired == frame # None /\ ~frame.stop => ~Has(frame.id, "Expired")

\* In a callback the client makes no timer expire, and the callback stays the same.
LEMMA ClientStepFrame ==
  ASSUME IndInv, ClientStep, frame' # None
  PROVE  /\ frame # None /\ frame'.id = frame.id /\ frame'.stop = frame.stop
         /\ \A id \in Ids : Has(id, "Expired")' => Has(id, "Expired")
<1> DEFINE Same ==
      /\ frame # None /\ frame'.id = frame.id /\ frame'.stop = frame.stop
      /\ \A id \in Ids : Has(id, "Expired")' => Has(id, "Expired")
<1>1. ASSUME NEW id \in Ids, NEW t \in Timeouts, NEW p \in Policies, SetTimer(id, t, p)
      PROVE  Same
  <2>1. frame # None
    BY <1>1 DEF SetTimer, Flush
  <2>2. frame'.id = frame.id /\ frame'.stop = frame.stop
    BY <1>1, <2>1, SetTimerFrame DEF IndInv
  <2>3. \A i \in Ids : Has(i, "Expired")' => Has(i, "Expired")
    BY <1>1, NewEntrySound DEF SetTimer, Has, Exists
  <2> QED
    BY <2>1, <2>2, <2>3
<1>2. ASSUME NEW id \in Ids, CancelTimer(id)
      PROVE  Same
  BY <1>2 DEF CancelTimer, Has, Exists, IndInv, EntriesSound, TimerEntry
<1>3. CASE CancelAll
  BY <1>3 DEF CancelAll, Has, Exists, IndInv, Frame
<1>4. ASSUME NEW ids \in SUBSET Ids, \A id \in ids : Has(id, "Running"), Pause(ids)
      PROVE  Same
  BY <1>4, PausedSound DEF Pause, Has, Exists, IndInv, EntriesSound
<1>5. ASSUME NEW ids \in SUBSET Ids, \A id \in ids : Has(id, "Paused"), Resume(ids)
      PROVE  Same
  <2>1. \A i \in Ids : Has(i, "Expired")' => Has(i, "Expired")
    BY <1>5, ResumedSound DEF Resume, Has, Exists, IndInv, EntriesSound
  <2>2. frame # None /\ frame'.id = frame.id /\ frame'.stop = frame.stop
    BY <1>5 DEF Resume, FrameAfterStart, IndInv, Frame
  <2> QED
    BY <2>1, <2>2
<1>6. ASSUME NEW id \in Ids, NEW t \in Timeouts, NEW p \in Policies, RescheduleTimer(id, t, p)
      PROVE  Same
  <2>1. \A i \in Ids : Has(i, "Expired")' => Has(i, "Expired")
    BY <1>6, NewEntrySound DEF RescheduleTimer, Has, Exists, IndInv, EntriesSound
  <2>2. frame # None /\ frame'.id = frame.id /\ frame'.stop = frame.stop
    BY <1>6 DEF RescheduleTimer, FrameAfterStart, IndInv, Frame
  <2> QED
    BY <2>1, <2>2
<1> QED
  BY <1>1, <1>2, <1>3, <1>4, <1>5, <1>6
     DEF ClientStep, PauseTimer, PauseAll, ResumeTimer, ResumeAll, Resumable

LEMMA NotExpiredStep ==
  ASSUME IndInv, NotLastNotExpired, [Next]_vars
  PROVE  NotLastNotExpired'
<1> SUFFICES ASSUME frame' # None, ~frame'.stop
             PROVE  ~Has(frame.id, "Expired")'
  BY DEF NotLastNotExpired
<1>1. CASE ClientStep
  <2>1. frame # None /\ frame'.id = frame.id /\ ~frame.stop /\ frame.id \in Ids
    BY <1>1, ClientStepFrame DEF IndInv, Frame
  <2> QED
    BY <1>1, <2>1, ClientStepFrame DEF NotLastNotExpired, Has, Exists
<1>2. ASSUME NEW id \in Ids, FireBegin(id)
      PROVE  ~Has(frame.id, "Expired")'
  <2> DEFINE f == Fired([timers[id] EXCEPT !.timer = Rearmed(timers[id].timer)])
  <2>1. /\ EntrySound(timers[id]) /\ timers[id].timer.on
        /\ timers[id].status = "Running"
    BY <1>2 DEF FireBegin, IndInv, EntriesSound, EntrySound
  <2>2. timers'[id] = f /\ frame'.id = id /\ frame'.stop = Spent(f.policy, f.fireCount)
    BY <1>2 DEF FireBegin, IndInv, EntriesSound
  <2>3. f.status # "Expired"
    BY <2>1, <2>2, FiredSound
  <2> HIDE DEF f
  <2> QED
    BY <2>2, <2>3 DEF Has
<1>3. ASSUME NEW id \in Ids, FireStale(id)
      PROVE  ~Has(frame.id, "Expired")'
  BY <1>3, FireStaleQuiet DEF NotLastNotExpired, Has, Exists
<1>4. CASE FireEnd
  BY <1>4 DEF FireEnd
<1>5. CASE Tick
  BY <1>5 DEF Tick
<1>6. CASE UNCHANGED vars
  BY <1>6 DEF vars, NotLastNotExpired, Has, Exists
<1> QED
  BY <1>1, <1>2, <1>3, <1>4, <1>5, <1>6 DEF Next

LEMMA CallbackStep ==
  ASSUME IndInv, NotLastNotExpired, [Next]_vars
  PROVE  CallbackLostOnlyCancelled
<1> SUFFICES ASSUME Orderly, frame # None, frame.callback, frame' # None
             PROVE  frame'.callback \/ Has(frame.id, "Cancelled")
  BY DEF CallbackLostOnlyCancelled
<1>1. frame \in Frame /\ frame.id \in Ids
  BY DEF IndInv, Frame
<1>2. ASSUME NEW id \in Ids, NEW t \in Timeouts, NEW p \in Policies, SetTimer(id, t, p)
      PROVE  frame'.callback \/ Has(frame.id, "Cancelled")
  <2>1. CASE Flushes(frame.id)
    <3>1. ~Live(frame.id) /\ ~frame.stop
      BY <1>1, <2>1 DEF IndInv, OrderlySound, LastCallbackUntouched, Flushes
    <3>2. ~Has(frame.id, "Expired")
      BY <3>1 DEF NotLastNotExpired
    <3>3. timers[frame.id].status \in TimerStatus
      BY <1>1, <2>1 DEF Flushes, IndInv, EntriesSound, EntrySound, TimerEntry
    <3> QED
      BY <2>1, <3>1, <3>2, <3>3 DEF Flushes, Live, Has, TimerStatus
  <2>2. CASE ~Flushes(frame.id)
    BY <1>1, <1>2, <2>2, SetTimerFrame
  <2> QED
    BY <2>1, <2>2
<1>3. ~CancelAll
  BY DEF CancelAll, MayCall, Orderly
<1>4. ASSUME NEW ids \in SUBSET Ids, Resume(ids)
      PROVE  frame'.callback
  BY <1>1, <1>4 DEF Resume, FrameAfterStart, Frame
<1>5. ASSUME NEW id \in Ids, NEW t \in Timeouts, NEW p \in Policies, RescheduleTimer(id, t, p)
      PROVE  frame'.callback
  BY <1>1, <1>5 DEF RescheduleTimer, FrameAfterStart, Frame
<1>6. ASSUME UNCHANGED frame
      PROVE  frame'.callback
  BY <1>6
<1>7. CASE ClientStep
  BY <1>2, <1>3, <1>4, <1>5, <1>6, <1>7
     DEF ClientStep, CancelTimer, PauseTimer, PauseAll, Pause, ResumeTimer, ResumeAll
<1>8. ~FireEnd /\ ~Tick /\ \A id \in Ids : ~FireBegin(id) /\ ~FireStale(id)
  BY DEF FireEnd, Tick, FireBegin, FireStale
<1> QED
  BY <1>6, <1>7, <1>8 DEF Next, vars

\* An orderly client destroys the callback that is running only by cancelling the timer of
\* that callback and setting another: pausing, resuming and rescheduling it, and what is
\* done to other timers, leave it alone, and so does a last callback whatever it does.
THEOREM CallbackCorrect == Spec => RunningCallbackKept
<1>1. Init => NotLastNotExpired
  BY DEF Init, NotLastNotExpired
<1>2. IndInv /\ NotLastNotExpired /\ [Next]_vars => NotLastNotExpired'
  BY NotExpiredStep
<1>3. IndInv /\ NotLastNotExpired /\ [Next]_vars => [CallbackLostOnlyCancelled]_vars
  BY CallbackStep
<1> QED
  BY <1>1, <1>2, <1>3, Invariance, PTL DEF Spec, RunningCallbackKept

-----------------------------------------------------------------------------
(* Running timers count, but for those a zero interval leaves behind. *)

\* A timer that fires with fires to go is started again, unless its interval is zero.
LEMMA FiredArmed ==
  ASSUME NEW e, EntrySound(e), e.status = "Running", e.timer.on,
         Fired([e EXCEPT !.timer = Rearmed(e.timer)]).status = "Running"
  PROVE  LET f == Fired([e EXCEPT !.timer = Rearmed(e.timer)])
         IN  \/ f.timer.on
             \/ ~isOneShot(f.policy) /\ f.policy.interval = 0 /\ f.fireCount > 0
<1> DEFINE f == Fired([e EXCEPT !.timer = Rearmed(e.timer)])
<1>1. /\ e.policy \in Policies /\ e.timer \in UvTimer /\ e.timer.repeat = RepeatOf(e.policy)
      /\ e.fireCount \in Nat /\ e \in TimerEntry
  BY DEF EntrySound, TimerEntry
<1>2. f.timer = Rearmed(e.timer) /\ ~Spent(e.policy, f.fireCount) /\ f.policy = e.policy
  BY FiredSound
<1>3. f.fireCount = CountedUp(e.fireCount)
  BY <1>1 DEF Fired, TimerEntry
<1>4. CountedUp(e.fireCount) > 0
  BY <1>1, TimerAssumption DEF CountedUp
<1>5. ~isOneShot(e.policy) /\ RepeatOf(e.policy) = e.policy.interval
  BY <1>2 DEF Spent, RepeatOf
<1> HIDE DEF f
<1>6. CASE e.policy.interval # 0
  <2>1. f.timer.on
    BY <1>1, <1>2, <1>5, <1>6, RearmedTimer
  <2> QED
    BY <2>1 DEF f
<1>7. CASE e.policy.interval = 0
  <2>1. ~isOneShot(f.policy) /\ f.policy.interval = 0 /\ f.fireCount > 0
    BY <1>2, <1>3, <1>4, <1>5, <1>7
  <2> QED
    BY <2>1 DEF f
<1> QED
  BY <1>6, <1>7

\* The entry is the same but for the state of its Timer, and what is started stays so.
LEMMA ArmedKept ==
  ASSUME RunningIsArmed, NEW i \in Ids, Has(i, "Running")', Has(i, "Running"),
         timers'[i].policy = timers[i].policy, timers'[i].fireCount = timers[i].fireCount,
         timers'[i].timer.on = timers[i].timer.on
  PROVE  timers'[i].timer.on \/ Stranded(i)'
BY DEF RunningIsArmed, Stranded

LEMMA ArmedStep ==
  ASSUME IndInv, RunningIsArmed, [Next]_vars
  PROVE  RunningIsArmed'
<1> SUFFICES ASSUME NEW i \in Ids, Has(i, "Running")'
             PROVE  timers'[i].timer.on \/ Stranded(i)'
  BY DEF RunningIsArmed
<1> DEFINE Armed == timers'[i].timer.on \/ Stranded(i)'
<1>1. \A t \in Timeouts, p \in Policies : NewEntry(t, p).timer.on
  BY DEF NewEntry, StartedEntry, Started
<1>2. ASSUME timers'[i] = timers[i]
      PROVE  Armed
  BY <1>2, ArmedKept DEF Has, Exists
<1> HIDE DEF Armed
<1>3. ASSUME NEW id \in Ids, NEW t \in Timeouts, NEW p \in Policies, SetTimer(id, t, p)
      PROVE  Armed
  <2>1. timers'[i].timer.on \/ timers'[i] = timers[i]
    BY <1>1, <1>3 DEF SetTimer, Has, Exists
  <2> QED
    BY <1>2, <2>1 DEF Armed
<1>4. ASSUME NEW id \in Ids, CancelTimer(id)
      PROVE  Armed
  <2>1. timers'[i] = timers[i]
    BY <1>4 DEF CancelTimer, Has, Exists, IndInv, EntriesSound, TimerEntry
  <2> QED
    BY <1>2, <2>1
<1>5. ~CancelAll
  BY DEF CancelAll, Has, Exists
<1>6. ASSUME NEW ids \in SUBSET Ids, \A id \in ids : Has(id, "Running"), Pause(ids)
      PROVE  Armed
  <2>1. timers'[i] = timers[i]
    BY <1>6, PausedSound DEF Pause, Has, Exists, IndInv, EntriesSound
  <2> QED
    BY <1>2, <2>1
<1>7. ASSUME NEW ids \in SUBSET Ids, \A id \in ids : Has(id, "Paused"), Resume(ids)
      PROVE  Armed
  <2>1. \A e \in TimerEntry : ResumedEntry(e).timer.on
    BY DEF ResumedEntry, StartedEntry, Started, TimerEntry
  <2>2. timers'[i].timer.on \/ timers'[i] = timers[i]
    BY <1>7, <2>1 DEF Resume, Has, Exists, IndInv, EntriesSound, EntrySound
  <2> QED
    BY <1>2, <2>2 DEF Armed
<1>8. ASSUME NEW id \in Ids, NEW t \in Timeouts, NEW p \in Policies, RescheduleTimer(id, t, p)
      PROVE  Armed
  <2>1. timers'[i].timer.on \/ timers'[i] = timers[i]
    BY <1>1, <1>8 DEF RescheduleTimer, IndInv, EntriesSound
  <2> QED
    BY <1>2, <2>1 DEF Armed
<1>9. ASSUME NEW id \in Ids, FireBegin(id)
      PROVE  Armed
  <2>1. EntrySound(timers[id]) /\ timers[id].timer.on /\ timers[id].status = "Running"
    BY <1>9 DEF FireBegin, IndInv, EntriesSound, EntrySound
  <2>2. timers' = [timers EXCEPT ![id] =
                     Fired([timers[id] EXCEPT !.timer = Rearmed(timers[id].timer)])]
    BY <1>9 DEF FireBegin
  <2>3. CASE i = id
    BY <2>1, <2>2, <2>3, FiredArmed DEF Armed, Stranded, Has, Exists, IndInv, EntriesSound
  <2>4. CASE i # id
    BY <1>2, <2>2, <2>4 DEF IndInv, EntriesSound
  <2> QED
    BY <2>3, <2>4
<1>10. ASSUME NEW id \in Ids, FireStale(id)
       PROVE  Armed
  BY <1>2, <1>10, FireStaleQuiet
<1>11. ASSUME FireEnd
       PROVE  Armed
  BY <1>2, <1>11 DEF FireEnd
<1>12. ASSUME Tick
       PROVE  Armed
  <2>1. timers'[i] = [timers[i] EXCEPT !.timer = Elapsed(timers[i].timer)] /\ Exists(i)
    BY <1>12 DEF Tick, Has, Exists
  <2>2. timers[i] \in TimerEntry /\ timers[i].timer \in UvTimer
    BY <2>1 DEF IndInv, EntriesSound, EntrySound, TimerEntry
  <2>3. /\ timers'[i].status = timers[i].status /\ timers'[i].timer = Elapsed(timers[i].timer)
        /\ timers'[i].policy = timers[i].policy /\ timers'[i].fireCount = timers[i].fireCount
    BY <2>1, <2>2 DEF TimerEntry
  <2> QED
    BY <2>1, <2>2, <2>3, ElapsedTimer, ArmedKept DEF Armed, Has, Exists
<1>13. ASSUME UNCHANGED vars
       PROVE  Armed
  BY <1>2, <1>13 DEF vars
<1>14. Armed
  BY <1>3, <1>4, <1>5, <1>6, <1>7, <1>8, <1>9, <1>10, <1>11, <1>12, <1>13
     DEF Next, ClientStep, PauseTimer, PauseAll, ResumeTimer, ResumeAll, Resumable
<1> QED
  BY <1>14 DEF Armed

\* A timer shown as Running is started in libuv, whatever the policies and intervals, but
\* for one that repeats with an interval of zero and has fired: that one stays Running and
\* never fires again.
THEOREM ArmedCorrect == Spec => []RunningIsArmed
<1>1. Init => RunningIsArmed
  BY DEF Init, RunningIsArmed, Has, Exists
<1>2. IndInv /\ RunningIsArmed /\ [Next]_vars => RunningIsArmed'
  BY ArmedStep
<1> QED
  BY <1>1, <1>2, Invariance, PTL DEF Spec
=============================================================================
