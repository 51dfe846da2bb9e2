---------------------- MODULE ThreadPoolServiceProofs ----------------------
(***************************************************************************)
(* Proofs about ThreadPoolService: the invariant IndInv is inductive, and  *)
(* implies the safety properties, for any finite set of Contexts and any   *)
(* sets of names and pool threads.                                         *)
(***************************************************************************)
EXTENDS ThreadPoolService, FiniteSetTheorems, TLAPS

\* There are finitely many Contexts, so the number of requests in flight is a number.
LEMMA OutstandingFinite == IsFiniteSet(Outstanding) /\ Cardinality(Outstanding) \in Nat
BY PoolAssumption, FS_Subset, FS_CardinalityType DEF Outstanding

\* A step that neither gives a request to libuv nor takes one back, and does not touch
\* the counter, keeps it right.
LEMMA SameOutstanding ==
  ASSUME CountersConsistent, Outstanding' = Outstanding, activeCount' = activeCount,
         lpc' = "queue" <=> lpc = "queue"
  PROVE  CountersConsistent'
BY DEF CountersConsistent

\* At the start there are no requests, no entries and no calls.
LEMMA InitInv == Init => IndInv
<1> SUFFICES ASSUME Init PROVE IndInv
  OBVIOUS
<1>1. TypeOK
  BY DEF Init, TypeOK, Stages
<1>2. CountersConsistent
  <2>1. Outstanding = {}
    BY DEF Init, Outstanding, InFlight
  <2> QED
    BY <2>1, FS_EmptySet DEF Init, CountersConsistent
<1>3. RequestsOwned /\ RequestsTracked /\ CallConsistent /\ EntryWithoutHandle
  BY DEF Init, RequestsOwned, RequestsTracked, CallConsistent, EntryWithoutHandle,
         InFlight, Tracked
<1>4. HandleNeverDangles /\ CompletionFindsEntry /\ TimeoutTargetsOwnTask /\ ErasedHasNoTimeout
  BY DEF Init, HandleNeverDangles, CompletionFindsEntry, TimeoutTargetsOwnTask,
         ErasedHasNoTimeout, Tracked
<1>5. RanIsTrue /\ ResultTellsTruth /\ CancelIsHonoured /\ StatusSound
  BY DEF Init, RanIsTrue, ResultTellsTruth, CancelIsHonoured, StatusSound
<1> QED
  BY <1>1, <1>2, <1>3, <1>4, <1>5 DEF IndInv

-----------------------------------------------------------------------------
(* Every action keeps the invariant. *)

\* submit() remembers the name.
LEMMA SubmitInv ==
  ASSUME IndInv, NEW n \in Names, NEW timed \in BOOLEAN, Submit(n, timed)
  PROVE  IndInv'
<1>1. TypeOK'
  BY DEF IndInv, Submit, TypeOK, code, uv, pool, history
<1>2. CountersConsistent'
  BY DEF IndInv, Submit, CountersConsistent, Outstanding, Ready, code, uv
<1>3. RequestsTracked'
  BY DEF IndInv, Submit, RequestsTracked, Ready, Tracked, code, uv, pool, history
<1>4. CallConsistent'
  BY DEF IndInv, Submit, CallConsistent, Ready, Tracked, code, uv, pool, history
<1>5. HandleNeverDangles'
  BY DEF IndInv, Submit, HandleNeverDangles, Ready, Tracked, code, uv, pool, history
<1>6. EntryWithoutHandle'
  BY DEF IndInv, Submit, EntryWithoutHandle, Ready, Tracked, code, uv, pool, history
<1>7. CompletionFindsEntry'
  BY DEF IndInv, Submit, CompletionFindsEntry, code, uv, pool, history
<1>8. ErasedHasNoTimeout'
  BY DEF IndInv, Submit, ErasedHasNoTimeout, code, uv, pool, history
<1>9. RequestsOwned' /\ TimeoutTargetsOwnTask' /\ RanIsTrue' /\ ResultTellsTruth' /\
      CancelIsHonoured' /\ StatusSound'
  BY DEF IndInv, Submit, RequestsOwned, TimeoutTargetsOwnTask, RanIsTrue,
         ResultTellsTruth, CancelIsHonoured, StatusSound, Tracked, code, uv, pool,
         history
<1> QED
  BY <1>1, <1>2, <1>3, <1>4, <1>5, <1>6, <1>7, <1>8, <1>9 DEF IndInv

\* The entry has no handle yet, and no request of that name is in flight.
LEMMA InsertEntryInv ==
  ASSUME IndInv, InsertEntry
  PROVE  IndInv'
<1>1. TypeOK'
  BY DEF IndInv, InsertEntry, TypeOK, CallConsistent, TaskEntry, TaskStatus, uv, pool,
         local, history
<1>2. CountersConsistent'
  BY OutstandingFinite DEF IndInv, InsertEntry, CountersConsistent, Outstanding, uv
<1>3. RequestsTracked'
  BY DEF IndInv, InsertEntry, RequestsTracked, CallConsistent, Tracked, uv, pool, local,
         history
<1>4. CallConsistent'
  BY PoolAssumption DEF IndInv, InsertEntry, CallConsistent, TypeOK, TaskEntry,
         TaskStatus, Tracked, uv, pool, local, history
<1>5. HandleNeverDangles'
  BY DEF IndInv, InsertEntry, HandleNeverDangles, Tracked, uv, pool, local, history
<1>6. EntryWithoutHandle'
  BY DEF IndInv, InsertEntry, EntryWithoutHandle, Tracked, uv, pool, local, history
<1>7. CompletionFindsEntry'
  BY DEF IndInv, InsertEntry, CompletionFindsEntry, uv, pool, local, history
<1>8. TimeoutTargetsOwnTask'
  BY DEF IndInv, InsertEntry, TimeoutTargetsOwnTask, CallConsistent, Tracked, uv, pool,
         local, history
<1>9. ErasedHasNoTimeout'
  BY DEF IndInv, InsertEntry, ErasedHasNoTimeout, uv, pool, local, history
<1>10. StatusSound'
  BY DEF IndInv, InsertEntry, StatusSound, Tracked, uv, pool, local, history
<1>11. RequestsOwned' /\ RanIsTrue' /\ ResultTellsTruth' /\ CancelIsHonoured'
  BY DEF IndInv, InsertEntry, RequestsOwned, RanIsTrue, ResultTellsTruth,
         CancelIsHonoured, uv, pool, local, history
<1> QED
  BY <1>1, <1>2, <1>3, <1>4, <1>5, <1>6, <1>7, <1>8, <1>9, <1>10, <1>11 DEF IndInv

\* The request is the only one of its name.
LEMMA QueueWorkInv ==
  ASSUME IndInv, NEW c \in Contexts, QueueWork(c)
  PROVE  IndInv'
<1>1. TypeOK'
  BY DEF IndInv, QueueWork, TypeOK, Stages, code, pool
<1>2. CountersConsistent'
  <2>1. Outstanding' = Outstanding \cup {c} /\ c \notin Outstanding
    BY DEF IndInv, QueueWork, TypeOK, Outstanding, InFlight
  <2>2. Cardinality(Outstanding') = Cardinality(Outstanding) + 1
    BY <2>1, OutstandingFinite, FS_AddElement
  <2> QED
    BY <2>2, OutstandingFinite DEF IndInv, QueueWork, CountersConsistent, code
<1>3. RequestsOwned'
  BY PoolAssumption DEF IndInv, QueueWork, RequestsOwned, TypeOK, CallConsistent, code,
         pool
<1>4. RequestsTracked'
  BY DEF IndInv, QueueWork, RequestsTracked, TypeOK, CallConsistent, Tracked, code, pool
<1>5. CallConsistent'
  BY DEF IndInv, QueueWork, CallConsistent, TypeOK, InFlight, Tracked, code, pool
<1>6. HandleNeverDangles'
  BY DEF IndInv, QueueWork, HandleNeverDangles, InFlight, Tracked, code, pool
<1>7. EntryWithoutHandle'
  BY DEF IndInv, QueueWork, EntryWithoutHandle, Tracked, code, pool
<1>8. CompletionFindsEntry'
  BY DEF IndInv, QueueWork, CompletionFindsEntry, code, pool
<1>9. ErasedHasNoTimeout'
  BY DEF IndInv, QueueWork, ErasedHasNoTimeout, code, pool
<1>10. RanIsTrue'
  BY DEF IndInv, QueueWork, RanIsTrue, code, pool
<1>11. ResultTellsTruth'
  BY DEF IndInv, QueueWork, ResultTellsTruth, RequestsOwned, code, pool
<1>12. CancelIsHonoured'
  BY DEF IndInv, QueueWork, CancelIsHonoured, code, pool
<1>13. StatusSound'
  <2>1. tasks[lname].status = "Queued" /\ Tracked(lname)
    BY DEF IndInv, QueueWork, CallConsistent
  <2> QED
    BY <2>1 DEF IndInv, QueueWork, StatusSound, TypeOK, Tracked, code
<1>14. TimeoutTargetsOwnTask'
  BY DEF IndInv, QueueWork, TimeoutTargetsOwnTask, Tracked, code, pool
<1> QED
  BY <1>1, <1>2, <1>3, <1>4, <1>5, <1>6, <1>7, <1>8, <1>9, <1>10, <1>11, <1>12, <1>13,
     <1>14 DEF IndInv

\* Entry and request are linked.
LEMMA StoreHandleInv ==
  ASSUME IndInv, StoreHandle
  PROVE  IndInv'
<1>1. TypeOK'
  BY DEF IndInv, StoreHandle, TypeOK, CallConsistent, TaskEntry, Tracked, uv, pool,
         local, history
<1>2. CountersConsistent'
  BY DEF IndInv, StoreHandle, CountersConsistent, Outstanding, uv
<1>3. RequestsTracked'
  BY PoolAssumption DEF IndInv, StoreHandle, RequestsTracked, TypeOK, CallConsistent,
         TaskEntry, Tracked, uv, pool, local, history
<1>4. CallConsistent'
  BY DEF IndInv, StoreHandle, CallConsistent, uv, pool, local, history
<1>5. HandleNeverDangles'
  BY DEF IndInv, StoreHandle, HandleNeverDangles, CallConsistent, Tracked, uv, pool,
         local, history
<1>6. EntryWithoutHandle'
  BY PoolAssumption DEF IndInv, StoreHandle, EntryWithoutHandle, TypeOK, CallConsistent,
         Tracked, uv, pool, local, history
<1>7. CompletionFindsEntry'
  BY DEF IndInv, StoreHandle, CompletionFindsEntry, uv, pool, local, history
<1>8. TimeoutTargetsOwnTask'
  BY PoolAssumption DEF IndInv, StoreHandle, TimeoutTargetsOwnTask, TypeOK,
         CallConsistent, TaskEntry, Tracked, uv, pool, local, history
<1>9. ErasedHasNoTimeout'
  BY DEF IndInv, StoreHandle, ErasedHasNoTimeout, uv, pool, local, history
<1>10. StatusSound'
  BY DEF IndInv, StoreHandle, StatusSound, CallConsistent, Tracked, uv, pool, local,
         history
<1>11. RequestsOwned' /\ RanIsTrue' /\ ResultTellsTruth' /\ CancelIsHonoured'
  BY DEF IndInv, StoreHandle, RequestsOwned, RanIsTrue, ResultTellsTruth,
         CancelIsHonoured, uv, pool, local, history
<1> QED
  BY <1>1, <1>2, <1>3, <1>4, <1>5, <1>6, <1>7, <1>8, <1>9, <1>10, <1>11 DEF IndInv

\* The counter goes back.
LEMMA QueueFailsInv ==
  ASSUME IndInv, QueueFails
  PROVE  IndInv'
<1>1. TypeOK'
  <2>1. activeCount' \in Nat
    BY OutstandingFinite DEF IndInv, QueueFails, CountersConsistent
  <2>2. tasks[lname] \in TaskEntry
    BY DEF IndInv, QueueFails, TypeOK, CallConsistent, Tracked
  <2> QED
    BY <2>1, <2>2 DEF IndInv, QueueFails, TypeOK, TaskEntry, TaskStatus, uv, pool, local, history
<1>2. CountersConsistent'
  BY OutstandingFinite DEF IndInv, QueueFails, CountersConsistent, Outstanding, uv
<1>3. RequestsTracked'
  BY PoolAssumption DEF IndInv, QueueFails, RequestsTracked, CallConsistent, Tracked,
         uv, pool, local, history
<1>4. CallConsistent'
  BY PoolAssumption DEF IndInv, QueueFails, CallConsistent, TypeOK, TaskEntry,
         TaskStatus, Tracked, uv, pool, local, history
<1>5. HandleNeverDangles'
  BY DEF IndInv, QueueFails, HandleNeverDangles, CallConsistent, Tracked, uv, pool,
         local, history
<1>6. EntryWithoutHandle'
  BY DEF IndInv, QueueFails, EntryWithoutHandle, Tracked, uv, pool, local, history
<1>7. CompletionFindsEntry'
  BY DEF IndInv, QueueFails, CompletionFindsEntry, uv, pool, local, history
<1>8. TimeoutTargetsOwnTask'
  BY PoolAssumption DEF IndInv, QueueFails, TimeoutTargetsOwnTask, TypeOK, TaskEntry,
         TaskStatus, Tracked, uv, pool, local, history
<1>9. ErasedHasNoTimeout'
  BY DEF IndInv, QueueFails, ErasedHasNoTimeout, uv, pool, local, history
<1>10. StatusSound'
  BY PoolAssumption DEF IndInv, QueueFails, StatusSound, RequestsTracked,
         CallConsistent, InFlight, uv, pool, local, history
<1>11. RequestsOwned' /\ RanIsTrue' /\ ResultTellsTruth' /\ CancelIsHonoured'
  BY DEF IndInv, QueueFails, RequestsOwned, RanIsTrue, ResultTellsTruth,
         CancelIsHonoured, uv, pool, local, history
<1> QED
  BY <1>1, <1>2, <1>3, <1>4, <1>5, <1>6, <1>7, <1>8, <1>9, <1>10, <1>11 DEF IndInv

\* The entry that goes has no request.
LEMMA EraseRejectedInv ==
  ASSUME IndInv, EraseRejected
  PROVE  IndInv'
<1>1. TypeOK'
  BY DEF IndInv, EraseRejected, TypeOK, CallConsistent, uv, pool, local, history
<1>2. CountersConsistent'
  BY DEF IndInv, EraseRejected, CountersConsistent, Outstanding, uv
<1>3. RequestsTracked'
  BY PoolAssumption DEF IndInv, EraseRejected, RequestsTracked, CallConsistent, Tracked,
         uv, pool, local, history
<1>4. CallConsistent'
  BY DEF IndInv, EraseRejected, CallConsistent, uv, pool, local, history
<1>5. HandleNeverDangles'
  BY DEF IndInv, EraseRejected, HandleNeverDangles, Tracked, uv, pool, local, history
<1>6. EntryWithoutHandle'
  BY DEF IndInv, EraseRejected, EntryWithoutHandle, TypeOK, Tracked, uv, pool, local,
         history
<1>7. CompletionFindsEntry'
  BY DEF IndInv, EraseRejected, CompletionFindsEntry, uv, pool, local, history
<1>8. TimeoutTargetsOwnTask'
  BY PoolAssumption DEF IndInv, EraseRejected, TimeoutTargetsOwnTask, TypeOK,
         CallConsistent, Tracked, uv, pool, local, history
<1>9. ErasedHasNoTimeout'
  BY DEF IndInv, EraseRejected, ErasedHasNoTimeout, uv, pool, local, history
<1>10. StatusSound'
  BY DEF IndInv, EraseRejected, StatusSound, Tracked, uv, pool, local, history
<1>11. RequestsOwned' /\ RanIsTrue' /\ ResultTellsTruth' /\ CancelIsHonoured'
  BY DEF IndInv, EraseRejected, RequestsOwned, RanIsTrue, ResultTellsTruth,
         CancelIsHonoured, uv, pool, local, history
<1> QED
  BY <1>1, <1>2, <1>3, <1>4, <1>5, <1>6, <1>7, <1>8, <1>9, <1>10, <1>11 DEF IndInv

\* The handle comes from an entry, so its request is in flight.
LEMMA CancelInv ==
  ASSUME IndInv, NEW n \in Names, Cancel(n)
  PROVE  IndInv'
<1>1. TypeOK'
  BY DEF IndInv, Cancel, TypeOK, TaskEntry, Tracked, code, uv, pool, history
<1>2. CountersConsistent'
  BY DEF IndInv, Cancel, CountersConsistent, Outstanding, Ready, code, uv
<1>3. RequestsTracked'
  BY DEF IndInv, Cancel, RequestsTracked, Ready, Tracked, code, uv, pool, history
<1>4. CallConsistent'
  BY DEF IndInv, Cancel, CallConsistent, TypeOK, HandleNeverDangles, EntryWithoutHandle,
         Ready, TaskEntry, Tracked, code, uv, pool, history
<1>5. HandleNeverDangles'
  BY DEF IndInv, Cancel, HandleNeverDangles, Ready, Tracked, code, uv, pool, history
<1>6. EntryWithoutHandle'
  BY DEF IndInv, Cancel, EntryWithoutHandle, Ready, Tracked, code, uv, pool, history
<1>7. CompletionFindsEntry'
  BY DEF IndInv, Cancel, CompletionFindsEntry, code, uv, pool, history
<1>8. ErasedHasNoTimeout'
  BY DEF IndInv, Cancel, ErasedHasNoTimeout, code, uv, pool, history
<1>9. RequestsOwned' /\ TimeoutTargetsOwnTask' /\ RanIsTrue' /\ ResultTellsTruth' /\
      CancelIsHonoured' /\ StatusSound'
  BY DEF IndInv, Cancel, RequestsOwned, TimeoutTargetsOwnTask, RanIsTrue,
         ResultTellsTruth, CancelIsHonoured, StatusSound, Tracked, code, uv, pool,
         history
<1> QED
  BY <1>1, <1>2, <1>3, <1>4, <1>5, <1>6, <1>7, <1>8, <1>9 DEF IndInv

\* A request leaves the queue of the pool, or nothing happens.
LEMMA WorkCancelInv ==
  ASSUME IndInv, WorkCancel
  PROVE  IndInv'
<1>1. TypeOK'
  BY DEF IndInv, WorkCancel, TypeOK, CallConsistent, Stages, UvCancel, code, pool, local
<1>2. CountersConsistent'
  <2>1. Outstanding' = Outstanding
    BY DEF IndInv, WorkCancel, TypeOK, Outstanding, InFlight, UvCancel, Cancellable
  <2> QED
    BY <2>1, SameOutstanding DEF IndInv, WorkCancel, code
<1>3. RequestsOwned'
  BY DEF IndInv, WorkCancel, RequestsOwned, Cancellable, UvCancel, code, pool, local
<1>4. RequestsTracked'
  BY DEF IndInv, WorkCancel, RequestsTracked, Cancellable, InFlight, Tracked, UvCancel,
         code, pool, local
<1>5. CallConsistent'
  BY DEF IndInv, WorkCancel, CallConsistent, code, pool, local
<1>6. HandleNeverDangles'
  BY DEF IndInv, WorkCancel, HandleNeverDangles, InFlight, Tracked, UvCancel, code,
         pool, local
<1>7. EntryWithoutHandle'
  BY DEF IndInv, WorkCancel, EntryWithoutHandle, Tracked, code, pool, local
<1>8. CompletionFindsEntry'
  BY DEF IndInv, WorkCancel, CompletionFindsEntry, code, pool, local
<1>9. ErasedHasNoTimeout'
  BY DEF IndInv, WorkCancel, ErasedHasNoTimeout, code, pool, local
<1>10. RanIsTrue'
  BY DEF IndInv, WorkCancel, RanIsTrue, Cancellable, UvCancel, code, pool, local
<1>11. CancelIsHonoured'
  BY DEF IndInv, WorkCancel, CancelIsHonoured, TypeOK, CallConsistent, RanIsTrue,
         ResultTellsTruth, Cancellable, UvCancel, code, pool, local
<1>12. StatusSound'
  BY DEF IndInv, WorkCancel, StatusSound, Cancellable, Tracked, UvCancel, code, pool,
         local
<1>13. TimeoutTargetsOwnTask' /\ ResultTellsTruth'
  BY DEF IndInv, WorkCancel, TimeoutTargetsOwnTask, ResultTellsTruth, Tracked, code,
         pool, local
<1> QED
  BY <1>1, <1>2, <1>3, <1>4, <1>5, <1>6, <1>7, <1>8, <1>9, <1>10, <1>11, <1>12, <1>13 DEF IndInv

\* The request is that of the entry the timer was started for.
LEMMA TimeoutFiresInv ==
  ASSUME IndInv, NEW t \in armed, TimeoutFires(t)
  PROVE  IndInv'
<1>1. TypeOK'
  BY DEF IndInv, TimeoutFires, TypeOK, Stages, UvCancel, pool, local
<1>2. CountersConsistent'
  <2>1. Outstanding' = Outstanding
    BY DEF IndInv, TimeoutFires, Outstanding, TypeOK, InFlight, UvCancel, Cancellable
  <2> QED
    BY <2>1, SameOutstanding DEF IndInv, TimeoutFires
<1>3. RequestsOwned'
  BY DEF IndInv, TimeoutFires, RequestsOwned, TypeOK, Cancellable, UvCancel, pool, local
<1>4. RequestsTracked'
  BY DEF IndInv, TimeoutFires, RequestsTracked, TypeOK, Cancellable, InFlight, Tracked,
         UvCancel, pool, local
<1>5. CallConsistent'
  BY DEF IndInv, TimeoutFires, CallConsistent, Ready, pool, local
<1>6. HandleNeverDangles'
  BY DEF IndInv, TimeoutFires, HandleNeverDangles, TypeOK, InFlight, TaskEntry, Tracked,
         UvCancel, pool, local
<1>7. TimeoutTargetsOwnTask'
  BY DEF IndInv, TimeoutFires, TimeoutTargetsOwnTask, Tracked, pool, local
<1>8. ErasedHasNoTimeout'
  BY DEF IndInv, TimeoutFires, ErasedHasNoTimeout, Ready, pool, local
<1>9. RanIsTrue'
  BY DEF IndInv, TimeoutFires, RanIsTrue, TypeOK, Cancellable, UvCancel, pool, local
<1>10. CancelIsHonoured'
  BY DEF IndInv, TimeoutFires, CancelIsHonoured, TypeOK, UvCancel, pool, local
<1>11. StatusSound'
  BY DEF IndInv, TimeoutFires, StatusSound, TypeOK, Cancellable, Tracked, UvCancel,
         pool, local
<1>12. EntryWithoutHandle' /\ CompletionFindsEntry' /\ ResultTellsTruth'
  BY DEF IndInv, TimeoutFires, EntryWithoutHandle, CompletionFindsEntry,
         ResultTellsTruth, Tracked, pool, local
<1> QED
  BY <1>1, <1>2, <1>3, <1>4, <1>5, <1>6, <1>7, <1>8, <1>9, <1>10, <1>11, <1>12 DEF IndInv

\* A queued request gets a thread of its own.
LEMMA PickUpInv ==
  ASSUME IndInv, NEW w \in Threads, NEW c \in Contexts, PickUp(w, c)
  PROVE  IndInv'
<1>1. TypeOK'
  BY DEF IndInv, PickUp, TypeOK, Stages, code, local, history
<1>2. CountersConsistent'
  <2>1. Outstanding' = Outstanding
    BY DEF IndInv, PickUp, Outstanding, TypeOK, InFlight
  <2> QED
    BY <2>1, SameOutstanding DEF IndInv, PickUp, code
<1>3. RequestsOwned'
  BY DEF IndInv, PickUp, RequestsOwned, TypeOK, code, local, history
<1>4. RequestsTracked'
  BY DEF IndInv, PickUp, RequestsTracked, InFlight, Tracked, code, local, history
<1>5. CallConsistent'
  BY DEF IndInv, PickUp, CallConsistent, InFlight, Tracked, code, local, history
<1>6. HandleNeverDangles'
  BY DEF IndInv, PickUp, HandleNeverDangles, InFlight, Tracked, code, local, history
<1>7. RanIsTrue'
  BY DEF IndInv, PickUp, RanIsTrue, code, local, history
<1>8. CancelIsHonoured'
  BY DEF IndInv, PickUp, CancelIsHonoured, code, local, history
<1>9. StatusSound'
  BY DEF IndInv, PickUp, StatusSound, Tracked, code, local, history
<1>10. EntryWithoutHandle' /\ CompletionFindsEntry' /\ TimeoutTargetsOwnTask' /\
      ErasedHasNoTimeout' /\ ResultTellsTruth'
  BY DEF IndInv, PickUp, EntryWithoutHandle, CompletionFindsEntry,
         TimeoutTargetsOwnTask, ErasedHasNoTimeout, ResultTellsTruth, Tracked, code,
         local, history
<1> QED
  BY <1>1, <1>2, <1>3, <1>4, <1>5, <1>6, <1>7, <1>8, <1>9, <1>10 DEF IndInv

\* Only a program counter moves.
LEMMA LookupInv ==
  ASSUME IndInv, NEW w \in Threads, Lookup(w)
  PROVE  IndInv'
<1>1. TypeOK'
  BY DEF IndInv, Lookup, TypeOK, code, uv, local, history
<1>2. RequestsOwned'
  BY DEF IndInv, Lookup, RequestsOwned, TypeOK, code, uv, local, history
<1>3. CountersConsistent' /\ RequestsTracked' /\ CallConsistent' /\
      HandleNeverDangles' /\ EntryWithoutHandle' /\ CompletionFindsEntry' /\
      TimeoutTargetsOwnTask' /\ ErasedHasNoTimeout' /\ RanIsTrue' /\
      ResultTellsTruth' /\ CancelIsHonoured' /\ StatusSound'
  BY DEF IndInv, Lookup, CountersConsistent, RequestsTracked, CallConsistent,
         HandleNeverDangles, EntryWithoutHandle, CompletionFindsEntry,
         TimeoutTargetsOwnTask, ErasedHasNoTimeout, RanIsTrue, ResultTellsTruth,
         CancelIsHonoured, StatusSound, Outstanding, Tracked, code, uv, local, history
<1> QED
  BY <1>1, <1>2, <1>3 DEF IndInv

\* The entry is that of the request the thread runs.
LEMMA MarkInProgressInv ==
  ASSUME IndInv, NEW w \in Threads, MarkInProgress(w)
  PROVE  IndInv'
<1>1. TypeOK'
  BY DEF IndInv, MarkInProgress, TypeOK, RequestsOwned, TaskEntry, TaskStatus, Tracked,
         uv, local, history
<1>2. RequestsOwned'
  BY DEF IndInv, MarkInProgress, RequestsOwned, uv, local, history
<1>3. RequestsTracked'
  BY PoolAssumption DEF IndInv, MarkInProgress, RequestsTracked, TypeOK, TaskEntry,
         TaskStatus, Tracked, uv, local, history
<1>4. CallConsistent'
  BY PoolAssumption
  DEF IndInv, MarkInProgress, CallConsistent, RequestsOwned, RequestsTracked, TypeOK, TaskEntry,
      TaskStatus, Tracked, InFlight, uv, local, history
<1>5. HandleNeverDangles'
  BY DEF IndInv, MarkInProgress, HandleNeverDangles, Tracked, uv, local, history
<1>6. EntryWithoutHandle'
  BY DEF IndInv, MarkInProgress, EntryWithoutHandle, Tracked, uv, local, history
<1>7. CompletionFindsEntry'
  BY DEF IndInv, MarkInProgress, CompletionFindsEntry, RequestsOwned, RequestsTracked,
         InFlight, Tracked, uv, local, history
<1>8. TimeoutTargetsOwnTask'
  BY PoolAssumption DEF IndInv, MarkInProgress, TimeoutTargetsOwnTask, TypeOK,
         TaskEntry, TaskStatus, Tracked, uv, local, history
<1>9. StatusSound'
  BY PoolAssumption DEF IndInv, MarkInProgress, StatusSound, RequestsOwned,
         RequestsTracked, InFlight, uv, local, history
<1>10. CountersConsistent' /\ ErasedHasNoTimeout' /\ RanIsTrue' /\ ResultTellsTruth' /\
      CancelIsHonoured'
  BY DEF IndInv, MarkInProgress, CountersConsistent, ErasedHasNoTimeout, RanIsTrue,
         ResultTellsTruth, CancelIsHonoured, Outstanding, uv, local, history
<1> QED
  BY <1>1, <1>2, <1>3, <1>4, <1>5, <1>6, <1>7, <1>8, <1>9, <1>10 DEF IndInv

\* The work callback has run.
LEMMA RunWorkInv ==
  ASSUME IndInv, NEW w \in Threads, RunWork(w)
  PROVE  IndInv'
<1>1. TypeOK'
  BY DEF IndInv, RunWork, TypeOK, RequestsOwned, Stages, code, local
<1>2. CountersConsistent'
  <2>1. Outstanding' = Outstanding
    BY DEF IndInv, RunWork, Outstanding, TypeOK, RequestsOwned, InFlight
  <2> QED
    BY <2>1, SameOutstanding DEF IndInv, RunWork, code
<1>3. RequestsOwned'
  BY DEF IndInv, RunWork, RequestsOwned, TypeOK, code, local
<1>4. RequestsTracked'
  BY DEF IndInv, RunWork, RequestsTracked, RequestsOwned, InFlight, Tracked, code, local
<1>5. CallConsistent'
  BY DEF IndInv, RunWork, CallConsistent, InFlight, Tracked, code, local
<1>6. HandleNeverDangles'
  BY DEF IndInv, RunWork, HandleNeverDangles, InFlight, Tracked, code, local
<1>7. RanIsTrue'
  BY DEF IndInv, RunWork, RanIsTrue, TypeOK, code, local
<1>8. ResultTellsTruth'
  BY DEF IndInv, RunWork, ResultTellsTruth, RequestsOwned, code, local
<1>9. CancelIsHonoured'
  BY DEF IndInv, RunWork, CancelIsHonoured, RequestsOwned, code, local
<1>10. StatusSound'
  BY DEF IndInv, RunWork, StatusSound, Tracked, code, local
<1>11. EntryWithoutHandle' /\ CompletionFindsEntry' /\ TimeoutTargetsOwnTask' /\
      ErasedHasNoTimeout'
  BY DEF IndInv, RunWork, EntryWithoutHandle, CompletionFindsEntry,
         TimeoutTargetsOwnTask, ErasedHasNoTimeout, Tracked, code, local
<1> QED
  BY <1>1, <1>2, <1>3, <1>4, <1>5, <1>6, <1>7, <1>8, <1>9, <1>10, <1>11 DEF IndInv

\* The request moves to the frame, and its entry is there.
LEMMA AfterWorkInv ==
  ASSUME IndInv, NEW c \in Contexts, AfterWork(c)
  PROVE  IndInv'
<1>f. frame' \in Frame /\ frame'.ctx = c /\ ~frame'.told
  BY DEF AfterWork, Frame, Errors, ErrorOf
<1>n. frame' # None
  BY <1>f, PoolAssumption
<1>o. owner[c] \in Names
  BY DEF IndInv, AfterWork, RequestsOwned, TypeOK
<1>c. CountersConsistent' /\ activeCount' \in Nat
  <2>1. Outstanding' = Outstanding \ {c} /\ c \in Outstanding
    BY DEF IndInv, AfterWork, TypeOK, Outstanding, InFlight
  <2>2. /\ Cardinality(Outstanding') = Cardinality(Outstanding) - 1
        /\ Cardinality(Outstanding') \in Nat
    BY <2>1, OutstandingFinite, FS_RemoveElement, FS_CardinalityType
  <2> QED
    BY <2>2, OutstandingFinite DEF IndInv, AfterWork, CountersConsistent, Ready
<1>1. TypeOK'
  BY <1>f, <1>o, <1>c DEF IndInv, AfterWork, TypeOK, Stages, uv, pool, local, history
<1>2. CountersConsistent'
  BY <1>c
<1>3. RequestsOwned'
  BY <1>f, <1>n DEF IndInv, AfterWork, RequestsOwned, TypeOK, pool
<1>4. RequestsTracked'
  BY DEF IndInv, AfterWork, RequestsTracked, InFlight, Ready, Tracked, pool, history
<1>5. CallConsistent'
  BY <1>f, <1>n, <1>o DEF IndInv, AfterWork, CallConsistent, Ready
<1>6. HandleNeverDangles'
  BY <1>f, <1>n, <1>o
  DEF IndInv, AfterWork, HandleNeverDangles, RequestsTracked, TypeOK, Tracked, InFlight, Ready
<1>7. EntryWithoutHandle'
  BY DEF IndInv, AfterWork, EntryWithoutHandle, Ready, Tracked, pool, history
<1>8. CompletionFindsEntry'
  BY <1>f, <1>n, PoolAssumption
  DEF IndInv, AfterWork, CompletionFindsEntry, RequestsTracked, Tracked, InFlight, Ready
<1>9. ErasedHasNoTimeout'
  BY DEF IndInv, AfterWork, ErasedHasNoTimeout, pool, history
<1>10. RanIsTrue'
  BY DEF IndInv, AfterWork, RanIsTrue, pool, history
<1>11. ResultTellsTruth'
  BY DEF IndInv, AfterWork, ResultTellsTruth, RanIsTrue, ErrorOf, pool, history
<1>12. CancelIsHonoured'
  BY DEF IndInv, AfterWork, CancelIsHonoured, ErrorOf, pool, history
<1>13. StatusSound'
  BY DEF IndInv, AfterWork, StatusSound, Tracked, pool, history
<1>14. TimeoutTargetsOwnTask'
  BY DEF IndInv, AfterWork, TimeoutTargetsOwnTask, Tracked, pool, history
<1> QED
  BY <1>1, <1>2, <1>3, <1>4, <1>5, <1>6, <1>7, <1>8, <1>9, <1>10, <1>11, <1>12, <1>13,
     <1>14 DEF IndInv

\* The entry loses its timer.
LEMMA FinishTaskInv ==
  ASSUME IndInv, FinishTask
  PROVE  IndInv'
<1>1. TypeOK'
  BY DEF IndInv, FinishTask, TypeOK, StopTimeout, TaskEntry, TaskStatus, Tracked, uv,
         pool, local, history
<1>2. CountersConsistent'
  BY DEF IndInv, FinishTask, CountersConsistent, Outstanding, uv
<1>3. RequestsTracked'
  BY PoolAssumption DEF IndInv, FinishTask, RequestsTracked, TypeOK, RequestsOwned,
         InFlight, TaskEntry, TaskStatus, Tracked, uv, pool, local, history
<1>4. CallConsistent'
  BY DEF IndInv, FinishTask, CallConsistent, CompletionFindsEntry, uv, pool, local,
         history
<1>5. HandleNeverDangles'
  BY DEF IndInv, FinishTask, HandleNeverDangles, TypeOK, TaskEntry, Tracked, uv, pool,
         local, history
<1>6. EntryWithoutHandle'
  BY DEF IndInv, FinishTask, EntryWithoutHandle, TypeOK, TaskEntry, Tracked, uv, pool,
         local, history
<1>7. CompletionFindsEntry'
  BY PoolAssumption DEF IndInv, FinishTask, CompletionFindsEntry, TypeOK, TaskEntry,
         TaskStatus, Tracked, uv, pool, local, history
<1>8. TimeoutTargetsOwnTask'
  BY DEF IndInv, FinishTask, TimeoutTargetsOwnTask, TypeOK, StopTimeout, Tracked, uv,
         pool, local, history
<1>9. ErasedHasNoTimeout'
  BY DEF IndInv, FinishTask, ErasedHasNoTimeout, StopTimeout, uv, pool, local, history
<1>10. StatusSound'
  BY DEF IndInv, FinishTask, StatusSound, TypeOK, RequestsOwned, RequestsTracked,
         CompletionFindsEntry, InFlight, uv, pool, local, history
<1>11. RequestsOwned' /\ RanIsTrue' /\ ResultTellsTruth' /\ CancelIsHonoured'
  BY DEF IndInv, FinishTask, RequestsOwned, RanIsTrue, ResultTellsTruth,
         CancelIsHonoured, uv, pool, local, history
<1> QED
  BY <1>1, <1>2, <1>3, <1>4, <1>5, <1>6, <1>7, <1>8, <1>9, <1>10, <1>11 DEF IndInv

\* The entry goes, and with it the last pointer to the request.
LEMMA EraseEntryInv ==
  ASSUME IndInv, EraseEntry
  PROVE  IndInv'
<1>f. frame \in Frame
  BY DEF IndInv, EraseEntry, CompletionFindsEntry, TypeOK
<1>n. frame' \in Frame /\ frame'.ctx = frame.ctx /\ frame' # None
  BY <1>f, PoolAssumption DEF EraseEntry, Frame
<1>1. TypeOK'
  BY <1>n DEF IndInv, EraseEntry, TypeOK, CallConsistent, uv, pool, local, history
<1>2. CountersConsistent'
  BY DEF IndInv, EraseEntry, CountersConsistent, Outstanding, uv
<1>3. RequestsOwned'
  BY <1>f, <1>n DEF IndInv, EraseEntry, RequestsOwned, CompletionFindsEntry, uv, pool
<1>4. RequestsTracked'
  BY DEF IndInv, EraseEntry, RequestsTracked, RequestsOwned, CompletionFindsEntry,
         InFlight, Tracked, uv, pool, local, history
<1>5. CallConsistent'
  BY DEF IndInv, EraseEntry, CallConsistent, uv, pool, local, history
<1>6. HandleNeverDangles'
  BY DEF IndInv, EraseEntry, HandleNeverDangles, TypeOK, Tracked, uv, pool, local,
         history
<1>7. EntryWithoutHandle'
  BY DEF IndInv, EraseEntry, EntryWithoutHandle, Tracked, uv, pool, local, history
<1>8. CompletionFindsEntry'
  BY DEF IndInv, EraseEntry, CompletionFindsEntry, uv, pool, local, history
<1>9. TimeoutTargetsOwnTask'
  BY DEF IndInv, EraseEntry, TimeoutTargetsOwnTask, ErasedHasNoTimeout, Tracked, uv,
         pool, local, history
<1>10. ErasedHasNoTimeout'
  BY DEF IndInv, EraseEntry, ErasedHasNoTimeout, uv, pool, local, history
<1>11. ResultTellsTruth'
  BY DEF IndInv, EraseEntry, ResultTellsTruth, CallConsistent, uv, pool, local, history
<1>12. CancelIsHonoured'
  BY DEF IndInv, EraseEntry, CancelIsHonoured, CallConsistent, uv, pool, local, history
<1>13. StatusSound'
  BY DEF IndInv, EraseEntry, StatusSound, Tracked, uv, pool, local, history
<1>14. RanIsTrue'
  BY DEF IndInv, EraseEntry, RanIsTrue, uv, pool, local, history
<1> QED
  BY <1>1, <1>2, <1>3, <1>4, <1>5, <1>6, <1>7, <1>8, <1>9, <1>10, <1>11, <1>12, <1>13,
     <1>14 DEF IndInv

\* Nothing points to the request any more.
LEMMA DeleteContextInv ==
  ASSUME IndInv, DeleteContext
  PROVE  IndInv'
<1>1. TypeOK'
  BY DEF IndInv, DeleteContext, TypeOK, Frame, Stages, code, pool, local, history
<1>2. CountersConsistent'
  <2>1. stage[frame.ctx] = "after"
    BY DEF IndInv, DeleteContext, RequestsOwned, TypeOK, Frame
  <2>2. Outstanding' = Outstanding
    BY <2>1 DEF IndInv, DeleteContext, TypeOK, Outstanding, InFlight
  <2> QED
    BY <2>2, SameOutstanding DEF IndInv, DeleteContext, code
<1>3. RequestsOwned'
  BY DEF IndInv, DeleteContext, RequestsOwned, TypeOK, code, pool, local, history
<1>4. RequestsTracked'
  BY DEF IndInv, DeleteContext, RequestsTracked, RequestsOwned, InFlight, Tracked, code,
         pool, local, history
<1>5. CallConsistent'
  BY DEF IndInv, DeleteContext, CallConsistent, Ready, code, pool, local, history
<1>6. HandleNeverDangles'
  BY DEF IndInv, DeleteContext, HandleNeverDangles, TypeOK, RequestsOwned, InFlight,
         Ready, Tracked, code, pool, local, history
<1>7. CompletionFindsEntry'
  BY DEF IndInv, DeleteContext, CompletionFindsEntry, Ready, code, pool, local, history
<1>8. RanIsTrue'
  BY DEF IndInv, DeleteContext, RanIsTrue, code, pool, local, history
<1>9. ResultTellsTruth'
  BY DEF IndInv, DeleteContext, ResultTellsTruth, code, pool, local, history
<1>10. CancelIsHonoured'
  BY DEF IndInv, DeleteContext, CancelIsHonoured, code, pool, local, history
<1>11. StatusSound'
  BY DEF IndInv, DeleteContext, StatusSound, RequestsOwned, Tracked, code, pool, local,
         history
<1>12. EntryWithoutHandle' /\ TimeoutTargetsOwnTask' /\ ErasedHasNoTimeout'
  BY DEF IndInv, DeleteContext, EntryWithoutHandle, TimeoutTargetsOwnTask,
         ErasedHasNoTimeout, Tracked, code, pool, local, history
<1> QED
  BY <1>1, <1>2, <1>3, <1>4, <1>5, <1>6, <1>7, <1>8, <1>9, <1>10, <1>11, <1>12 DEF IndInv

-----------------------------------------------------------------------------
\* No step leaves the invariant.
LEMMA NextInv == IndInv /\ [Next]_vars => IndInv'
<1> SUFFICES ASSUME IndInv, [Next]_vars PROVE IndInv'
  OBVIOUS
<1>1. CASE ClientStep
  BY <1>1, SubmitInv, CancelInv DEF ClientStep
<1>2. CASE CallStep
  BY <1>2, InsertEntryInv, QueueWorkInv, QueueFailsInv, StoreHandleInv, EraseRejectedInv,
     WorkCancelInv, FinishTaskInv, EraseEntryInv
  DEF CallStep
<1>3. CASE DeleteContext
  BY <1>3, DeleteContextInv
<1>4. CASE \E t \in armed : TimeoutFires(t)
  BY <1>4, TimeoutFiresInv
<1>5. CASE \E c \in Contexts : AfterWork(c)
  BY <1>5, AfterWorkInv
<1>6. CASE \E w \in Threads : PoolStep(w)
  BY <1>6, PickUpInv, LookupInv, MarkInProgressInv, RunWorkInv DEF PoolStep
<1>7. CASE UNCHANGED vars
  BY <1>7
  DEF vars, code, uv, pool, local, history, IndInv, TypeOK, CountersConsistent, Outstanding,
      RequestsOwned, RequestsTracked, CallConsistent, HandleNeverDangles,
      EntryWithoutHandle, CompletionFindsEntry, TimeoutTargetsOwnTask, ErasedHasNoTimeout,
      RanIsTrue, ResultTellsTruth, CancelIsHonoured, StatusSound, Tracked
<1> QED
  BY <1>1, <1>2, <1>3, <1>4, <1>5, <1>6, <1>7 DEF Next

\* The invariant holds in every reachable state.
THEOREM Invariance == Spec => []IndInv
<1>1. Init => IndInv
  BY InitInv
<1>2. IndInv /\ [Next]_vars => IndInv'
  BY NextInv
<1> QED
  BY <1>1, <1>2, PTL DEF Spec

\* Every variable keeps to its type; activeCount_ never wraps below zero.
THEOREM TypeCorrect == Spec => []TypeOK
<1>1. IndInv => TypeOK
  BY DEF IndInv
<1> QED
  BY <1>1, Invariance, PTL

\* activeCount_ is the number of submissions in flight.
THEOREM CountersCorrect == Spec => []CountersConsistent
<1>1. IndInv => CountersConsistent
  BY DEF IndInv
<1> QED
  BY <1>1, Invariance, PTL

\* uv_cancel is never given a deleted request or that of another task.
THEOREM HandlesCorrect == Spec => []HandleNeverDangles
<1>1. IndInv => HandleNeverDangles
  BY DEF IndInv
<1> QED
  BY <1>1, Invariance, PTL

\* onTaskComplete finds its entry, so no after-work callback is dropped.
THEOREM CompletionCorrect == Spec => []CompletionFindsEntry
<1>1. IndInv => CompletionFindsEntry
  BY DEF IndInv
<1> QED
  BY <1>1, Invariance, PTL

\* The entry a pool thread looks for, or has found, is in the table: it is busy with a
\* request in flight, and those are tracked.
THEOREM PoolThreadCorrect == Spec => []PoolThreadFindsEntry
<1>1. IndInv => PoolThreadFindsEntry
  BY DEF IndInv, PoolThreadFindsEntry, RequestsOwned, RequestsTracked, InFlight
<1> QED
  BY <1>1, Invariance, PTL

\* A timeout never reaches a later task of the same name.
THEOREM TimeoutCorrect == Spec => []TimeoutTargetsOwnTask
<1>1. IndInv => TimeoutTargetsOwnTask
  BY DEF IndInv
<1> QED
  BY <1>1, Invariance, PTL

\* The Error a client is given says whether its work ran.
THEOREM ResultCorrect == Spec => []ResultTellsTruth
<1>1. IndInv => ResultTellsTruth
  BY DEF IndInv
<1> QED
  BY <1>1, Invariance, PTL

\* A successful cancel() is honoured.
THEOREM CancelCorrect == Spec => []CancelIsHonoured
<1>1. IndInv => CancelIsHonoured
  BY DEF IndInv
<1> QED
  BY <1>1, Invariance, PTL

\* A task no thread has taken is shown as Queued.
THEOREM StatusCorrect == Spec => []StatusSound
<1>1. IndInv => StatusSound
  BY DEF IndInv
<1> QED
  BY <1>1, Invariance, PTL
=============================================================================
