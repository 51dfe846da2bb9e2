------------------------ MODULE TimerListenerProofs ------------------------
(***************************************************************************)
(* The safety of TimerListener for any ids, any clients and calls nested   *)
(* to any depth: its inductive invariant, and what follows from it.        *)
(*                                                                         *)
(* Every step carries the first m calls of the stack over, perhaps         *)
(* disturbed, and puts at most one more on top of them.  The first part    *)
(* says so of each action; the invariant only needs that.                  *)
(***************************************************************************)
EXTENDS TimerListener, SequenceTheorems, TLAPS

-----------------------------------------------------------------------------
(* Frames. *)

\* g is the call f; what its loop no longer has to come to is gone, and its iterator is good
\* unless its entry is gone or one was inserted; a wrapper keeps its entry unless that is gone
\* and its closure unless its Timer was started.
Carried(f, g, gone, started) ==
  /\ g \in Frame
  /\ g.at = f.at /\ g.id = f.id /\ g.stop = f.stop
  /\ f.todo \subseteq g.todo \cup gone
  /\ f.at \in Wrappers /\ f.good /\ f.closure /\ f.id \notin gone \cup started =>
       g.good /\ g.closure
  /\ f.at \in Loops /\ f.good /\ f.id \notin gone /\ ~Calls({"set"}) => g.good

LEMMA CallTyped ==
  ASSUME NEW at \in Places, NEW id \in Ids, NEW todo \in SUBSET Ids
  PROVE  /\ Call(at, id, todo) \in Frame
         /\ Call(at, id, todo).at = at
         /\ Call(at, id, todo).id = id
         /\ Call(at, id, todo).todo = todo
         /\ Call(at, id, todo).stop = FALSE
         /\ Call(at, id, todo).good /\ Call(at, id, todo).closure
BY DEF Call, Frame

LEMMA SameCarried ==
  ASSUME NEW f \in Frame, NEW gone, NEW started
  PROVE  Carried(f, f, gone, started)
BY DEF Carried

LEMMA DisturbedCarried ==
  ASSUME NEW f \in Frame, NEW erased \in SUBSET Ids, NEW started \in SUBSET Ids
  PROVE  Carried(f, Disturbed(f, erased, started), erased, started)
<1> DEFINE g == Disturbed(f, erased, started)
<1>1. g \in Frame
  BY DEF Disturbed, Frame
<1>2. g.at = f.at /\ g.id = f.id /\ g.stop = f.stop /\ g.todo = f.todo \ erased
  BY DEF Disturbed, Frame
<1>3. /\ f.good /\ f.id \notin erased => g.good
      /\ f.good /\ f.closure /\ f.id \notin erased /\ f.id \notin started => g.good /\ g.closure
  BY DEF Disturbed, Frame
<1>4. Carried(f, g, erased, started)
  <2> HIDE DEF g
  <2> QED
    BY <1>1, <1>2, <1>3 DEF Carried
<1> QED
  BY <1>4

LEMMA AfterInsertCarried ==
  ASSUME Calls({"set"}),
         NEW f \in Frame, NEW id \in Ids, NEW rehash \in BOOLEAN, NEW comes \in BOOLEAN
  PROVE  Carried(f, AfterInsert(f, id, rehash, comes), {}, {})
<1>1. CASE f.at \notin Loops
  BY <1>1, SameCarried DEF AfterInsert
<1>2. CASE f.at \in Loops
  <2> DEFINE g == AfterInsert(f, id, rehash, comes)
             T == IF comes THEN f.todo \cup {id} ELSE f.todo
             G == f.good /\ ~rehash
  <2>1. g = [f EXCEPT !.good = G, !.todo = T]
    BY <1>2 DEF AfterInsert
  <2>2. T \in SUBSET Ids /\ f.todo \subseteq T /\ G \in BOOLEAN
    BY DEF Frame
  <2> HIDE DEF T, G
  <2> QED
    BY <1>2, <2>1, <2>2 DEF Carried, Frame, Wrappers, Loops
<1> QED
  BY <1>1, <1>2

LEMMA CarriedTwice ==
  ASSUME NEW f, NEW g, NEW h, NEW gone, NEW started,
         Carried(f, g, gone, started), Carried(g, h, {}, {})
  PROVE  Carried(f, h, gone, started)
BY DEF Carried

-----------------------------------------------------------------------------
(* The stack. *)

\* The first m calls are carried over.
CarriedOver(m, gone, started) ==
  /\ m \in 0 .. Len(stack)
  /\ stack' \in Seq(Frame)
  /\ \A i \in 1 .. m : Carried(stack[i], stack'[i], gone, started)

\* ... and they are all there is.
Popped(m, gone, started) == CarriedOver(m, gone, started) /\ Len(stack') = m

\* ... and f comes on top of them.
Pushed(m, f, gone, started) ==
  /\ CarriedOver(m, gone, started)
  /\ Len(stack') = m + 1
  /\ stack'[m + 1] = f /\ f \in Frame

LEMMA StackTyped ==
  ASSUME TypeOK
  PROVE  /\ stack \in Seq(Frame)
         /\ Len(stack) \in Nat
         /\ DOMAIN stack = 1 .. Len(stack)
         /\ \A i \in 1 .. Len(stack) : stack[i] \in Frame
         /\ stack = <<>> <=> Len(stack) = 0
BY LenProperties, ElementOfSeq, EmptySeq DEF TypeOK

\* A function on 1 .. n is a sequence of that length.
LEMMA FunctionIsSeq ==
  ASSUME NEW S, NEW n \in Nat, NEW g \in [1 .. n -> S]
  PROVE  g \in Seq(S) /\ Len(g) = n
<1>1. g \in Seq(S)
  BY SeqDef
<1>2. DOMAIN g = 1 .. Len(g) /\ Len(g) \in Nat /\ DOMAIN g = 1 .. n
  BY <1>1, LenProperties
<1> QED
  BY <1>1, <1>2

\* What the loops and the returning calls leave of the stack.
LEMMA RestTyped ==
  ASSUME TypeOK, stack # <<>>
  PROVE  /\ Len(stack) \in Nat \ {0}
         /\ Rest \in Seq(Frame)
         /\ Len(Rest) = Len(stack) - 1
         /\ \A i \in 1 .. (Len(stack) - 1) : Rest[i] = stack[i]
         /\ Top \in Frame
<1> DEFINE n == Len(stack) - 1
<1>1. n \in Nat /\ n \in 0 .. Len(stack) /\ \A i \in 1 .. n : stack[i] \in Frame
  BY StackTyped
<1>2. Rest = [i \in 1 .. n |-> stack[i]]
  BY <1>1, StackTyped, SubSeqRestrict DEF Rest, Restrict
<1>3. Len(stack) \in Nat \ {0} /\ Top \in Frame
  BY StackTyped DEF Top
<1>4. Rest \in [1 .. n -> Frame]
  BY <1>1, <1>2
<1>5. Rest \in Seq(Frame) /\ Len(Rest) = n
  <2> HIDE DEF n
  <2> QED
    BY <1>1, <1>4, FunctionIsSeq
<1> QED
  BY <1>2, <1>3, <1>5

LEMMA AppendPushed ==
  ASSUME TypeOK, NEW m \in 0 .. Len(stack), NEW s \in [1 .. m -> Frame], NEW f \in Frame,
         NEW gone, NEW started,
         \A i \in 1 .. m : Carried(stack[i], s[i], gone, started),
         stack' = Append(s, f)
  PROVE  Pushed(m, f, gone, started)
<1>1. m \in Nat
  BY StackTyped
<1>2. s \in Seq(Frame) /\ Len(s) = m
  BY <1>1, FunctionIsSeq
<1>3. /\ stack' \in Seq(Frame)
      /\ Len(stack') = m + 1
      /\ \A i \in 1 .. m : stack'[i] = s[i]
      /\ stack'[m + 1] = f
  BY <1>2, AppendProperties
<1> QED
  BY <1>3 DEF Pushed, CarriedOver

LEMMA FunctionPopped ==
  ASSUME TypeOK, NEW m \in 0 .. Len(stack), NEW s \in [1 .. m -> Frame],
         NEW gone, NEW started,
         \A i \in 1 .. m : Carried(stack[i], s[i], gone, started),
         stack' = s
  PROVE  Popped(m, gone, started)
<1>1. m \in Nat
  BY StackTyped
<1>2. s \in Seq(Frame) /\ Len(s) = m
  BY <1>1, FunctionIsSeq
<1> QED
  BY <1>2 DEF Popped, CarriedOver

\* A call of the client leaves the stack as deep as it may be.
LEMMA PushedTyped ==
  ASSUME TypeOK, NEW op, MayCall(op), NEW f, NEW gone, NEW started,
         Pushed(Len(stack), f, gone, started)
  PROVE  /\ stack' \in Seq(Frame) /\ Len(stack') <= MaxDepth
         /\ Len(stack) # 0 => op \in client.inside
BY StackTyped, ListenerAssumption DEF MayCall, Pushed, CarriedOver

-----------------------------------------------------------------------------
(* What each action does to the stack, and that its variables keep their types. *)

LEMMA SetTimerShape ==
  ASSUME TypeOK, NEW id \in Ids, SetTimer(id)
  PROVE  TypeOK' /\ Pushed(Len(stack), Call("leave", id, {}), Flushed, {})
<1>1. PICK rehash \in BOOLEAN, comes \in BOOLEAN :
        stack' = Append([i \in DOMAIN stack |->
                           AfterInsert(Below(Flushed, {})[i], id, rehash, comes)],
                        Call("leave", id, {}))
  BY DEF SetTimer
<1> DEFINE s == [i \in 1 .. Len(stack) |->
                   AfterInsert(Disturbed(stack[i], Flushed, {}), id, rehash, comes)]
<1>2. stack' = Append(s, Call("leave", id, {}))
  BY <1>1, StackTyped DEF Below
<1>3. Flushed \in SUBSET Ids /\ {} \in SUBSET Ids
  BY DEF Flushed, TypeOK
<1>4. \A i \in 1 .. Len(stack) : Carried(stack[i], s[i], Flushed, {})
  <2> TAKE i \in 1 .. Len(stack)
  <2> DEFINE g == Disturbed(stack[i], Flushed, {})
             h == AfterInsert(g, id, rehash, comes)
  <2>1. Carried(stack[i], g, Flushed, {})
    BY <1>3, StackTyped, DisturbedCarried
  <2>2. Carried(g, h, {}, {})
    <3>1. g \in Frame
      BY <2>1 DEF Carried
    <3>2. Calls({"set"})
      BY StackTyped DEF SetTimer, MayCall, Calls
    <3> HIDE DEF g
    <3> QED
      BY <3>1, <3>2, AfterInsertCarried
  <2>3. Carried(stack[i], h, Flushed, {})
    <3> HIDE DEF g, h
    <3> QED
      BY <2>1, <2>2, CarriedTwice
  <2>4. s[i] = h
    OBVIOUS
  <2> QED
    BY <2>3, <2>4
<1>5. Pushed(Len(stack), Call("leave", id, {}), Flushed, {})
  <2>1. s \in [1 .. Len(stack) -> Frame]
    BY <1>4 DEF Carried
  <2>2. Call("leave", id, {}) \in Frame
    BY <1>3, CallTyped DEF Places
  <2>3. Len(stack) \in 0 .. Len(stack)
    BY StackTyped
  <2> HIDE DEF s
  <2> QED
    BY <1>2, <1>4, <2>1, <2>2, <2>3, AppendPushed
<1>6. timers' \in [Ids -> TimerStatus] /\ pending' \subseteq Ids /\ client' \in Clients
  BY DEF SetTimer, PendingAfterFlush, TypeOK, TimerStatus
<1> QED
  BY <1>5, <1>6, PushedTyped DEF SetTimer, TypeOK

\* A call that the listener is told about puts itself on top of the stack.
LEMMA CallPushed ==
  ASSUME TypeOK, NEW at \in Places, NEW id \in Ids, NEW todo \in SUBSET Ids,
         stack' = Append(stack, Call(at, id, todo))
  PROVE  Pushed(Len(stack), Call(at, id, todo), {}, {})
<1>1. stack \in [1 .. Len(stack) -> Frame] /\ Len(stack) \in 0 .. Len(stack)
  BY StackTyped, LenProperties
<1>2. \A i \in 1 .. Len(stack) : Carried(stack[i], stack[i], {}, {})
  BY StackTyped, SameCarried
<1> QED
  BY <1>1, <1>2, CallTyped, AppendPushed

LEMMA CancelTimerShape ==
  ASSUME TypeOK, NEW id \in Ids, CancelTimer(id)
  PROVE  TypeOK' /\ Pushed(Len(stack), Call("cancel", id, {}), {}, {})
<1>1. Pushed(Len(stack), Call("cancel", id, {}), {}, {})
  BY CallPushed DEF CancelTimer, Places
<1>2. timers' \in [Ids -> TimerStatus] /\ pending' \subseteq Ids /\ client' \in Clients
  BY DEF CancelTimer, TypeOK, TimerStatus
<1> QED
  BY <1>1, <1>2, PushedTyped DEF CancelTimer, TypeOK

LEMMA PauseTimerShape ==
  ASSUME TypeOK, NEW id \in Ids, PauseTimer(id)
  PROVE  TypeOK' /\ Pushed(Len(stack), Call("leave", id, {}), {}, {})
<1>1. Pushed(Len(stack), Call("leave", id, {}), {}, {})
  BY CallPushed DEF PauseTimer, Places
<1>2. timers' \in [Ids -> TimerStatus] /\ pending' \subseteq Ids /\ client' \in Clients
  BY DEF PauseTimer, TypeOK, TimerStatus
<1> QED
  BY <1>1, <1>2, PushedTyped DEF PauseTimer, TypeOK

LEMMA RestartShape ==
  ASSUME TypeOK, NEW op, MayCall(op), NEW id \in Ids, Restart(id)
  PROVE  TypeOK' /\ Pushed(Len(stack), Call("leave", id, {}), {}, {id})
<1> DEFINE s == [i \in 1 .. Len(stack) |-> Disturbed(stack[i], {}, {id})]
<1>1. stack' = Append(s, Call("leave", id, {}))
  BY StackTyped DEF Restart, Below
<1>2. \A i \in 1 .. Len(stack) : Carried(stack[i], s[i], {}, {id})
  BY StackTyped, DisturbedCarried
<1>3. Pushed(Len(stack), Call("leave", id, {}), {}, {id})
  <2>1. s \in [1 .. Len(stack) -> Frame]
    BY <1>2 DEF Carried
  <2>2. Call("leave", id, {}) \in Frame
    BY CallTyped DEF Places
  <2>3. Len(stack) \in 0 .. Len(stack)
    BY StackTyped
  <2> HIDE DEF s
  <2> QED
    BY <1>1, <1>2, <2>1, <2>2, <2>3, AppendPushed
<1>4. timers' \in [Ids -> TimerStatus] /\ pending' \subseteq Ids /\ client' \in Clients
  BY DEF Restart, TypeOK, TimerStatus
<1> QED
  BY <1>3, <1>4, PushedTyped DEF TypeOK

LEMMA FireShape ==
  ASSUME TypeOK, NEW id \in Ids, NEW stop \in BOOLEAN, Fire(id, stop)
  PROVE  /\ TypeOK'
         /\ \E f \in Frame : /\ Pushed(0, f, {}, {})
                             /\ f.at = "fired" /\ f.id = id /\ f.stop = stop
                             /\ f.good /\ f.closure
<1> DEFINE c == Call("fired", id, {})
           f == [c EXCEPT !.stop = stop]
<1>1. c \in Frame /\ c.at = "fired" /\ c.id = id /\ c.good /\ c.closure
  <2>1. "fired" \in Places
    BY DEF Places
  <2>2. c \in Frame
    BY <2>1, CallTyped
  <2>3. c.at = "fired" /\ c.id = id /\ c.good /\ c.closure
    BY DEF Call
  <2> QED
    BY <2>2, <2>3
<1>2. f \in Frame /\ f.at = "fired" /\ f.id = id /\ f.stop = stop /\ f.good /\ f.closure
  <2> HIDE DEF c
  <2> QED
    BY <1>1 DEF Frame
<1>3. stack' = <<f>> /\ stack = <<>>
  BY DEF Fire
<1>4. stack' \in Seq(Frame) /\ Len(stack') = 1 /\ stack'[1] = f
  <2> HIDE DEF f
  <2> QED
    BY <1>2, <1>3
<1>5. Pushed(0, f, {}, {})
  <2> HIDE DEF f
  <2> QED
    BY <1>2, <1>4, StackTyped DEF Pushed, CarriedOver
<1>6. timers' \in [Ids -> TimerStatus] /\ pending' \subseteq Ids /\ client' \in Clients
  BY DEF Fire, TypeOK, TimerStatus
<1> HIDE DEF f
<1> QED
  BY <1>2, <1>4, <1>5, <1>6, ListenerAssumption DEF TypeOK

LEMMA LeaveShape ==
  ASSUME TypeOK, Leave
  PROVE  /\ TypeOK'
         /\ \/ Popped(Len(stack) - 1, {}, {})
            \/ \E f \in Frame :
                 /\ Pushed(Len(stack) - 1, f, {}, {})
                 /\ Top.at \in {"fired", "expired"} /\ Top.good /\ Top.closure
                 /\ f.at = (IF Top.stop /\ Top.at = "fired" THEN "expired" ELSE "callback")
                 /\ f.id = Top.id /\ f.stop = Top.stop /\ f.good = Top.good
                 /\ f.closure = Top.closure
<1> DEFINE n == Len(stack)
           m == Len(stack) - 1
<1>1. /\ n \in Nat \ {0} /\ m \in 0 .. n /\ Top \in Frame
      /\ stack \in [1 .. n -> Frame]
      /\ \A i \in 1 .. m : Carried(stack[i], stack[i], {}, {})
  BY RestTyped, StackTyped, LenProperties, SameCarried DEF Leave
<1>2. Top = stack[n] /\ n <= MaxDepth /\ n = m + 1
  BY <1>1 DEF TypeOK, Top
<1>3. timers' \in [Ids -> TimerStatus] /\ pending' \subseteq Ids /\ client' \in Clients
  BY DEF Leave, TypeOK
<1>4. CASE Top.at = "leave" /\ stack' = Rest
  <2>1. stack' \in Seq(Frame) /\ Len(stack') = m /\ \A i \in 1 .. m : stack'[i] = stack[i]
    BY <1>4, RestTyped DEF Leave
  <2>2. Popped(m, {}, {})
    BY <1>1, <2>1 DEF Popped, CarriedOver
  <2>3. Len(stack') <= MaxDepth
    BY <1>1, <1>2, <2>1, ListenerAssumption
  <2> QED
    BY <1>3, <2>1, <2>2, <2>3 DEF TypeOK
<1>5. CASE /\ Top.at \in {"fired", "expired"} /\ Top.good /\ Top.closure
           /\ stack' = [stack EXCEPT ![n].at =
                          IF Top.stop /\ Top.at = "fired" THEN "expired" ELSE "callback"]
  <2> DEFINE a == IF Top.stop /\ Top.at = "fired" THEN "expired" ELSE "callback"
             f == [Top EXCEPT !.at = a]
  <2>1. a \in Places
    BY DEF Places
  <2>2. /\ f \in Frame
        /\ f.at = a /\ f.id = Top.id /\ f.stop = Top.stop /\ f.good = Top.good
        /\ f.closure = Top.closure
    <3> HIDE DEF a
    <3> QED
      BY <1>1, <2>1 DEF Frame
  <2>3. stack' = [stack EXCEPT ![n] = f]
    BY <1>2, <1>5
  <2>4. /\ stack' \in [1 .. n -> Frame]
        /\ \A i \in 1 .. m : stack'[i] = stack[i]
        /\ stack'[n] = f
    <3> HIDE DEF f, n, m
    <3> QED
      BY <1>1, <1>2, <2>2, <2>3
  <2>5. stack' \in Seq(Frame) /\ Len(stack') = n
    <3> HIDE DEF n
    <3> QED
      BY <1>1, <2>4, FunctionIsSeq
  <2>6. Pushed(m, f, {}, {})
    <3> HIDE DEF f, n, m
    <3> QED
      BY <1>1, <1>2, <2>2, <2>4, <2>5 DEF Pushed, CarriedOver, n
  <2>7. TypeOK'
    BY <1>2, <1>3, <2>5 DEF TypeOK
  <2>8. \E g \in Frame :
          /\ Pushed(m, g, {}, {})
          /\ g.at = a /\ g.id = Top.id /\ g.stop = Top.stop /\ g.good = Top.good
          /\ g.closure = Top.closure
    <3> HIDE DEF f, a, m
    <3> QED
      BY <2>2, <2>6
  <2> QED
    BY <1>5, <2>7, <2>8
<1> QED
  BY <1>4, <1>5 DEF Leave

LEMMA NoteRemovalShape ==
  ASSUME TypeOK, NoteRemoval
  PROVE  TypeOK' /\ Popped(Len(stack) - 1, {}, {})
<1> DEFINE m == Len(stack) - 1
<1>1. /\ Len(stack) \in Nat \ {0} /\ m \in 0 .. Len(stack) /\ Top \in Frame
      /\ \A i \in 1 .. m : Carried(stack[i], stack[i], {}, {})
  BY RestTyped, StackTyped, SameCarried DEF NoteRemoval
<1>2. stack' \in Seq(Frame) /\ Len(stack') = m /\ \A i \in 1 .. m : stack'[i] = stack[i]
  BY RestTyped DEF NoteRemoval
<1>3. Popped(m, {}, {})
  BY <1>1, <1>2 DEF Popped, CarriedOver
<1>4. Len(stack') <= MaxDepth
  BY <1>1, <1>2, ListenerAssumption DEF TypeOK
<1>5. Top.id \in Ids
  BY <1>1 DEF Frame
<1>6. timers' \in [Ids -> TimerStatus] /\ pending' \subseteq Ids /\ client' \in Clients
  BY <1>5 DEF NoteRemoval, TypeOK
<1> QED
  BY <1>2, <1>3, <1>4, <1>6 DEF TypeOK

-----------------------------------------------------------------------------
(* One lemma for the loops, whether they begin or go on: of the stack the first m calls are *)
(* below the loop.                                                                          *)

\* What begins a loop and what returns to it leave it the same to do.
LoopFrom(op, m, todo) ==
  /\ op \in Loops /\ todo \in SUBSET Ids
  /\ m \in 0 .. Len(stack) /\ m < MaxDepth
  /\ m # 0 => op \in client.inside
  /\ op = "cancelAll" /\ LeftToCancel /\ Orderly /\ ~Calls({"set"}) =>
       \A id \in Ids : Live(id) => id \in todo
  /\ pending' \subseteq pending /\ client' = client

\* The next entry, past some the loop does not change.
Onward(op, m, todo) ==
  \E id \in todo, passed \in SUBSET todo :
    /\ Changes(op, id) /\ \A i \in passed : ~Changes(op, i)
    /\ timers' = [timers EXCEPT ![id] = ChangedTo(op)]
    /\ Pushed(m, Call(op, id, todo \ ({id} \cup passed)), {},
              IF op = "resumeAll" THEN {id} ELSE {})

\* None is left.
Done(op, m, todo) ==
  /\ \A i \in todo : ~Changes(op, i)
  /\ timers' = IF op = "cancelAll" THEN [id \in Ids |-> "absent"] ELSE timers
  /\ Popped(m, IF op = "cancelAll" THEN Ids ELSE {}, {})

LEMMA LoopNextShape ==
  ASSUME TypeOK, NEW op \in Loops, NEW below \in Seq(Frame), NEW todo \in SUBSET Ids,
         NEW m \in 0 .. Len(stack), Len(below) = m,
         \A i \in 1 .. m : below[i] = stack[i],
         LoopNext(op, below, todo)
  PROVE  Onward(op, m, todo)
<1>1. PICK id \in {i \in todo : Changes(op, i)}, passed \in SUBSET {i \in todo : ~Changes(op, i)} :
        /\ timers' = [timers EXCEPT ![id] = ChangedTo(op)]
        /\ stack' = Append([i \in DOMAIN below |->
                              Disturbed(below[i], {}, IF op = "resumeAll" THEN {id} ELSE {})],
                           Call(op, id, todo \ ({id} \cup passed)))
  BY DEF LoopNext
<1> DEFINE started == IF op = "resumeAll" THEN {id} ELSE {}
           s == [i \in 1 .. m |-> Disturbed(below[i], {}, started)]
           f == Call(op, id, todo \ ({id} \cup passed))
<1>2. stack' = Append(s, f)
  BY <1>1, LenProperties
<1>3. \A i \in 1 .. m : Carried(stack[i], s[i], {}, started)
  <2>1. started \in SUBSET Ids
    OBVIOUS
  <2> HIDE DEF started
  <2> QED
    BY <2>1, StackTyped, DisturbedCarried
<1>4. s \in [1 .. m -> Frame]
  <2> HIDE DEF started
  <2> QED
    BY <1>3 DEF Carried
<1>5. f \in Frame
  <2>1. op \in Places
    BY DEF Places
  <2> QED
    BY <2>1, CallTyped
<1>6. Pushed(m, f, {}, started)
  <2> HIDE DEF s, f, started
  <2> QED
    BY <1>2, <1>3, <1>4, <1>5, AppendPushed
<1> QED
  BY <1>1, <1>6 DEF Onward

LEMMA LoopDoneShape ==
  ASSUME TypeOK, NEW op \in Loops, NEW below \in Seq(Frame), NEW todo \in SUBSET Ids,
         NEW m \in 0 .. Len(stack), Len(below) = m,
         \A i \in 1 .. m : below[i] = stack[i],
         LoopDone(op, below, todo)
  PROVE  Done(op, m, todo)
<1>1. CASE op = "cancelAll"
  <2> DEFINE s == [i \in 1 .. m |-> [Disturbed(below[i], Ids, {}) EXCEPT !.closure = FALSE]]
  <2>1. stack' = s
    BY <1>1, LenProperties DEF LoopDone
  <2>2. \A i \in 1 .. m : Carried(stack[i], s[i], Ids, {})
    <3> TAKE i \in 1 .. m
    <3> DEFINE g == Disturbed(stack[i], Ids, {})
               h == [g EXCEPT !.closure = FALSE]
    <3>1. stack[i] \in Frame /\ below[i] = stack[i]
      BY StackTyped
    <3>2. Carried(stack[i], g, Ids, {})
      BY <3>1, DisturbedCarried
    <3>3. stack[i].id \in Ids
      BY <3>1 DEF Frame
    <3>4. Carried(stack[i], h, Ids, {})
      <4> HIDE DEF g
      <4>1. /\ h \in Frame /\ h.at = g.at /\ h.id = g.id /\ h.stop = g.stop /\ h.todo = g.todo
        BY <3>2 DEF Frame, Carried
      <4> HIDE DEF h
      <4> QED
        BY <3>2, <3>3, <4>1 DEF Carried
    <3>5. s[i] = h
      BY <3>1, Zenon
    <3> QED
      BY <3>4, <3>5
  <2>3. s \in [1 .. m -> Frame]
    BY <2>2 DEF Carried
  <2>4. Popped(m, Ids, {})
    <3> HIDE DEF s
    <3> QED
      BY <2>1, <2>2, <2>3, FunctionPopped
  <2> QED
    BY <1>1, <2>4 DEF Done, LoopDone
<1>2. CASE op # "cancelAll"
  <2>1. stack' = below
    BY <1>2 DEF LoopDone
  <2>2. Popped(m, {}, {})
    BY <2>1, StackTyped, SameCarried DEF Popped, CarriedOver
  <2> QED
    BY <1>2, <2>2 DEF Done, LoopDone
<1> QED
  BY <1>1, <1>2

\* The frame of a loop, and the types of what the loop changes.
LEMMA LoopTyped ==
  ASSUME TypeOK, NEW op, NEW m, NEW todo, LoopFrom(op, m, todo),
         Onward(op, m, todo) \/ Done(op, m, todo)
  PROVE  TypeOK'
<1>1. pending' \subseteq Ids /\ client' \in Clients
  BY DEF LoopFrom, TypeOK
<1>2. CASE Onward(op, m, todo)
  <2>1. ChangedTo(op) \in TimerStatus
    BY DEF LoopFrom, ChangedTo, TimerStatus
  <2>2. timers' \in [Ids -> TimerStatus]
    BY <1>2, <2>1 DEF Onward, TypeOK
  <2>3. stack' \in Seq(Frame) /\ Len(stack') <= MaxDepth
    BY <1>2, StackTyped, ListenerAssumption DEF Onward, Pushed, CarriedOver, LoopFrom
  <2> QED
    BY <1>1, <2>2, <2>3 DEF TypeOK
<1>3. CASE Done(op, m, todo)
  <2>1. timers' \in [Ids -> TimerStatus]
    BY <1>3 DEF Done, TypeOK, TimerStatus
  <2>2. stack' \in Seq(Frame) /\ Len(stack') <= MaxDepth
    BY <1>3, StackTyped, ListenerAssumption DEF Done, Popped, CarriedOver, LoopFrom
  <2> QED
    BY <1>1, <2>1, <2>2 DEF TypeOK
<1> QED
  BY <1>2, <1>3

LEMMA StartLoopShape ==
  ASSUME TypeOK, NEW op \in Loops, StartLoop(op)
  PROVE  \E m, todo : LoopFrom(op, m, todo) /\ (Onward(op, m, todo) \/ Done(op, m, todo))
<1> DEFINE all == {id \in Ids : Exists(id)}
           n == Len(stack)
<1>1. all \in SUBSET Ids /\ n \in 0 .. n /\ n < MaxDepth /\ (n # 0 => op \in client.inside)
  BY StackTyped, ListenerAssumption DEF StartLoop, MayCall
<1>2. \A id \in Ids : Live(id) => id \in all
  BY DEF Live, Exists
<1>3. pending' \subseteq pending /\ client' = client
  BY DEF StartLoop
<1>4. LoopNext(op, stack, all) \/ LoopDone(op, stack, all)
  BY DEF StartLoop
<1>5. LoopFrom(op, n, all)
  <2> HIDE DEF all, n
  <2> QED
    BY <1>1, <1>2, <1>3 DEF LoopFrom, n
<1>6. Onward(op, n, all) \/ Done(op, n, all)
  <2> HIDE DEF all
  <2> QED
    BY <1>1, <1>4, StackTyped, LoopNextShape, LoopDoneShape
<1> QED
  BY <1>5, <1>6

LEMMA ContinueLoopShape ==
  ASSUME TypeOK, NestedAsAllowed, ContinueLoop
  PROVE  \E op, m, todo : LoopFrom(op, m, todo) /\ (Onward(op, m, todo) \/ Done(op, m, todo))
<1> DEFINE op == Top.at
           todo == Top.todo
           m == Len(stack) - 1
<1>1. /\ Len(stack) \in Nat \ {0} /\ Len(stack) <= MaxDepth /\ Top \in Frame
      /\ Top = stack[Len(stack)] /\ Len(stack) \in DOMAIN stack
  BY RestTyped, StackTyped DEF ContinueLoop, Top, TypeOK
<1>2. op \in Loops /\ todo \in SUBSET Ids /\ m \in 0 .. Len(stack) /\ m < MaxDepth
  BY <1>1, ListenerAssumption DEF ContinueLoop, Frame
<1>3. m # 0 => op \in client.inside
  <2>1. m # 0 => Len(stack) # 1
    BY <1>1
  <2>2. \A i \in DOMAIN stack : i # 1 /\ stack[i].at \in Loops => stack[i].at \in client.inside
    BY DEF NestedAsAllowed
  <2> HIDE DEF m
  <2> QED
    BY <1>1, <1>2, <2>1, <2>2, Zenon
<1>4. op = "cancelAll" /\ LeftToCancel /\ Orderly /\ ~Calls({"set"}) =>
        \A id \in Ids : Live(id) => id \in todo
  BY <1>1 DEF LeftToCancel
<1>5. pending' \subseteq pending /\ client' = client
  BY DEF ContinueLoop
<1>6. LoopFrom(op, m, todo)
  <2> HIDE DEF op, todo, m
  <2> QED
    BY <1>2, <1>3, <1>4, <1>5 DEF LoopFrom
<1>7. Onward(op, m, todo) \/ Done(op, m, todo)
  <2>1. LoopNext(op, Rest, todo) \/ LoopDone(op, Rest, todo)
    BY DEF ContinueLoop
  <2>2. Rest \in Seq(Frame) /\ Len(Rest) = m /\ \A i \in 1 .. m : Rest[i] = stack[i]
    BY RestTyped DEF ContinueLoop
  <2> HIDE DEF op, todo, m
  <2> QED
    BY <1>2, <2>1, <2>2, LoopNextShape, LoopDoneShape
<1> QED
  BY <1>6, <1>7

-----------------------------------------------------------------------------
(* The clients. *)

\* The kinds of client the properties distinguish, by the operations they call.
LEMMA KindsOfClients ==
  /\ \A op : Calls({op}) <=> op \in client.inside
  /\ Gentle => /\ ClearsOrSets /\ Orderly
               /\ "cancelAll" \notin client.inside /\ "reschedule" \notin client.inside
               /\ "pause" \in client.inside \/ "pauseAll" \in client.inside =>
                    ~Calls({"resume", "resumeAll"})
               /\ "cancel" \in client.inside => ~Calls({"set"})
  /\ "resume" \in client.inside \/ "resumeAll" \in client.inside =>
       Calls({"resume", "resumeAll"})
  /\ ClearsOrSets => Orderly /\ ("cancelAll" \in client.inside => ~Calls({"set"}))
  /\ Calls({"set"}) \/ "cancelAll" \in client.inside => Calls({"set", "cancelAll"})
BY DEF Calls, Gentle, ClearsOrSets, Orderly

LEMMA ClientStays ==
  ASSUME client' = client
  PROVE  /\ Gentle' <=> Gentle
         /\ ClearsOrSets' <=> ClearsOrSets
         /\ Orderly' <=> Orderly
         /\ Calls({"set"})' <=> Calls({"set"})
         /\ Calls({"set", "cancelAll"})' <=> Calls({"set", "cancelAll"})
         /\ Calls({"resume", "resumeAll"})' <=> Calls({"resume", "resumeAll"})
BY DEF Calls, Gentle, ClearsOrSets, Orderly

-----------------------------------------------------------------------------
(* When a step keeps each part of the invariant: what it may do to the calls it carries     *)
(* over, and what the call on top of them has to satisfy.                                   *)

\* The first m calls carried over, and at most one of F on top of them.
Becomes(m, F, gone, started) ==
  /\ CarriedOver(m, gone, started)
  /\ \/ Len(stack') = m
     \/ Len(stack') = m + 1 /\ stack'[m + 1] \in F

LEMMA PoppedBecomes ==
  ASSUME NEW m, NEW gone, NEW started, Popped(m, gone, started)
  PROVE  Becomes(m, {}, gone, started)
BY DEF Popped, Becomes

LEMMA PushedBecomes ==
  ASSUME NEW m, NEW f, NEW gone, NEW started, Pushed(m, f, gone, started)
  PROVE  Becomes(m, {f}, gone, started)
BY DEF Pushed, Becomes

LEMMA CallsAfter ==
  ASSUME TypeOK, TypeOK', NEW m, NEW F, NEW gone, NEW started, Becomes(m, F, gone, started),
         NEW i \in DOMAIN stack'
  PROVE  \/ /\ i \in 1 .. m /\ i \in DOMAIN stack
            /\ Carried(stack[i], stack'[i], gone, started)
            /\ Notes(stack'[i]) <=> Notes(stack[i])
         \/ i = m + 1 /\ stack'[i] \in F
<1>1. DOMAIN stack' = 1 .. Len(stack') /\ Len(stack') \in Nat
  BY LenProperties DEF TypeOK
<1>2. m \in 0 .. Len(stack) /\ \A j \in 1 .. m : Carried(stack[j], stack'[j], gone, started)
  BY DEF Becomes, CarriedOver
<1>3. Len(stack) \in Nat /\ DOMAIN stack = 1 .. Len(stack)
  BY StackTyped
<1>4. CASE i \in 1 .. m
  <2>1. i \in DOMAIN stack /\ Carried(stack[i], stack'[i], gone, started)
    BY <1>2, <1>3, <1>4
  <2> QED
    BY <1>4, <2>1 DEF Carried, Notes
<1>5. CASE i \notin 1 .. m
  <2>1. Len(stack') = m \/ (Len(stack') = m + 1 /\ stack'[m + 1] \in F)
    BY DEF Becomes
  <2>2. m \in Nat /\ i \in 1 .. Len(stack')
    BY <1>1, <1>2, <1>3
  <2>3. Len(stack') # m
    BY <1>5, <2>2
  <2>4. i = m + 1
    BY <1>5, <2>1, <2>2, <2>3
  <2> QED
    BY <2>1, <2>3, <2>4
<1> QED
  BY <1>4, <1>5

LEMMA PlacesKept ==
  ASSUME TypeOK, TypeOK', WrapperIsFirst, NestedAsAllowed, client' = client,
         NEW m \in Nat, NEW F, NEW gone, NEW started, Becomes(m, F, gone, started),
         \A f \in F : /\ f.at \in Wrappers => m = 0
                      /\ m # 0 /\ f.at \in Loops \cup {"cancel"} => f.at \in client.inside
  PROVE  WrapperIsFirst' /\ NestedAsAllowed'
<1> SUFFICES ASSUME NEW i \in DOMAIN stack'
             PROVE  /\ stack'[i].at \in Wrappers => i = 1
                    /\ i # 1 /\ stack'[i].at \in Loops \cup {"cancel"} =>
                         stack'[i].at \in client.inside
  BY DEF WrapperIsFirst, NestedAsAllowed
<1>1. CASE i \in DOMAIN stack /\ Carried(stack[i], stack'[i], gone, started)
  BY <1>1 DEF Carried, WrapperIsFirst, NestedAsAllowed
<1>2. CASE i = m + 1 /\ stack'[i] \in F
  BY <1>2
<1> QED
  BY <1>1, <1>2, CallsAfter

LEMMA NotedKept ==
  ASSUME TypeOK, TypeOK', NotedHasEnded, client' = client,
         NEW m \in Nat, NEW F, NEW gone, NEW started, Becomes(m, F, gone, started),
         ClearsOrSets =>
           \A i \in 1 .. m : Notes(stack[i]) =>
             /\ timers'[stack[i].id] \notin {"Running", "Paused"}
             /\ Calls({"set"}) =>
                  timers'[stack[i].id] # "absent" /\ stack[i].id \notin pending',
         ClearsOrSets =>
           \A f \in F : Notes(f) =>
             /\ timers'[f.id] \notin {"Running", "Paused"}
             /\ Calls({"set"}) =>
                  /\ timers'[f.id] # "absent" /\ f.id \notin pending'
                  /\ \A i \in 1 .. m : Notes(stack[i]) => stack[i].id # f.id
  PROVE  NotedHasEnded'
<1> SUFFICES ASSUME ClearsOrSets
             PROVE  /\ \A i \in DOMAIN stack' : Notes(stack'[i]) =>
                         timers'[stack'[i].id] \notin {"Running", "Paused"}
                    /\ Calls({"set"}) =>
                         /\ \A i \in DOMAIN stack' : Notes(stack'[i]) =>
                              timers'[stack'[i].id] # "absent" /\ stack'[i].id \notin pending'
                         /\ \A i, j \in DOMAIN stack' :
                              Notes(stack'[i]) /\ Notes(stack'[j]) /\ i # j =>
                                stack'[i].id # stack'[j].id
  BY ClientStays DEF NotedHasEnded, Notes, Live, Exists
<1>1. \A i \in DOMAIN stack' :
        \/ /\ i \in 1 .. m /\ i \in DOMAIN stack /\ stack'[i].id = stack[i].id
           /\ Notes(stack'[i]) <=> Notes(stack[i])
        \/ i = m + 1 /\ stack'[i] \in F
  BY CallsAfter DEF Carried
<1>2. ASSUME NEW i \in DOMAIN stack', Notes(stack'[i])
      PROVE  /\ timers'[stack'[i].id] \notin {"Running", "Paused"}
             /\ Calls({"set"}) =>
                  timers'[stack'[i].id] # "absent" /\ stack'[i].id \notin pending'
  BY <1>1, <1>2
<1>3. ASSUME NEW i \in DOMAIN stack', NEW j \in DOMAIN stack', Calls({"set"}),
             Notes(stack'[i]), Notes(stack'[j]), i # j
      PROVE  stack'[i].id # stack'[j].id
  BY <1>1, <1>3 DEF NotedHasEnded
<1> QED
  BY <1>2, <1>3

LEMMA LeftToCancelKept ==
  ASSUME TypeOK, TypeOK', LeftToCancel, client' = client,
         NEW m \in Nat, NEW F, NEW gone, NEW started, Becomes(m, F, gone, started),
         Orderly /\ ~Calls({"set"}) =>
           /\ m # 0 => \A id \in Ids : Live(id)' => Live(id) /\ id \notin gone
           /\ \A f \in F : f.at = "cancelAll" => \A id \in Ids : Live(id)' => id \in f.todo
  PROVE  LeftToCancel'
<1> SUFFICES ASSUME Orderly, ~Calls({"set"}), NEW i \in DOMAIN stack', stack'[i].at = "cancelAll",
                    NEW id \in Ids, Live(id)'
             PROVE  id \in stack'[i].todo
  BY ClientStays DEF LeftToCancel
<1>1. CASE i \in 1 .. m /\ i \in DOMAIN stack /\ Carried(stack[i], stack'[i], gone, started)
  BY <1>1 DEF Carried, LeftToCancel
<1>2. CASE i = m + 1 /\ stack'[i] \in F
  BY <1>2
<1> QED
  BY <1>1, <1>2, CallsAfter

LEMMA UntouchedKept ==
  ASSUME TypeOK, TypeOK', WrapperUntouched, client' = client,
         NEW m \in Nat, NEW F, NEW gone, NEW started, Becomes(m, F, gone, started),
         Gentle =>
           \A i \in 1 .. m : stack[i].at \in {"fired", "expired"} =>
             /\ stack[i].id \notin gone \cup started
             /\ Calls({"resume", "resumeAll"}) => timers'[stack[i].id] # "Paused"
             /\ Calls({"set"}) => stack[i].id \notin pending',
         Gentle =>
           \A f \in F : f.at \in {"fired", "expired"} =>
             /\ f.good /\ f.closure
             /\ Calls({"resume", "resumeAll"}) => timers'[f.id] # "Paused"
             /\ Calls({"set"}) => f.id \notin pending'
  PROVE  WrapperUntouched'
<1> SUFFICES ASSUME Gentle, NEW i \in DOMAIN stack', stack'[i].at \in {"fired", "expired"}
             PROVE  /\ stack'[i].good /\ stack'[i].closure
                    /\ Calls({"resume", "resumeAll"}) => timers'[stack'[i].id] # "Paused"
                    /\ Calls({"set"}) => stack'[i].id \notin pending'
  BY ClientStays DEF WrapperUntouched
<1>1. CASE i \in 1 .. m /\ i \in DOMAIN stack /\ Carried(stack[i], stack'[i], gone, started)
  <2>1. stack[i].at = stack'[i].at /\ stack[i].id = stack'[i].id
    BY <1>1 DEF Carried
  <2>2. stack[i].good /\ stack[i].closure
    BY <1>1, <2>1 DEF WrapperUntouched
  <2> QED
    BY <1>1, <2>1, <2>2 DEF Carried, Wrappers
<1>2. CASE i = m + 1 /\ stack'[i] \in F
  BY <1>2
<1> QED
  BY <1>1, <1>2, CallsAfter

LEMMA IteratorsStay ==
  ASSUME TypeOK, TypeOK', IteratorsKept, client' = client,
         NEW m \in Nat, NEW F, NEW gone, NEW started, Becomes(m, F, gone, started),
         m # 0 /\ ~Calls({"set", "cancelAll"}) => gone = {},
         \A f \in F : f.at \in Loops => f.good
  PROVE  IteratorsKept'
<1> SUFFICES ASSUME ~Calls({"set", "cancelAll"}), NEW i \in DOMAIN stack', stack'[i].at \in Loops
             PROVE  stack'[i].good
  BY ClientStays DEF IteratorsKept
<1>1. CASE i \in 1 .. m /\ i \in DOMAIN stack /\ Carried(stack[i], stack'[i], gone, started)
  <2>1. stack[i].at = stack'[i].at /\ stack[i].good
    BY <1>1 DEF Carried, IteratorsKept
  <2>2. gone = {} /\ ~Calls({"set"})
    BY <1>1, KindsOfClients
  <2> QED
    BY <1>1, <2>1, <2>2 DEF Carried
<1>2. CASE i = m + 1 /\ stack'[i] \in F
  BY <1>2
<1> QED
  BY <1>1, <1>2, CallsAfter

-----------------------------------------------------------------------------
(* Each action keeps the invariant. *)

LEMMA SetTimerKeeps ==
  ASSUME IndInv, NEW id \in Ids, SetTimer(id)
  PROVE  IndInv'
<1> DEFINE n == Len(stack)
           c == Call("leave", id, {})
<1>1. TypeOK' /\ Becomes(n, {c}, Flushed, {}) /\ n \in Nat
  BY SetTimerShape, PushedBecomes, StackTyped DEF IndInv
<1>2. c.at = "leave" /\ ~Notes(c)
  BY DEF Call, Notes, Wrappers
<1>3. client' = client /\ pending' = {}
  BY DEF SetTimer, PendingAfterFlush
<1>4. n # 0 => Calls({"set"})
  BY SetTimerShape, PushedTyped, KindsOfClients DEF IndInv, SetTimer
<1>5. \A i \in 1 .. n : stack[i].id \in Ids
  BY StackTyped DEF IndInv, Frame
<1>6. \A j \in Ids : timers'[j] = IF j = id THEN "Running" ELSE IF j \in Flushed THEN "absent"
                                  ELSE timers[j]
  BY DEF SetTimer
<1>7. timers[id] = "absent" /\ Flushed \subseteq pending
  BY DEF SetTimer, Exists, Flushed
<1> HIDE DEF c, n
<1>8. WrapperIsFirst' /\ NestedAsAllowed'
  BY <1>1, <1>2, <1>3, PlacesKept DEF IndInv, Wrappers, Loops
<1>9. LiveIsListed'
  BY <1>3 DEF LiveIsListed
<1>10. NotedHasEnded'
  <2>1. ASSUME ClearsOrSets, NEW i \in 1 .. n, Notes(stack[i])
        PROVE  /\ timers'[stack[i].id] \notin {"Running", "Paused"}
               /\ timers'[stack[i].id] # "absent" /\ stack[i].id \notin pending'
    <3>1. i \in DOMAIN stack /\ n # 0
      BY StackTyped DEF IndInv, n
    <3>2. ~Live(stack[i].id) /\ Exists(stack[i].id) /\ stack[i].id \notin pending
      BY <1>4, <2>1, <3>1 DEF IndInv, NotedHasEnded
    <3> QED
      BY <1>3, <1>5, <1>6, <1>7, <3>2 DEF Live, Exists
  <2> QED
    BY <1>1, <1>2, <1>3, <2>1, NotedKept DEF IndInv
<1>11. LeftToCancel'
  BY <1>1, <1>2, <1>3, <1>4, LeftToCancelKept DEF IndInv
<1>12. WrapperUntouched'
  <2>1. ASSUME Gentle, NEW i \in 1 .. n, stack[i].at \in {"fired", "expired"}
        PROVE  /\ stack[i].id \notin Flushed \cup {}
               /\ Calls({"resume", "resumeAll"}) => timers'[stack[i].id] # "Paused"
               /\ Calls({"set"}) => stack[i].id \notin pending'
    <3>1. i \in DOMAIN stack /\ n # 0
      BY StackTyped DEF IndInv, n
    <3>2. /\ stack[i].id \notin pending
          /\ Calls({"resume", "resumeAll"}) => timers[stack[i].id] # "Paused"
      BY <1>4, <2>1, <3>1 DEF IndInv, WrapperUntouched
    <3> QED
      BY <1>3, <1>5, <1>6, <1>7, <3>2
  <2> QED
    BY <1>1, <1>2, <1>3, <2>1, UntouchedKept DEF IndInv
<1>13. IteratorsKept'
  BY <1>1, <1>2, <1>3, <1>4, KindsOfClients, IteratorsStay DEF IndInv, Loops
<1> QED
  BY <1>1, <1>8, <1>9, <1>10, <1>11, <1>12, <1>13 DEF IndInv

\* An orderly client cancels what is live, so what it cancels is not noted yet, and no call
\* in progress is going to note it.
LEMMA CancelTimerKeeps ==
  ASSUME IndInv, NEW id \in Ids, CancelTimer(id)
  PROVE  IndInv'
<1> DEFINE n == Len(stack)
           c == Call("cancel", id, {})
<1>1. TypeOK' /\ Becomes(n, {c}, {}, {}) /\ n \in Nat
  BY CancelTimerShape, PushedBecomes, StackTyped DEF IndInv
<1>2. c.at = "cancel" /\ c.id = id
  BY DEF Call
<1>3. client' = client /\ pending' = pending
  BY DEF CancelTimer
<1>4. n # 0 => "cancel" \in client.inside
  BY CancelTimerShape, PushedTyped DEF IndInv, CancelTimer
<1>5. \A i \in 1 .. n : stack[i].id \in Ids /\ i \in DOMAIN stack
  BY StackTyped DEF IndInv, Frame
<1>6. \A j \in Ids : timers'[j] = IF j = id THEN "Cancelled" ELSE timers[j]
  BY DEF CancelTimer, IndInv, TypeOK
<1>7. Orderly => Live(id)
  BY DEF CancelTimer, MayEnd, Orderly
<1> HIDE DEF c, n
<1>8. WrapperIsFirst' /\ NestedAsAllowed'
  BY <1>1, <1>2, <1>3, <1>4, PlacesKept DEF IndInv, Wrappers
<1>9. LiveIsListed'
  <2>1. \A j \in Ids : Live(j)' => Live(j)
    BY <1>6 DEF Live
  <2> QED
    BY <1>3, <2>1, ClientStays DEF IndInv, LiveIsListed
<1>10. NotedHasEnded'
  <2>1. ASSUME ClearsOrSets, NEW i \in 1 .. n, Notes(stack[i])
        PROVE  /\ timers'[stack[i].id] \notin {"Running", "Paused"}
               /\ Calls({"set"}) =>
                    timers'[stack[i].id] # "absent" /\ stack[i].id \notin pending'
               /\ stack[i].id # id
    <3>1. Live(id) /\ ~Live(stack[i].id)
      BY <1>5, <1>7, <2>1, KindsOfClients DEF IndInv, NotedHasEnded
    <3>2. Calls({"set"}) => Exists(stack[i].id) /\ stack[i].id \notin pending
      BY <1>5, <2>1 DEF IndInv, NotedHasEnded
    <3> QED
      BY <1>3, <1>5, <1>6, <3>1, <3>2 DEF Live, Exists
  <2>2. ASSUME ClearsOrSets
        PROVE  /\ timers'[id] \notin {"Running", "Paused"} /\ timers'[id] # "absent"
               /\ id \notin pending'
    BY <1>3, <1>6, <1>7, <2>2, KindsOfClients DEF IndInv, LiveIsListed
  <2> QED
    BY <1>1, <1>2, <1>3, <2>1, <2>2, NotedKept DEF IndInv
<1>11. LeftToCancel'
  <2>1. \A j \in Ids : Live(j)' => Live(j)
    BY <1>6 DEF Live
  <2> QED
    BY <1>1, <1>2, <1>3, <2>1, LeftToCancelKept DEF IndInv
<1>12. WrapperUntouched'
  <2>1. ASSUME Gentle, NEW i \in 1 .. n, stack[i].at \in {"fired", "expired"}
        PROVE  /\ Calls({"resume", "resumeAll"}) => timers'[stack[i].id] # "Paused"
               /\ Calls({"set"}) => stack[i].id \notin pending'
    BY <1>3, <1>5, <1>6, <2>1 DEF IndInv, WrapperUntouched
  <2> QED
    BY <1>1, <1>2, <1>3, <2>1, UntouchedKept DEF IndInv
<1>13. IteratorsKept'
  BY <1>1, <1>2, <1>3, IteratorsStay DEF IndInv, Loops
<1> QED
  BY <1>1, <1>8, <1>9, <1>10, <1>11, <1>12, <1>13 DEF IndInv

\* A listener that pauses does not resume, if it is gentle.
LEMMA PauseTimerKeeps ==
  ASSUME IndInv, NEW id \in Ids, PauseTimer(id)
  PROVE  IndInv'
<1> DEFINE n == Len(stack)
           c == Call("leave", id, {})
<1>1. TypeOK' /\ Becomes(n, {c}, {}, {}) /\ n \in Nat
  BY PauseTimerShape, PushedBecomes, StackTyped DEF IndInv
<1>2. c.at = "leave" /\ ~Notes(c)
  BY DEF Call, Notes, Wrappers
<1>3. client' = client /\ pending' = pending
  BY DEF PauseTimer
<1>4. n # 0 => "pause" \in client.inside
  BY PauseTimerShape, PushedTyped DEF IndInv, PauseTimer
<1>5. \A i \in 1 .. n : stack[i].id \in Ids /\ i \in DOMAIN stack /\ n # 0
  BY StackTyped DEF IndInv, Frame
<1>6. \A j \in Ids : timers'[j] = IF j = id THEN "Paused" ELSE timers[j]
  BY DEF PauseTimer, IndInv, TypeOK
<1>7. timers[id] = "Running"
  BY DEF PauseTimer
<1>8. \A j \in Ids : Live(j)' <=> Live(j)
  BY <1>6, <1>7 DEF Live
<1> HIDE DEF c, n
<1>9. WrapperIsFirst' /\ NestedAsAllowed'
  BY <1>1, <1>2, <1>3, PlacesKept DEF IndInv, Wrappers, Loops
<1>10. LiveIsListed'
  BY <1>3, <1>8, ClientStays DEF IndInv, LiveIsListed
<1>11. NotedHasEnded'
  <2>1. ASSUME ClearsOrSets, NEW i \in 1 .. n, Notes(stack[i])
        PROVE  /\ timers'[stack[i].id] \notin {"Running", "Paused"}
               /\ Calls({"set"}) =>
                    timers'[stack[i].id] # "absent" /\ stack[i].id \notin pending'
    <3>1. /\ ~Live(stack[i].id)
          /\ Calls({"set"}) => Exists(stack[i].id) /\ stack[i].id \notin pending
      BY <1>5, <2>1 DEF IndInv, NotedHasEnded
    <3> QED
      BY <1>3, <1>5, <1>6, <1>7, <3>1 DEF Live, Exists
  <2> QED
    BY <1>1, <1>2, <1>3, <2>1, NotedKept DEF IndInv
<1>12. LeftToCancel'
  BY <1>1, <1>2, <1>3, <1>8, LeftToCancelKept DEF IndInv
<1>13. WrapperUntouched'
  <2>1. ASSUME Gentle, NEW i \in 1 .. n, stack[i].at \in {"fired", "expired"}
        PROVE  /\ Calls({"resume", "resumeAll"}) => timers'[stack[i].id] # "Paused"
               /\ Calls({"set"}) => stack[i].id \notin pending'
    BY <1>3, <1>4, <1>5, <2>1, KindsOfClients DEF IndInv, WrapperUntouched
  <2> QED
    BY <1>1, <1>2, <1>3, <2>1, UntouchedKept DEF IndInv
<1>14. IteratorsKept'
  BY <1>1, <1>2, <1>3, IteratorsStay DEF IndInv, Loops
<1> QED
  BY <1>1, <1>9, <1>10, <1>11, <1>12, <1>13, <1>14 DEF IndInv

\* A gentle listener does not reschedule, and what it resumes is not the wrapper's.
LEMMA RestartKeeps ==
  ASSUME IndInv, NEW id \in Ids, NEW op \in {"resume", "reschedule"}, MayCall(op), Restart(id),
         op = "resume" => timers[id] = "Paused",
         Orderly => Live(id)
  PROVE  IndInv'
<1> DEFINE n == Len(stack)
           c == Call("leave", id, {})
<1>1. TypeOK' /\ Becomes(n, {c}, {}, {id}) /\ n \in Nat
  BY RestartShape, PushedBecomes, StackTyped DEF IndInv
<1>2. c.at = "leave" /\ ~Notes(c)
  BY DEF Call, Notes, Wrappers
<1>3. client' = client /\ pending' = pending
  BY DEF Restart
<1>4. n # 0 => op \in client.inside
  BY RestartShape, PushedTyped DEF IndInv
<1>5. \A i \in 1 .. n : stack[i].id \in Ids /\ i \in DOMAIN stack /\ n # 0
  BY StackTyped DEF IndInv, Frame
<1>6. \A j \in Ids : timers'[j] = IF j = id THEN "Running" ELSE timers[j]
  BY DEF Restart, IndInv, TypeOK
<1>7. Orderly => \A j \in Ids : Live(j)' <=> Live(j)
  BY <1>6 DEF Live
<1> HIDE DEF c, n
<1>8. WrapperIsFirst' /\ NestedAsAllowed'
  BY <1>1, <1>2, <1>3, PlacesKept DEF IndInv, Wrappers, Loops
<1>9. LiveIsListed'
  BY <1>3, <1>7, ClientStays, KindsOfClients DEF IndInv, LiveIsListed
<1>10. NotedHasEnded'
  <2>1. ASSUME ClearsOrSets, NEW i \in 1 .. n, Notes(stack[i])
        PROVE  /\ timers'[stack[i].id] \notin {"Running", "Paused"}
               /\ Calls({"set"}) =>
                    timers'[stack[i].id] # "absent" /\ stack[i].id \notin pending'
    <3>1. /\ ~Live(stack[i].id) /\ Live(id)
          /\ Calls({"set"}) => Exists(stack[i].id) /\ stack[i].id \notin pending
      BY <1>5, <2>1, KindsOfClients DEF IndInv, NotedHasEnded
    <3> QED
      BY <1>3, <1>5, <1>6, <3>1 DEF Live, Exists
  <2> QED
    BY <1>1, <1>2, <1>3, <2>1, NotedKept DEF IndInv
<1>11. LeftToCancel'
  BY <1>1, <1>2, <1>3, <1>7, LeftToCancelKept DEF IndInv
<1>12. WrapperUntouched'
  <2>1. ASSUME Gentle, NEW i \in 1 .. n, stack[i].at \in {"fired", "expired"}
        PROVE  /\ stack[i].id \notin {} \cup {id}
               /\ Calls({"resume", "resumeAll"}) => timers'[stack[i].id] # "Paused"
               /\ Calls({"set"}) => stack[i].id \notin pending'
    <3>1. op = "resume" /\ Calls({"resume", "resumeAll"}) /\ timers[id] = "Paused"
      BY <1>4, <1>5, <2>1, KindsOfClients
    <3>2. /\ timers[stack[i].id] # "Paused"
          /\ Calls({"set"}) => stack[i].id \notin pending
      BY <1>5, <2>1, <3>1 DEF IndInv, WrapperUntouched
    <3> QED
      BY <1>3, <1>5, <1>6, <3>1, <3>2
  <2> QED
    BY <1>1, <1>2, <1>3, <2>1, UntouchedKept DEF IndInv
<1>13. IteratorsKept'
  BY <1>1, <1>2, <1>3, IteratorsStay DEF IndInv, Loops
<1> QED
  BY <1>1, <1>8, <1>9, <1>10, <1>11, <1>12, <1>13 DEF IndInv

\* A timer that goes off was live, so it is not noted yet.
LEMMA FireKeeps ==
  ASSUME IndInv, NEW id \in Ids, NEW stop \in BOOLEAN, Fire(id, stop)
  PROVE  IndInv'
<1>1. PICK f \in Frame : /\ Pushed(0, f, {}, {})
                         /\ f.at = "fired" /\ f.id = id /\ f.stop = stop
                         /\ f.good /\ f.closure
  BY FireShape DEF IndInv
<1>2. TypeOK' /\ Becomes(0, {f}, {}, {}) /\ 0 \in Nat /\ 1 .. 0 = {}
  BY <1>1, FireShape, PushedBecomes DEF IndInv
<1>3. client' = client /\ pending' = pending
  BY DEF Fire
<1>4. \A j \in Ids : timers'[j] = IF j = id /\ stop THEN "Expired" ELSE timers[j]
  BY DEF Fire, IndInv, TypeOK
<1>5. timers[id] = "Running"
  BY DEF Fire
<1>6. \A j \in Ids : Live(j)' => Live(j)
  BY <1>4 DEF Live
<1>7. ClearsOrSets => id \notin pending'
  BY <1>3, <1>5 DEF IndInv, LiveIsListed, Live
<1>8. WrapperIsFirst' /\ NestedAsAllowed'
  BY <1>2, <1>3, PlacesKept DEF IndInv
<1>9. LiveIsListed'
  BY <1>3, <1>6, ClientStays DEF IndInv, LiveIsListed
<1>10. NotedHasEnded'
  <2>1. Notes(f) => timers'[id] = "Expired"
    BY <1>1, <1>4 DEF Notes
  <2> QED
    BY <1>1, <1>2, <1>3, <1>7, <2>1, NotedKept DEF IndInv
<1>11. LeftToCancel'
  BY <1>1, <1>2, <1>3, LeftToCancelKept DEF IndInv
<1>12. WrapperUntouched'
  <2>1. timers'[id] # "Paused"
    BY <1>4, <1>5
  <2> QED
    BY <1>1, <1>2, <1>3, <1>7, <2>1, KindsOfClients, UntouchedKept DEF IndInv
<1>13. IteratorsKept'
  BY <1>1, <1>2, <1>3, IteratorsStay DEF IndInv, Loops
<1> QED
  BY <1>2, <1>8, <1>9, <1>10, <1>11, <1>12, <1>13 DEF IndInv

\* What is below the call the listener returns to is carried over.
LEMMA BelowTop ==
  ASSUME IndInv, stack # <<>>
  PROVE  /\ Len(stack) - 1 \in Nat
         /\ Len(stack) \in DOMAIN stack /\ Top = stack[Len(stack)]
         /\ \A i \in 1 .. Len(stack) - 1 :
              i \in DOMAIN stack /\ i # Len(stack) /\ Len(stack) # 1
<1> DEFINE n == Len(stack)
<1>1. n \in Nat \ {0} /\ DOMAIN stack = 1 .. n
  BY RestTyped, StackTyped DEF IndInv
<1>2. Top = stack[n]
  BY DEF Top
<1> HIDE DEF n
<1>3. n - 1 \in Nat /\ n \in 1 .. n /\ \A i \in 1 .. n - 1 : i \in 1 .. n /\ i # n /\ n # 1
  BY <1>1
<1> QED
  BY <1>1, <1>2, <1>3 DEF n

LEMMA LeaveKeeps ==
  ASSUME IndInv, Leave
  PROVE  IndInv'
<1> DEFINE m == Len(stack) - 1
<1>1. TypeOK'
  BY LeaveShape DEF IndInv
<1>2. client' = client /\ pending' = pending /\ timers' = timers /\ stack # <<>>
  BY DEF Leave
<1>3. m \in Nat
  BY <1>2, BelowTop
<1> DEFINE GoesOn(f) ==
             /\ Top.at \in {"fired", "expired"} /\ Top.good /\ Top.closure
             /\ f.at = (IF Top.stop /\ Top.at = "fired" THEN "expired" ELSE "callback")
             /\ f.id = Top.id /\ f.stop = Top.stop /\ f.good = Top.good
             /\ f.closure = Top.closure
<1>4. PICK F : Becomes(m, F, {}, {}) /\ \A f \in F : GoesOn(f)
  <2>1. Popped(m, {}, {}) \/ \E f \in Frame : Pushed(m, f, {}, {}) /\ GoesOn(f)
    BY LeaveShape DEF IndInv
  <2> HIDE DEF m, GoesOn
  <2>2. CASE Popped(m, {}, {})
    BY <2>2, PoppedBecomes
  <2>3. ASSUME NEW f \in Frame, Pushed(m, f, {}, {}), GoesOn(f)
        PROVE  \E F : Becomes(m, F, {}, {}) /\ \A g \in F : GoesOn(g)
    <3>1. Becomes(m, {f}, {}, {}) /\ \A g \in {f} : GoesOn(g)
      BY <2>3, PushedBecomes
    <3> QED
      BY <3>1
  <2> QED
    BY <2>1, <2>2, <2>3
<1> HIDE DEF m
<1>5. \A f \in F : f.at \in {"expired", "callback"} /\ (Notes(f) <=> Notes(Top))
  BY <1>4 DEF Notes, Wrappers
<1>6. WrapperIsFirst' /\ NestedAsAllowed'
  <2>1. \A f \in F : Top.at \in Wrappers
    BY <1>4 DEF Wrappers
  <2>2. Top.at \in Wrappers => m = 0
    <3>1. Len(stack) \in DOMAIN stack /\ Top = stack[Len(stack)]
      BY <1>2, BelowTop
    <3>2. Top.at \in Wrappers => Len(stack) = 1
      BY <3>1 DEF IndInv, WrapperIsFirst
    <3> QED
      BY <3>2 DEF m
  <2> QED
    BY <1>1, <1>2, <1>3, <1>4, <1>5, <2>1, <2>2, PlacesKept DEF IndInv, Loops
<1>7. LiveIsListed'
  BY <1>2, ClientStays DEF IndInv, LiveIsListed, Live
<1>8. NotedHasEnded'
  <2>1. ASSUME ClearsOrSets
        PROVE  /\ \A i \in DOMAIN stack : Notes(stack[i]) =>
                    /\ timers'[stack[i].id] \notin {"Running", "Paused"}
                    /\ Calls({"set"}) =>
                         timers'[stack[i].id] # "absent" /\ stack[i].id \notin pending'
               /\ Calls({"set"}) =>
                    \A i, j \in DOMAIN stack : Notes(stack[i]) /\ Notes(stack[j]) /\ i # j =>
                      stack[i].id # stack[j].id
    BY <1>2, <2>1 DEF IndInv, NotedHasEnded, Live, Exists
  <2>2. /\ Len(stack) \in DOMAIN stack /\ Top = stack[Len(stack)]
        /\ \A i \in 1 .. m : i \in DOMAIN stack /\ i # Len(stack)
    BY <1>2, BelowTop DEF m
  <2>3. ClearsOrSets =>
          \A f \in F : Notes(f) =>
            /\ timers'[f.id] \notin {"Running", "Paused"}
            /\ Calls({"set"}) =>
                 /\ timers'[f.id] # "absent" /\ f.id \notin pending'
                 /\ \A i \in 1 .. m : Notes(stack[i]) => stack[i].id # f.id
    BY <1>4, <1>5, <2>1, <2>2
  <2> QED
    BY <1>1, <1>2, <1>3, <1>4, <2>1, <2>2, <2>3, NotedKept DEF IndInv
<1>9. LeftToCancel'
  <2>1. \A j \in Ids : Live(j)' => Live(j)
    BY <1>2 DEF Live
  <2> QED
    BY <1>1, <1>2, <1>3, <1>4, <1>5, <2>1, LeftToCancelKept DEF IndInv
<1>10. WrapperUntouched'
  <2>1. ASSUME Gentle, NEW i \in DOMAIN stack, stack[i].at \in {"fired", "expired"}
        PROVE  /\ Calls({"resume", "resumeAll"}) => timers'[stack[i].id] # "Paused"
               /\ Calls({"set"}) => stack[i].id \notin pending'
    BY <1>2, <2>1 DEF IndInv, WrapperUntouched
  <2>2. /\ Len(stack) \in DOMAIN stack /\ Top = stack[Len(stack)]
        /\ \A i \in 1 .. m : i \in DOMAIN stack
    BY <1>2, BelowTop DEF m
  <2>3. Gentle =>
          \A f \in F : f.at \in {"fired", "expired"} =>
            /\ f.good /\ f.closure
            /\ Calls({"resume", "resumeAll"}) => timers'[f.id] # "Paused"
            /\ Calls({"set"}) => f.id \notin pending'
    BY <1>4, <2>1, <2>2
  <2> QED
    BY <1>1, <1>2, <1>3, <1>4, <2>1, <2>2, <2>3, UntouchedKept DEF IndInv
<1>11. IteratorsKept'
  BY <1>1, <1>2, <1>3, <1>4, <1>5, IteratorsStay DEF IndInv, Loops
<1> QED
  BY <1>1, <1>6, <1>7, <1>8, <1>9, <1>10, <1>11 DEF IndInv

\* What is noted has ended, and no other call notes it.
LEMMA NoteRemovalKeeps ==
  ASSUME IndInv, NoteRemoval
  PROVE  IndInv'
<1> DEFINE m == Len(stack) - 1
<1>1. TypeOK' /\ Becomes(m, {}, {}, {})
  BY NoteRemovalShape, PoppedBecomes DEF IndInv
<1>2. client' = client /\ timers' = timers /\ stack # <<>>
  BY DEF NoteRemoval
<1>3. /\ m \in Nat
      /\ Len(stack) \in DOMAIN stack /\ Top = stack[Len(stack)]
      /\ \A i \in 1 .. m : i \in DOMAIN stack /\ i # Len(stack) /\ Len(stack) # 1
  BY <1>2, BelowTop
<1>4. pending' = pending \/ (pending' = pending \cup {Top.id} /\ Notes(Top))
  BY DEF NoteRemoval, Notes, Wrappers
<1>5. Top.at \in {"cancel", "callback"}
  BY DEF NoteRemoval
<1> HIDE DEF m
<1>6. WrapperIsFirst' /\ NestedAsAllowed'
  BY <1>1, <1>2, <1>3, PlacesKept DEF IndInv
<1>7. LiveIsListed'
  <2> SUFFICES ASSUME ClearsOrSets, NEW id \in Ids, Live(id)
               PROVE  id \notin pending'
    BY <1>2, ClientStays DEF LiveIsListed, Live
  <2>1. id \notin pending
    BY DEF IndInv, LiveIsListed
  <2>2. Notes(Top) => ~Live(Top.id)
    BY <1>3 DEF IndInv, NotedHasEnded
  <2>3. Notes(Top) => id # Top.id
    BY <2>2
  <2> QED
    BY <1>4, <2>1, <2>3
<1>8. NotedHasEnded'
  <2>1. ASSUME ClearsOrSets, NEW i \in 1 .. m, Notes(stack[i])
        PROVE  /\ timers'[stack[i].id] \notin {"Running", "Paused"}
               /\ Calls({"set"}) =>
                    timers'[stack[i].id] # "absent" /\ stack[i].id \notin pending'
    <3>1. /\ ~Live(stack[i].id)
          /\ Calls({"set"}) => Exists(stack[i].id) /\ stack[i].id \notin pending
      BY <1>3, <2>1 DEF IndInv, NotedHasEnded
    <3>2. Calls({"set"}) /\ Notes(Top) => stack[i].id # Top.id
      BY <1>3, <2>1 DEF IndInv, NotedHasEnded
    <3> QED
      BY <1>2, <1>4, <3>1, <3>2 DEF Live, Exists
  <2> QED
    BY <1>1, <1>2, <1>3, <2>1, NotedKept DEF IndInv
<1>9. LeftToCancel'
  <2>1. \A j \in Ids : Live(j)' => Live(j)
    BY <1>2 DEF Live
  <2> QED
    BY <1>1, <1>2, <1>3, <2>1, LeftToCancelKept DEF IndInv
<1>10. WrapperUntouched'
  <2>1. ASSUME Gentle, NEW i \in 1 .. m, stack[i].at \in {"fired", "expired"}
        PROVE  /\ Calls({"resume", "resumeAll"}) => timers'[stack[i].id] # "Paused"
               /\ Calls({"set"}) => stack[i].id \notin pending'
    <3>1. /\ Calls({"resume", "resumeAll"}) => timers[stack[i].id] # "Paused"
          /\ Calls({"set"}) => stack[i].id \notin pending
      BY <1>3, <2>1 DEF IndInv, WrapperUntouched
    <3>2. Top.at \notin Wrappers
      BY <1>3 DEF IndInv, WrapperIsFirst
    <3>3. "cancel" \in client.inside
      BY <1>3, <1>5, <3>2 DEF IndInv, NestedAsAllowed, Wrappers
    <3>4. ~Calls({"set"})
      BY <2>1, <3>3, KindsOfClients
    <3> QED
      BY <1>2, <3>1, <3>4
  <2> QED
    BY <1>1, <1>2, <1>3, <2>1, UntouchedKept DEF IndInv
<1>11. IteratorsKept'
  BY <1>1, <1>2, <1>3, IteratorsStay DEF IndInv
<1> QED
  BY <1>1, <1>6, <1>7, <1>8, <1>9, <1>10, <1>11 DEF IndInv

\* A loop goes on to an entry that exists.
LEMMA OnwardKeeps ==
  ASSUME IndInv, NEW op, NEW m, NEW todo, LoopFrom(op, m, todo), Onward(op, m, todo)
  PROVE  IndInv'
<1>1. /\ op \in Loops /\ todo \in SUBSET Ids /\ m \in Nat
      /\ m # 0 => op \in client.inside
      /\ op = "cancelAll" /\ Orderly /\ ~Calls({"set"}) => \A id \in Ids : Live(id) => id \in todo
      /\ pending' \subseteq pending /\ client' = client
  BY StackTyped DEF LoopFrom, IndInv
<1>2. PICK id \in todo, passed \in SUBSET todo :
        /\ Changes(op, id) /\ \A i \in passed : ~Changes(op, i)
        /\ timers' = [timers EXCEPT ![id] = ChangedTo(op)]
        /\ Pushed(m, Call(op, id, todo \ ({id} \cup passed)), {},
                  IF op = "resumeAll" THEN {id} ELSE {})
  BY DEF Onward
<1> DEFINE left == todo \ ({id} \cup passed)
           c == Call(op, id, left)
           started == IF op = "resumeAll" THEN {id} ELSE {}
<1>3. TypeOK' /\ Becomes(m, {c}, {}, started)
  BY <1>2, LoopTyped, PushedBecomes DEF IndInv
<1>4. c.at = op /\ c.todo = left
  BY DEF Call
<1>5. c.at \notin Wrappers /\ ~Notes(c) /\ c.at \notin {"fired", "expired"} /\ c.good
  BY <1>1, <1>4 DEF Notes, Wrappers, Loops, Call
<1>6. id \in Ids /\ \A j \in Ids : timers'[j] = IF j = id THEN ChangedTo(op) ELSE timers[j]
  BY <1>1, <1>2 DEF IndInv, TypeOK
<1>7. \/ op = "cancelAll" /\ Exists(id) /\ ChangedTo(op) = "Cancelled"
      \/ op = "pauseAll" /\ timers[id] = "Running" /\ ChangedTo(op) = "Paused"
      \/ op = "resumeAll" /\ timers[id] = "Paused" /\ ChangedTo(op) = "Running"
  BY <1>1, <1>2 DEF Changes, ChangedTo, Loops
<1>8. \A j \in Ids : Live(j)' => Live(j)
  BY <1>6, <1>7 DEF Live
<1>9. \A i \in 1 .. m : i \in DOMAIN stack /\ stack[i].id \in Ids /\ m # 0
  BY <1>1, StackTyped DEF LoopFrom, IndInv, Frame
<1> HIDE DEF c, started
<1>10. WrapperIsFirst' /\ NestedAsAllowed'
  BY <1>1, <1>3, <1>4, <1>5, PlacesKept DEF IndInv
<1>11. LiveIsListed'
  BY <1>1, <1>8, ClientStays DEF IndInv, LiveIsListed
<1>12. NotedHasEnded'
  <2>1. ASSUME ClearsOrSets, NEW i \in 1 .. m, Notes(stack[i])
        PROVE  /\ timers'[stack[i].id] \notin {"Running", "Paused"}
               /\ Calls({"set"}) =>
                    timers'[stack[i].id] # "absent" /\ stack[i].id \notin pending'
    <3>1. /\ ~Live(stack[i].id)
          /\ Calls({"set"}) => Exists(stack[i].id) /\ stack[i].id \notin pending
      BY <1>9, <2>1 DEF IndInv, NotedHasEnded
    <3> QED
      BY <1>1, <1>6, <1>7, <1>9, <3>1 DEF Live, Exists
  <2> QED
    BY <1>1, <1>3, <1>5, <2>1, NotedKept DEF IndInv
<1>13. LeftToCancel'
  <2>1. ASSUME Orderly, ~Calls({"set"}), op = "cancelAll", NEW j \in Ids, Live(j)'
        PROVE  j \in left
    <3>1. Live(j) /\ j \in todo
      BY <1>1, <1>8, <2>1
    <3>2. j # id
      BY <1>6, <1>7, <2>1 DEF Live
    <3>3. j \notin passed
      BY <1>2, <2>1, <3>1 DEF Changes, Live, Exists
    <3> QED
      BY <3>1, <3>2, <3>3
  <2> HIDE DEF left
  <2> QED
    BY <1>1, <1>3, <1>4, <1>8, <2>1, LeftToCancelKept DEF IndInv
<1>14. WrapperUntouched'
  <2>1. ASSUME Gentle, NEW i \in 1 .. m, stack[i].at \in {"fired", "expired"}
        PROVE  /\ stack[i].id \notin {} \cup started
               /\ Calls({"resume", "resumeAll"}) => timers'[stack[i].id] # "Paused"
               /\ Calls({"set"}) => stack[i].id \notin pending'
    <3>1. /\ Calls({"resume", "resumeAll"}) => timers[stack[i].id] # "Paused"
          /\ Calls({"set"}) => stack[i].id \notin pending
      BY <1>9, <2>1 DEF IndInv, WrapperUntouched
    <3>2. op # "cancelAll"
      BY <1>1, <1>9, <2>1, KindsOfClients
    <3>3. CASE op = "pauseAll"
      <4>1. ~Calls({"resume", "resumeAll"})
        BY <1>1, <1>9, <2>1, <3>3, KindsOfClients
      <4> QED
        BY <1>1, <3>1, <3>3, <4>1 DEF started
    <3>4. CASE op = "resumeAll"
      <4>1. Calls({"resume", "resumeAll"})
        BY <1>1, <1>9, <3>4, KindsOfClients
      <4> QED
        BY <1>1, <1>6, <1>7, <1>9, <3>1, <3>4, <4>1 DEF started
    <3> QED
      BY <1>1, <3>2, <3>3, <3>4 DEF Loops
  <2> QED
    BY <1>1, <1>3, <1>5, <2>1, UntouchedKept DEF IndInv
<1>15. IteratorsKept'
  BY <1>1, <1>3, <1>4, <1>5, IteratorsStay DEF IndInv
<1> QED
  BY <1>3, <1>10, <1>11, <1>12, <1>13, <1>14, <1>15 DEF IndInv

\* The end of a loop: after cancelAll there is nothing to be live.
LEMMA DoneKeeps ==
  ASSUME IndInv, NEW op, NEW m, NEW todo, LoopFrom(op, m, todo), Done(op, m, todo)
  PROVE  IndInv'
<1>1. /\ op \in Loops /\ m \in Nat
      /\ m # 0 => op \in client.inside
      /\ pending' \subseteq pending /\ client' = client
  BY StackTyped DEF LoopFrom, IndInv
<1> DEFINE gone == IF op = "cancelAll" THEN Ids ELSE {}
<1>2. TypeOK' /\ Becomes(m, {}, gone, {})
  BY LoopTyped, PoppedBecomes DEF IndInv, Done
<1>3. \A j \in Ids : timers'[j] = IF op = "cancelAll" THEN "absent" ELSE timers[j]
  BY DEF Done
<1>4. \A j \in Ids : Live(j)' => Live(j) /\ op # "cancelAll"
  BY <1>3 DEF Live
<1>5. \A i \in 1 .. m : i \in DOMAIN stack /\ stack[i].id \in Ids /\ m # 0
  BY <1>1, StackTyped DEF LoopFrom, IndInv, Frame
<1> HIDE DEF gone
<1>6. WrapperIsFirst' /\ NestedAsAllowed'
  BY <1>1, <1>2, PlacesKept DEF IndInv
<1>7. LiveIsListed'
  BY <1>1, <1>4, ClientStays DEF IndInv, LiveIsListed
<1>8. NotedHasEnded'
  <2>1. ASSUME ClearsOrSets, NEW i \in 1 .. m, Notes(stack[i])
        PROVE  /\ timers'[stack[i].id] \notin {"Running", "Paused"}
               /\ Calls({"set"}) =>
                    timers'[stack[i].id] # "absent" /\ stack[i].id \notin pending'
    <3>1. /\ ~Live(stack[i].id)
          /\ Calls({"set"}) => Exists(stack[i].id) /\ stack[i].id \notin pending
      BY <1>5, <2>1 DEF IndInv, NotedHasEnded
    <3>2. Calls({"set"}) => op # "cancelAll"
      BY <1>1, <1>5, <2>1, KindsOfClients
    <3> QED
      BY <1>1, <1>3, <1>5, <3>1, <3>2 DEF Live, Exists
  <2> QED
    BY <1>1, <1>2, <2>1, NotedKept DEF IndInv
<1>9. LeftToCancel'
  BY <1>1, <1>2, <1>4, LeftToCancelKept DEF IndInv, gone
<1>10. WrapperUntouched'
  <2>1. ASSUME Gentle, NEW i \in 1 .. m, stack[i].at \in {"fired", "expired"}
        PROVE  /\ stack[i].id \notin gone \cup {}
               /\ Calls({"resume", "resumeAll"}) => timers'[stack[i].id] # "Paused"
               /\ Calls({"set"}) => stack[i].id \notin pending'
    <3>1. /\ Calls({"resume", "resumeAll"}) => timers[stack[i].id] # "Paused"
          /\ Calls({"set"}) => stack[i].id \notin pending
      BY <1>5, <2>1 DEF IndInv, WrapperUntouched
    <3>2. op # "cancelAll"
      BY <1>1, <1>5, <2>1, KindsOfClients
    <3> QED
      BY <1>1, <1>3, <1>5, <3>1, <3>2 DEF gone
  <2> QED
    BY <1>1, <1>2, <2>1, UntouchedKept DEF IndInv
<1>11. IteratorsKept'
  BY <1>1, <1>2, KindsOfClients, IteratorsStay DEF IndInv, gone
<1> QED
  BY <1>2, <1>6, <1>7, <1>8, <1>9, <1>10, <1>11 DEF IndInv

-----------------------------------------------------------------------------
LEMMA InitInv == Init => IndInv
<1> SUFFICES ASSUME Init
             PROVE  IndInv
  OBVIOUS
<1>1. stack \in Seq(Frame) /\ Len(stack) = 0
  BY EmptySeq DEF Init
<1>2. TypeOK
  BY <1>1, ListenerAssumption DEF Init, TypeOK, TimerStatus
<1>3. DOMAIN stack = {}
  BY <1>1, <1>2, StackTyped
<1> QED
  BY <1>2, <1>3 DEF IndInv, WrapperIsFirst, NestedAsAllowed, LiveIsListed, NotedHasEnded,
                    LeftToCancel, WrapperUntouched, IteratorsKept, Init

LEMMA StepKeeps == IndInv /\ [Next]_vars => IndInv'
<1> SUFFICES ASSUME IndInv, [Next]_vars
             PROVE  IndInv'
  OBVIOUS
<1>1. ASSUME NEW id \in Ids, ResumeTimer(id)
      PROVE  IndInv'
  <2>1. Live(id)
    BY <1>1 DEF ResumeTimer, Live
  <2> QED
    BY <1>1, <2>1, RestartKeeps DEF ResumeTimer
<1>2. ASSUME NEW id \in Ids, RescheduleTimer(id)
      PROVE  IndInv'
  <2>1. Orderly => Live(id)
    BY <1>2 DEF RescheduleTimer, MayEnd, Orderly
  <2> QED
    BY <1>2, <2>1, RestartKeeps DEF RescheduleTimer
<1>3. ASSUME NEW op \in Loops, StartLoop(op)
      PROVE  IndInv'
  BY <1>3, StartLoopShape, OnwardKeeps, DoneKeeps DEF IndInv
<1>4. CASE ContinueLoop
  BY <1>4, ContinueLoopShape, OnwardKeeps, DoneKeeps DEF IndInv
<1>5. CASE UNCHANGED vars
  BY <1>5 DEF vars, IndInv, TypeOK, WrapperIsFirst, NestedAsAllowed, LiveIsListed,
              NotedHasEnded, LeftToCancel, WrapperUntouched, IteratorsKept, Live, Exists,
              Orderly, Calls, Gentle, ClearsOrSets, Notes
<1> QED
  BY <1>1, <1>2, <1>3, <1>4, <1>5, SetTimerKeeps, CancelTimerKeeps, PauseTimerKeeps, FireKeeps,
     LeaveKeeps, NoteRemovalKeeps DEF Next

\* The inductive invariant: what every call in progress may rely on, however many there are.
THEOREM Invariance == Spec => []IndInv
BY InitInv, StepKeeps, PTL DEF Spec

\* The variables keep their types, however the client interrupts the service.
THEOREM TypeCorrect == Spec => []TypeOK
<1>1. IndInv => TypeOK
  BY DEF IndInv
<1> QED
  BY <1>1, Invariance, PTL

\* The wrapper of a timer finds its entry and its closure again after it has told a gentle
\* listener that the timer fired or expired, and the loops of cancelAll, pauseAll and
\* resumeAll their iterators if the listener neither sets timers nor clears the table.
THEOREM ReferencesStay == Spec => []ReferencesKept
<1>1. IndInv => ReferencesKept
  BY DEF IndInv, WrapperUntouched, ReferencesKept
<1> QED
  BY <1>1, Invariance, PTL

\* What is noted for removal is not live, although cancelTimer and the wrapper note it only
\* after the client's code has run.
THEOREM LiveStaysListed == Spec => []LiveIsListed
<1>1. IndInv => LiveIsListed
  BY DEF IndInv
<1> QED
  BY <1>1, Invariance, PTL

\* No entry of a live timer is erased, neither by a flush nor by the end of cancelAll.
THEOREM NoTimerEndsSilently == Spec => NoSilentEnd
<1>1. ASSUME IndInv, [Next]_vars, Orderly, ~Calls({"set"}), NEW id \in Ids, Live(id)
      PROVE  Exists(id)'
  <2>1. ClearsOrSets /\ id \notin pending
    BY <1>1 DEF ClearsOrSets, IndInv, LiveIsListed
  <2>2. timers \in [Ids -> TimerStatus] /\ timers[id] # "absent"
    BY <1>1 DEF IndInv, TypeOK, Live
  <2>3. ASSUME NEW j \in Ids, SetTimer(j)
        PROVE  Exists(id)'
    BY <2>1, <2>2, <2>3 DEF SetTimer, Flushed, Exists
  <2>4. ASSUME NEW j \in Ids, CancelTimer(j) \/ PauseTimer(j) \/ Restart(j)
        PROVE  Exists(id)'
    BY <2>2, <2>4 DEF CancelTimer, PauseTimer, Restart, Exists
  <2>5. ASSUME NEW j \in Ids, NEW stop \in BOOLEAN, Fire(j, stop)
        PROVE  Exists(id)'
    BY <2>2, <2>5 DEF Fire, Exists
  <2>6. CASE Leave \/ NoteRemoval \/ UNCHANGED vars
    BY <2>2, <2>6 DEF Leave, NoteRemoval, vars, Exists
  <2>7. ASSUME NEW op, NEW m, NEW todo, LoopFrom(op, m, todo),
               Onward(op, m, todo) \/ Done(op, m, todo)
        PROVE  Exists(id)'
    <3>1. CASE Onward(op, m, todo)
      BY <2>2, <2>7, <3>1 DEF Onward, LoopFrom, ChangedTo, Exists, Loops
    <3>2. CASE Done(op, m, todo)
      <4>1. op # "cancelAll"
        BY <1>1, <2>2, <2>7, <3>2 DEF LoopFrom, Done, Changes, Exists, IndInv
      <4> QED
        BY <2>2, <3>2, <4>1 DEF Done, Exists
    <3> QED
      BY <2>7, <3>1, <3>2
  <2>8. ASSUME NEW op \in Loops, StartLoop(op)
        PROVE  Exists(id)'
    BY <1>1, <2>7, <2>8, StartLoopShape DEF IndInv
  <2>9. CASE ContinueLoop
    BY <1>1, <2>7, <2>9, ContinueLoopShape DEF IndInv
  <2> QED
    BY <1>1, <2>3, <2>4, <2>5, <2>6, <2>8, <2>9 DEF Next, ResumeTimer, RescheduleTimer
<1>2. IndInv /\ [Next]_vars =>
        [Orderly /\ ~Calls({"set"}) => \A id \in Ids : Live(id) => Exists(id)']_vars
  BY <1>1
<1> QED
  BY <1>2, Invariance, PTL DEF Spec, NoSilentEnd
=============================================================================
