# A TLA+ model of eventengine

`eventengine` is a C++17 library over libuv: an event loop, timers, and a thread pool, each
behind a service with named entries. These modules model its own logic - what it keeps
beside libuv, and in which order it touches it - and check it against the behaviours that
its unit tests do not reach: pool threads against the loop thread, calls made inside
callbacks, timeouts against completions, handles that outlive their objects.

All paths below are relative to the repository.

## 1. The system

| Component | State | Operations | What makes it correct |
|---|---|---|---|
| `ThreadPoolService` (`src/threadpool/service`) | `tasks_` name -> entry (status, handle, callback, timeout timer), `activeCount_`, `completedCount_` | `submit`, `cancel`, queries; `wrappedWork` on pool threads; the timeout callback; `onTaskComplete` | a name has one task; each task runs at most once and is reported once, truthfully; counters equal what is in flight; no pointer to a request that is gone |
| `Work` (`src/threadpool/core`) | one `Context` on the heap per request | `queue`, `cancel`, `onWork`, `onAfterWork` | the Context lives exactly as long as libuv needs it |
| `TimerService` (`src/timer/service`) | `timers_` id -> entry, `pendingRemoval_`, `graveyard_`, the listener | `setTimer`, `cancelTimer`, `cancelAll`, `pauseTimer`, `resumeTimer`, `pauseAll`, `resumeAll`, `rescheduleTimer`, queries; the callback wrapper | fires as often and as late as asked; nothing that has ended fires; the limit; a callback is not destroyed while it runs |
| `Timer` (`src/timer/core`) | `callback_`, the uv handle | `start`, `stop`, `getDueIn`, `onTimer` | the callback reaches the object that owns the handle |
| `Handle` (`detail/handle.hpp`) | `handle_`, `data` of the uv handle | constructor, `close`, destructor, move, `onClose` | every uv handle is deleted once, after libuv has let go of it |
| `Loop` (`src/core/loop.cpp`) | the uv loop, `owns_` | `run`, `stop`, destructor, move | nothing is open when the uv loop is deleted |
| `Duration`, `RepeatPolicy` | values | arithmetic, factories | units agree, sum and difference agree as far as they can; the intended number of fires |
| `Error` | a code | `fromUV`, `name`, `message`, `throwIfError` | every code finds its own name, across the boundaries of the ranges |
| `Service`, `ServiceConfig`, `fwd`, `export`, umbrella headers | none | none | - |

How they interact. A client calls the services from the loop thread, either between two
calls of `Loop::run` or inside a callback. `ThreadPoolService` hands a closure to
`Work::queue`; libuv runs it on a pool thread, where it reads and writes `tasks_`, and then
calls `onAfterWork` on the loop thread, which calls `onTaskComplete`, which calls the
client, which may call the service again. A timeout is a `Timer` of the entry. A
`TimerService` owns a `Timer` per entry and starts it with a wrapper that looks its entry up
by id. `Timer` is a `Handle`: its `uv_timer_t` is closed by libuv in a later iteration of
the loop. The services refer to the `Loop` and are captured by the closures they leave in it.

What is hard: the unsynchronised table and status; callbacks that change the structure that
called them; names that are reused before the previous use is over; deferred removal
(`pendingRemoval_`, `graveyard_`, closing handles); the end of a loop or of a service while
something is under way. `PROJECT.json` lists these hazards one by one, at their lines.

## 2. The modules

| Module | Models | Proofs |
|---|---|---|
| `TaskLifecycle` | what the thread pool service promises, as a phase per name | - |
| `ThreadPoolService` | `ThreadPoolService` and `Work`, with pool threads and libuv's request queue | `ThreadPoolServiceProofs`, `ThreadPoolRefinementProofs` |
| `PoolLifetime` | the above with the destructor of the service and the `Loop` ended, moved, assigned, stopped | `PoolLifetimeProofs` |
| `ManagedTimer` | what the timer service promises of each id, without callbacks on a stack or deferred removal | - |
| `TimerService` | `TimerService` on the timers of a loop | `TimerServiceProofs`, `TimerRefinementProofs` |
| `TimerListener` | the event listener that calls `TimerService` back | `TimerListenerProofs` |
| `LoopHandles` | `Handle`, `Timer` as a handle, `Loop` | `LoopHandlesProofs` |
| `Errors` | `Error`, the error codes, their ranges and names | `ValuesProofs` |
| `Durations` | the arithmetic of `Duration` | `ValuesProofs` |
| `MC...` | instances for TLC: policies, clients, symmetry, codes, amounts | |

How they are composed. `PoolLifetime` extends `ThreadPoolService`: its `ServiceStep` is a
step of the service, guarded by what is still there, next to the steps that end the service
and the loop. `ThreadPoolService` implements `TaskLifecycle` and `TimerService` implements
`ManagedTimer`, each through an `INSTANCE ... WITH` of the abstract module and a mapping in
its own terms. `TimerListener` has its own, coarser view of the table of `TimerService`:
the statuses, and the stack of calls the listener interrupts. `MCValues` runs `Errors` and
`Durations` side by side.

libuv itself is external. Of a request the model has its stage (queued, running, done,
cancelled, being delivered), of a timer whether it is started, when it is due and its
repeat, of a handle whether it is open, closing or closed. Definitions that model libuv are
marked external in `PROJECT.json`.

Several modules contain *faulty variants* beside a definition ("Faulty variant: ..."). They
are not part of any specification. Each is a plausible mistake in the code next to it, and
for each property one is named in `PROJECT.json` that TLC must find to violate it.

### ThreadPoolService

A step of the model is a stretch of code that nothing else can observe in between. The loop
thread is inside at most one operation of the service (`lpc`, with its locals); pool threads
interleave with every step of it.

| Action | Code (`thread_pool_service.cpp`, `thread_pool_work.cpp`) |
|---|---|
| `Submit`, `InsertEntry`, `QueueWork`, `StoreHandle` | `submit`: the checks and the insertion of the entry; status and counter; `Work::queue`; handle and timeout timer |
| `QueueFails`, `EraseRejected` | the error path of `submit` |
| `Cancel`, `WorkCancel` | `cancel`: lookup and status; `uv_cancel` and its result |
| `TimeoutFires` | the callback of `startTimeoutTimer` |
| `PickUp`, `Lookup`, `MarkInProgress`, `RunWork` | a pool thread takes a request; `tasks_.find`; the status; the client's callback |
| `AfterWork`, `FinishTask`, `EraseEntry`, `DeleteContext` | `onAfterWork` and `onTaskComplete`; between the last two the client's after-work callback runs |

`tasks_` changes in two steps (`Mutating`). A lookup by a pool thread that falls between
them is a data race; the model lets it find or miss the entry. What the compiled program may
do beyond that (follow a freed bucket) is not modelled: the finding `TableAccessExclusive`
says that the race is there, and the other properties say what holds if the race has no
worse effect. `submit` and `cancel` are called by the client between runs of the loop and in
after-work callbacks, never by a work callback (the documentation forbids it). The client's
work and after-work callbacks may be empty: that changes nothing the model has.

`ran`, `promised` and `expired` are history: they only record.

### PoolLifetime

| Action | Code (`thread_pool_service.cpp`, `loop.cpp`) |
|---|---|
| `DestroyService` | `~ThreadPoolService`: the timeout timers stop, the table goes, the requests stay with libuv |
| `MoveLoop` | `Loop(Loop&&)`: the object the service refers to has no loop any more; moving back restores it |
| `DestroyLoop`, `ReplaceLoop`, `LoopEnded` | `~Loop` and `operator=` of a Loop that owns one: close all handles, `uv_run`, delete, take over |
| `StopLoop` | `Loop::stop` in an after-work callback while the loop is drained |

The closures of a task capture `this` and belong to libuv. What a program does when such a
closure outlives its service is undefined, so the model leaves that step out, and the
properties say it is never due: the client of this module destroys the service when
`activeCount()` is 0 (`Idle`), which is the only thing the interface gives it to wait for.
It may do so in an after-work callback. A Loop may be destroyed at any time outside
callbacks, with tasks in flight. If `uv_run` returns early because the loop was stopped,
the loop is deleted with something alive in it; that state is `abandoned`, and what follows
is undefined as well.

### TimerService

One thread, but calls nest: `frame` is the callback wrapper in progress, with the id it
captured, `shouldStop`, where its `Timer` is now (`timers_`, `graveyard_`, destroyed), and
whether the closure it runs in and the client's callback it has called, which is in the entry,
still exist. `FireBegin` is the wrapper up to the client's callback, `FireEnd` the rest; between
them the client makes any calls of `client.inside`. A flush moves the `Timer` of a running
callback to the graveyard, so its closure stays, but erases the entry, and the client's callback
with it: `frame` records that, `RunningCallbackKept` says when it can happen, and the model goes
on with what the wrapper does if nothing worse comes of it. `FireStale` is the wrapper of a `Timer` that was moved to the graveyard while started.

Time is relative: a started timer holds the ticks left until it is due, `Tick` takes one off
each, and a timer that is late stays at zero. That is what `uv_timer_get_due_in` returns and
makes the state space finite without a bound on time.

`pendingRemoval_` is a set here: a second occurrence of an id finds nothing to remove.
`fireCount` stops at `MaxFires`, which no finite policy exceeds (`TimerAssumption`); beyond
it only endless policies count, and they do not look at it. The destructor of the service is
`cancelAll` and has no action of its own.

What a client does is chosen once, in `client`, because some properties need a disciplined
one: the operations it uses between callbacks and inside them, and whether it cancels or
reschedules timers that have ended. A client is *orderly* if it leaves ended timers alone and
does not call `cancelAll` in a callback; such properties begin with `Orderly`.

`ManagedTimer` says per id what the client sees: status, time to wait, fires to go, interval,
and whether the next `setTimer` takes the timer away (`leaving`). Time passes for Running timers
only, a timer that has waited may fire, and its last fire is the one its policy says. A step
moves the timer it is about and no other (`OneTimer`), but for `pauseAll`, `resumeAll`,
`cancelAll` and the passing of time, which move what their names say, and `Set`, which takes
away timers that are leaving and no others. For an orderly client those have all ended. A client
that reschedules a timer after its end may lose it, Running, when it sets another one: that is
what the code does, and the reason why `leaving` is part of the view. (`Spare` is the opposite
case: a timer that was rescheduled inside its last callback is not noted, if the wrapper, whose
closure is gone, notes something else.) Pausing and resuming change the state only; that no
other step can be taken for them shows at the clients that never reschedule, for whom `wait`
changes with time, fires and cancellation alone. The mapping (`timer` and `discipline` in
`TimerService`) reads the entry, for a Running timer what libuv would say, and what the client
keeps to. It holds for every client, also one that is not orderly.

### TimerListener

Most operations tell the listener last. `cancelTimer`, the callback wrapper, and the loops of
`cancelAll`, `pauseAll` and `resumeAll` go on afterwards, with a reference or an iterator into
the table. `stack` is the calls in progress; each says what it does when the client's code
returns (`at`), and whether what it refers to is still good: `good` for the reference or the
iterator, `closure` for the function object it runs in. A call that would use a bad one has
no step, since what it does is undefined: the properties say for which listeners that is
never due, or hold up to there. Time is left out: a Running timer may go off whenever the
loop runs. The graveyard is left out too; it holds no entry, and no listener is told of it.

### Errors and Durations

`Errors` has the three enumerations, the ranges of `lookupName` and `lookupMessage`, and a
client that gets an `Error` from a constructor or from a result of libuv and perhaps throws it.
The services make each of theirs with `Error(int)`; which one an operation returns is modelled
where the operation is. A code outside its enumeration takes no case of the switch. (Converting an integer outside the
range of an enumeration without a fixed type is undefined in C++; the model has what
compilers do.) `Durations` has the named constructors step by step, wrapping after every
multiplication as the code does, and the two operators, for any modulus. Comparisons are
those of the integers.

### LoopHandles

`Objects` are places for a `Timer`, `Cells` heap cells for its `uv_timer_t`; both are reused.
`closing` cells wait for `onClose`; `forced` ones were closed by `closeAllHandles`, which
passes no callback, so nobody deletes them. `loop` says whether the loop is between runs,
inside `uv_run`, being drained by the destructor of `Loop`, or deleted. `client` is chosen
once and says what the client keeps to: whether its `Loop` outlives its `Timer`s, and whether
it calls `Loop::stop` between runs, which leaves the stop flag set for the next `uv_run`.

## 3. The runs

Passing runs:

| Run | Instance | Shows |
|---|---|---|
| `PoolSafety` | 2 names, 3 Contexts, 2 pool threads, 3 submissions; 49 715 states | type and bookkeeping, handles, statuses, results, cancellation, and that `TaskLifecycle` is implemented |
| `PoolLifetime` | 2 names, 2 Contexts, 1 thread, 2 submissions; 107 496 states | when the service may be destroyed; every accepted task is reported although the Loop ends, moves or is replaced; the end of a Loop ends; the invariant of the service survives all of it |
| `TimerSafety` | 3 ids, limit 2, timeouts 1 and 2; one-shot, twice with interval 1, for ever with interval 0; a client that does everything anywhere, an orderly one, and an orderly one that never reschedules; 100 888 states | nothing stopped fires, Running means counting except where a zero interval leaves a timer behind, the limit, the graveyard, removal of what has ended, what destroys a running callback, the documented state machine, and that `ManagedTimer` is implemented: budgets, deadlines across pauses, which timers a call moves |
| `TimerLiveness` | 2 ids, timeout 2, no rescheduling; one-shot, twice and for ever, with intervals 0 and 1; 143 638 states | a timer that is Running while time passes fires, except where a zero interval leaves it behind |
| `TimerListener` | 2 ids, 3 calls deep, listeners with every one or two operations and with all of them; 778 845 states | the wrapper keeps its entry and the loops their iterators, live timers stay listed, no timer ends untold |
| `HandleSafety` | 3 objects, 3 cells, all four kinds of client; 15 596 states | owners, callbacks, leaks, the destructor of `Loop`, closing ends |
| `Values` | codes -302 to 3, 16-bit Durations, amounts around every point where a unit wraps; 3 106 states | names of codes; units, sums and differences |

The bounds. Two names are needed for tasks to be confused with one another, two pool threads
for two tasks to run at once, three submissions for a name to be reused while another task
is in flight; a third Context lets a deleted one be reused or not. `PoolLifetime` needs one
task in flight and one that is submitted while the loop ends; its thread is slow or fast as
it likes. A limit of two timers with three ids makes the limit bind while a third id waits; a
timeout of two and a repeat of one distinguish "due now" from "due later" and from the first
timeout, and an interval of zero is the one libuv does not repeat; two fires are the smallest budget with a fire that is not the last. In
`TimerListener` a depth of three is the wrapper or a loop, a call from its listener, and a
call from that one's listener; two ids are one the call refers to and another. The codes
cover all three ranges and both ends. `MaxTasks` bounds accepted submissions and stands in
the guard of `Submit`; `MaxDepth` stands in that of the listener's calls; `MaxFires` is the
saturation above. Deadlock is not checked in the runs of the pool, of the handles and of the
listener: a client may stop using the library at any time, and a listener may have spoilt the
call it interrupts. In `TimerService` time always passes, and it is checked.

Fairness. *Pool* (`LifeFairness`): a call of the service goes on (`WF` of `CallStep`), a pool
thread goes on with the request it has taken (work callbacks end), and libuv serves its queue
in order, which rules out passing over a request for ever (`SF` of `PickUp` per request); the
client runs the loop again and again and its callbacks return, so finished requests are
delivered (`SF` of `AfterWork` and of `DeleteContext`: between two of these the client may
call the service any number of times); a `uv_run` with nothing to wait for returns (`WF` of
`LoopEnded`). Nothing is assumed of the client's calls, nor of the timeouts: the destructor
of `Loop` closes their handles. *Timers*: the loop updates its time, runs every timer that is
due before it polls again (`SF` of `FireBegin` per id), and callbacks return. That time
passes again and again *while the timer is Running* is a hypothesis of `RunningTimerFires`: a
client may pause it before every tick. *Handles*: the client runs a loop that is alive, and
an iteration of `uv_run` ends with the closing handles (`SF` of `OnClose`).

Runs that TLC must find violated; each is a disagreement between the code and what the
repository says of it, quoted in `PROJECT.json`:

| Run | The code | The repository says |
|---|---|---|
| `PoolTableAccessExclusive` | pool threads read and write `tasks_` without a lock | the table is used from the loop thread |
| `PoolTimedOutTaskIsCancelled` | a timeout does nothing to a task that has started | a timeout cancels before or during execution |
| `TimerLifecycleOrdered` | `rescheduleTimer` revives an ended timer, which the next `setTimer` drops | Expired and Cancelled are final |
| `HandleCleanedUp` | after `Loop::stop` between runs, the destructor's `uv_run` returns at once and the loop is deleted with handles closing | `Loop` ensures proper cleanup |
| `HandleStartAfterCloseFails` | `start` after `close` passes a null pointer to libuv | it returns an error and does not crash |

Seen while modelling, without a run of its own:

* `setTimer` checks for duplicates and for the limit before it removes what has ended
  (`timer_service.cpp:105`): an id that `hasTimer` denies is refused as existing, and ended
  timers count against the limit. Refused, it does not flush, so a table full of ended timers
  refuses every new id until `cancelAll`.
* `status()` says Finished of a task that was cancelled, in its own after-work callback and
  ever after (`thread_pool_service.cpp:82`).
* A repeating timer with a zero interval fires once and stays Running, while libuv has no
  timer for it any more (`timer_service.cpp:43`; `TIMER_SERVICE.md:143`: "timer is active and
  counting"). `RunningIsArmed` and `RunningTimerFires` name this as the one exception
  (`Stranded`); the runs have such timers, and the theorem covers them.
* A callback that cancels its own timer, when that was not the last fire, and then sets another
  one destroys the `std::function` that is running (`timer_service.cpp:91` under `:72`), also
  for an orderly client: the flush erases the entry, and the graveyard keeps its `Timer` only.
  `RunningCallbackKept` says that there is no other way.
* A timer that was cancelled and then rescheduled is Running, and still noted for removal: the
  next `setTimer`, of any id, drops it (`timer_service.cpp:85-95`).
* `TIMER_SERVICE.md:337-343` and `THREAD_POOL_SERVICE.md:303-308` list libuv's codes
  (`UV_EEXIST`, `UV_ENOENT`, `UV_EALREADY`, `UV_ENOSPC`, `UV_EINVAL`, `UV_ECANCELED`) as what the
  services return; they return `EE_TIMER_...` and `EE_POOL_...`, with other values.
* A `Timer` that outlives its `Loop` loses its `uv_timer_t`: the Loop closes the handle without a
  callback (`loop.cpp:64`) and nobody deletes the cell. So does a Loop that was stopped between
  runs and is deleted with handles closing. `NothingLeaks` names both and says there is no other.
* `RepeatPolicy::times(x, UINT32_MAX)` is `forever` (`repeat_policy.hpp:41`).
* `resumeTimer` replaces the timeout that `info()` calls the initial one
  (`timer_service.cpp:192`); `cancelTimer` succeeds on an expired timer where
  `TIMER_SERVICE.md` promises an error.
* A callback that calls `cancelAll`, or reschedules its own timer after its last fire,
  destroys the closure its wrapper still reads: `LastCallbackKept` needs an orderly client.
* `emitEvent` in the middle of an operation (`timer_service.cpp:66,68,145,162`): a listener
  told Fired or Expired that reschedules, or pauses and resumes, the timer destroys the closure
  of the wrapper; one that cancels it does not prevent its callback; one that cancels and sets
  timers, or calls `cancelAll`, leaves the wrapper a reference to an entry that is gone. A
  listener that sets timers or calls `cancelAll` inside the loops spoils their iterators
  (`ReferencesKept` says that no other does); one that does both while `cancelTimer` waits
  leaves a live timer noted for removal. `cancelAll` tells Cancelled again of timers that
  have ended, and clears timers set meanwhile without a word. A listener that clears or
  replaces the listener destroys the function it runs in.
* `fromUV` maps every negative result to `EE_UNKNOWN`, so `EE_INIT_FAILED` is never produced
  (`error.cpp:124`, `error_code.hpp:17`).
* A Duration that wraps may come out as zero, which `submit` takes for "no timeout".
* Move assignment of `Handle` cannot be instantiated (`handle.hpp:80` assigns a reference to a
  class without copy assignment).

## 4. The proofs

TLAPS checks, for every value of the constants:

* `ThreadPoolServiceProofs`: `Spec => []IndInv` (`Invariance`), and from it every safety
  invariant of `PoolSafety`. The invariants are not inductive by themselves. That
  `onTaskComplete` finds its entry, for example, needs that every request libuv holds is the
  handle of the entry of its name (`RequestsTracked`), which needs that names in flight are
  distinct, which needs what the loop thread knows between the steps of `submit`
  (`CallConsistent`). `IndInv` is the conjunction; the proof has one lemma per action. The
  counter is proved equal to a cardinality, so the module uses the theorems on finite sets.
* `ThreadPoolRefinementProofs`: `Spec => LifecycleRefined`. The mapping `phase` is a
  function of the stage of the request of a name, or of the report in progress.
  `PhaseInFlight` and `PhaseAtRest` say what it is in a state of the invariant; each action
  the abstract specification sees has a lemma, the others leave the mapping unchanged
  (`Stutter`).
* `PoolLifetimeProofs`: `BookkeepingCorrect`, that the invariant of `ThreadPoolService` holds
  in `PoolLifetime` too. Steps of the service are steps of `ThreadPoolService`, so only the
  ends are new: with `activeCount_ = 0` nothing is in flight (`NothingInFlight`, from the
  cardinality in `CountersConsistent`), so dropping the table drops no entry a request needs;
  the end of a loop only takes timers away. `EndsInvariance` adds what is known once service
  or loop have ended, and gives `ClosuresFindService` and `LoopOutlivesTasks`. `LifeRefinement`
  says that `TaskLifecycle` is still implemented: the ends change nothing the mapping reads
  (`EndsAreHidden`), and every other step is one `ThreadPoolRefinementProofs` has.
* `LoopHandlesProofs`: `IndInv` of `LoopHandles` and from it `TypeOK`, `OwnerSound`,
  `CallbackFindsOwner`, `NothingLeaks` and `LoopCleansUp`. The strengthening says that an
  open handle is owned by the object in its `data`, and what the destructor of `Loop` finds.
  `NothingLeaks` is about every client: a cell without an owner is closing on a Loop that exists,
  or lost in one of the two ways it names.
* `TimerServiceProofs`: `IndInv` of `TimerService` and from it every invariant of
  `TimerSafety` but `RunningIsArmed`, which has a proof of its own. `EntrySound` is what holds of an entry by itself: the Timer is armed only when
  Running and then with the repeat of the policy, and the number of fires fits the status.
  `GraveyardDisjoint` and "ended means noted" are not inductive alone: the flush in `setTimer`
  leaves an ended entry behind whose last callback is running, and only the wrapper in progress
  will note it, provided its closure is intact (`WillBeNoted`, `EndedIsNoted`). For an orderly
  client, `LastCallbackUntouched` says that the entry of a last callback has ended and is not
  noted yet, so none of its calls can reach it, and no live timer is noted (`OrderlySound`).
  `ArmedCorrect` (`RunningIsArmed`) goes action by action: a start arms the Timer, and a fire
  that was not the last re-arms it or strands it (`FiredArmed`). `CallbackCorrect`
  (`RunningCallbackKept`) needs that a callback which is not the last runs in an entry that has
  not expired (`NotLastNotExpired`), so an orderly client can only have it noted by cancelling it.
* `TimerRefinementProofs`: `Spec => TimersManaged`, one lemma per operation on how it moves the
  view of each id, and `Spec => OrderlyLifecycle`. That a fire is the last one exactly when
  `toGo` is 1 needs the budget in `EntrySound`; that `setTimer` takes away only what is leaving,
  and leaves at most one such timer behind, needs `EndedIsNoted`; that an orderly client loses no
  timer that runs or is paused, and needs no `Spare`, needs `OrderlySound`.
* `TimerListenerProofs`: `IndInv` of `TimerListener` and from it all four properties, for any
  ids, any clients and calls nested to any depth. No induction on the depth is needed: every
  step carries the first m calls of the stack over, perhaps disturbed (`Carried`), and puts at
  most one more on top (`Becomes`). One lemma per action says with which m and which disturbance
  (`...Shape`), one lemma per part of the invariant what such a step must not do (`...Kept`), and
  one lemma per action puts the two together (`...Keeps`). `LiveIsListed` is not inductive:
  `cancelTimer` and the wrapper note an id only after the listener has run, so what they are
  going to note must have ended and stay so (`NotedHasEnded`), which fails if its entry can be
  erased and its id set again; hence the entry is still there, and only one call is going to
  note it. `ReferencesKept` needs that a wrapper is the first call of the stack, that nested
  calls are among those the client makes, and that resume and flush do not apply to the entry of
  the wrapper (`WrapperUntouched`). `NoSilentEnd`, an action property, needs that `cancelAll` has
  still to come to every live timer (`LeftToCancel`), or the final clear would take one.
* `ValuesProofs`: for any set of integers as codes, `NameTellsCode`, from the ranges and the
  enumerations case by case (the Error a client holds has an integer code: `CodeIsInteger`); for
  every modulus, `UnitsAgree` and
  `SumAndDifferenceAgree`. The units rest on facts about remainders: a product may be reduced
  before or after the multiplication.

The proofs assume `PoolAssumption` (there are finitely many Contexts, `None` is not one of
the values it stands for the absence of), `HandleAssumption` (the latter for `LoopHandles`),
`TimerAssumption` (finitely many ids, policies within `MaxFires`), `ListenerAssumption` (the
clients are of the kind `Client`, and one call may be in progress), `CodesAssumption` (codes are
integers) and `DurationAssumption` (the modulus is positive). TLC evaluates them all. The proofs
are about the model: libuv's guarantees are the external definitions, and the data race is the
two-step table described above.

Only model-checked: the four liveness properties `TaskReportedDespiteEnd`, `LoopEnds`,
`RunningTimerFires` and `ClosingEnds`. They hold by fairness, and the provers have neither
`ENABLED` nor the induction over a run that they would need. Every other property of the passing
runs is proved. The five properties of the runs that expect a violation are false, and TLC's
counterexamples are what is known of them.

## 5. Not modelled

* `Timer::again`, `setRepeat`, `getRepeat`: no caller in the repository, no documented state in
  which they are used. Move assignment of `Handle`: does not compile when used.
* What the compiled program does after undefined behaviour: a closure, reference, iterator or
  request used after its owner is gone. The models stop at that step - or, in `TimerService`, record in
  `frame` what is gone and go on with what the wrapper may do then - and the properties say when
  it is not reached.
* A `Loop` that does not own its uv loop (`owns_ == false`): its destructor does nothing.
* Failures of `uv_timer_init` and `uv_timer_start`, which libuv reports only for bad arguments.
* Build files, export macros, forward declarations, `Service` and `ServiceConfig`
  (declarations without behaviour), the text of error messages, tests and examples (read as
  clients).
