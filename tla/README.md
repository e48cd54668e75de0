# TLA+ models of the Synchronization-Library

The library is a set of C++ headers in `src/stdlib` (what the standard library
offers or will offer: mutexes, condition variable, shared mutex, stop token,
barrier, latch, threads) and `src/sync` (semaphores, events, fast mutexes,
queues, thread pools). This directory models its synchronization primitives in
TLA+, checks the models with TLC on small instances and proves some of their
properties with TLAPS for every instance.

    tlc -config Semaphores.cfg MCSemaphores   # one run; see the table below
    tlapm SemaphoresProofs.tla                # one module of proofs

`PROJECT.json` holds the machine-readable side: components, runs, the mutant
that shows each property can fail, the source lines of each definition,
findings, hazards and theorems.

## 1. Inventory

| Component | Source | State | Operations | What makes it correct |
|---|---|---|---|---|
| condition_variable | `stdlib/_mutex.hpp:195-279`, `internal/sync_cond.hpp` | the threads asleep | wait, wait_for, wait_until (with and without predicate), notify_one, notify_all | a notification wakes sleepers, a wait may end for no reason |
| mutex, lock_guard, unique_lock | `stdlib/_mutex.hpp:1-193`, `internal/sync_mutex.hpp` | the platform's mutex; owns_ | lock, try_lock, unlock, moves | exclusion; one owner unlocks once |
| timed_mutex, recursive_timed_mutex | `stdlib/mutex.hpp:16-194` | a flag, or an owner and a count, beside mutex and cv | lock, try_lock, try_lock_for/until, unlock | exclusion, no lost wakeup, count balanced |
| lock, try_lock, scoped_lock | `stdlib/mutex.hpp:196-378` | none of their own | lock several mutexes | all or nothing; nobody blocks holding one |
| call_once | `stdlib/mutex.hpp:380-395` | an atomic flag | call_once | the function runs once |
| shared_mutex, shared_timed_mutex | `stdlib/shared_mutex.hpp:8-185` | state_ (bit and count), a mutex, two gates | lock, try_lock, timed, shared forms, unlock | readers or one writer; no lost wakeup; an entered writer is served |
| shared_lock | `stdlib/shared_mutex.hpp:187-308` | owns_ | lock_shared through a handle | one owner unlocks once |
| stop_source, stop_token, stop_callback | `stdlib/stop_token.hpp` | one atomic word, a linked list of callbacks | request_stop, get_token, register, destroy | each callback runs at most once and is not touched after its destruction |
| barrier, flex_barrier | `stdlib/barrier.hpp` | countdown, participants, mutex, cv | arrive_and_wait, arrive_and_drop | nobody passes early, everybody passes |
| latch | `stdlib/latch.hpp` | an atomic countdown, mutex, cv | count_down, count_down_and_wait, wait, is_ready | nobody passes early, everybody passes |
| thread, jthread | `stdlib/_thread.hpp`, `stdlib/thread.hpp`, `internal/sync_thread.hpp` | a handle, a stop_source | construct, join, detach | joined or detached once |
| semaphore, fast_semaphore | `sync/semaphore.hpp` | a counter, mutex, cv; an atomic counter in front | post, post(n), wait, wait_for/until | tokens conserved, no token beside a sleeper |
| manual_event, auto_event | `sync/event.hpp` | a flag, mutex, cv | signal, reset, wait, wait_for/until | no lost signal; one thread per signal (auto) |
| fast_mutex | `sync/mutex_extra.hpp:36-60` | an atomic word, an auto_event | lock, try_lock, unlock | exclusion, no lost wakeup |
| fast_shared_mutex | `sync/mutex_extra.hpp:62-118` | two atomic counters, two semaphores, a fast_mutex | lock, try_lock, shared forms, unlock | readers or one writer; writers not starved |
| spinlock_mutex, os::rw_mutex | `sync/mutex_extra.hpp:14-34`, `120-164` | a flag; the platform's lock | lock, unlock | exclusion |
| queues | `sync/queue.hpp` | deque, mutex, cv or semaphores; ring of slots | push, pop, try_, done | each element delivered once, in order |
| thread pools | `sync/thread_pool.hpp` | workers and queues | async, destructor | every task runs; the destructor returns |
| os barriers | `sync/barrier_extra.hpp`, `internal/sync_barrier.hpp` | the platform's barrier | arrive | forwards |

**How they interact.** There is no message passing: components are objects
shared by threads. `semaphore`, the events, the barriers, the latch and the
shared mutex are monitors built from a mutex and a condition variable (the
semaphore, and `simple_blocking_queue`, from the `std::` ones, the others from the
library's). Over these
stand `fast_semaphore` (over `semaphore`), `fast_mutex` (over `auto_event`) and
`fast_shared_mutex` (over `fast_mutex` and two `semaphore`s), whose fast path is
one atomic operation. `blocking_queue` and `lock_free_queue` take a semaphore and a
mutex type as parameters, the thread pools a queue type; `jthread` is a `thread`
and a `stop_source`.
`stop_source` calls back into user code, with its list unlocked.

**What is hard.** Notifications sent after the mutex is released (`semaphore`,
the events, the barriers); the step between an atomic operation and the slow
path that follows it (`fast_semaphore`, `fast_mutex`, `fast_shared_mutex`);
timed waits that end at the moment of a notification; a barrier used again
before everybody has left; callbacks destroyed while they run, by others or by
themselves; failed attempts that must leave nothing behind. Nothing is
persisted and nothing is sent, so there is no recovery and no lost message.
`PROJECT.json` lists each hazard at its line with the properties that cover it.

**The state of the code.** No header compiles on Linux with g++ as it stands
(`namespace sync` collides with `::sync()` of `unistd.h`), and some have errors
of their own: in `shared_mutex.hpp` line 54 lacks the parentheses of a call,
`chrono::` is unqualified, and constructor and methods are declared and not
defined; in `queue.hpp` members are misspelt (`one_` for `done_`, `m_popIntex`), a
variable is used outside its scope, and returns are missing;
`auto_event::wait_until` (`event.hpp:86`) gives a `std::unique_lock` a
`sync::mutex`; `barrier.hpp` includes a file by the wrong path. The models read
the code by what it says: `gate1_.wait;` in a predicate loop is a wait on the
held lock, a pop without a return statement returns what it popped. Nothing
beyond such slips is corrected: where the code compiles and does something odd
(a try_lock that keeps a mutex, a destructor that counts up) the model does the
same.

## 2. How the code is modelled

* **Critical sections.** What a thread does between taking a mutex and releasing
  it, or between two waits of one critical section, is one action. A
  notification sent after the unlock is an action of its own
  (`SignalOne`, `SignalAll`, `SignalAwake`, `Awaken`), one sent inside is not
  (`SharedMutex`).
* **Waiting.** `CondVar` is the set of sleeping threads. `cv.wait(lock, pred)` is
  three actions: `Sleep` when the predicate is false, `Wakeup`/`Unblock` at any
  time (a notification, a spurious wakeup, the end of a timed wait), and the
  action that finds the predicate true. Between wakeup and second look any other
  thread may run.
* **Time.** A deadline is `none`, `pending` or `passed`; it passes at any moment.
  A timed wait looks at its predicate once more after the deadline
  (`_mutex.hpp:261-270`), which is why `GiveUp` demands it false.
* **Atomics.** Every atomic operation is a step, and so is every call of another
  primitive. Memory is sequentially consistent: the memory orders of the code
  are not modelled.
* **Layers.** A primitive that uses another one uses its abstract specification
  (`FastMutex` an `AutoResetEvent`), and the other one is shown to implement
  that specification, fairness included (`AutoEvent`). So the chain
  `semaphore`, `auto_event` -> `fast_mutex` -> `fast_shared_mutex` is checked
  layer by layer.
* **Callers** obey the contract: only a holder unlocks, a barrier has as many
  participants as it was told. The counters of the code are machine integers;
  none reaches its end in an instance of this size, except where a constant brings
  the end within reach: the reader limit of `shared_mutex` (`MaxReaders`), the
  count of `recursive_timed_mutex` (`MaxCount`), and the `int` to which
  `fast_shared_mutex::unlock()` narrows a `long` (`MaxInt`).
* An operator marked `mutant` is a plausible bug of the definition after it. No
  specification uses it; substituted for that definition it must make its
  property fail (`PROJECT.json`, "mutants").
* Variables called history in their declaration are read by properties only.

## 3. The modules

Abstract specifications, each a page long:

| Module | Promises | Implemented by | Used by |
|---|---|---|---|
| `CountingSemaphore` | a wait takes one token that is there; a timed wait fails only without one; tokens and waiters do not stay side by side | `Semaphore`, `FastSemaphore` | `FastSemaphore`, `FastSharedMutex`, and in their form `BlockingQueue`, `LockFreeQueue` |
| `AutoResetEvent` | a signal lets one thread through; an event that stays set is consumed | `AutoEvent` | `FastMutex` |
| `MutualExclusion` | one holder; a free lock that is waited for is taken (`Spec`), or is until somebody's attempt ends (`SpecTimed`) | `FastMutex`, `TimedMutex`, `RecursiveTimedMutex` | `FastSharedMutex` |
| `SharedExclusion` | readers or one writer; a waiting thread that could enter does (`Spec`), or somebody does (`SpecOfAny`) | `FastSharedMutex`, `SharedMutex` | |
| `Fifo` | a bounded queue: every item comes out once and in order; a pop waits only while it is empty, a push only while it is full, and `closed` ends the waiting | `SimpleQueue`, `BlockingQueue`, `LockFreeQueue` | in its form `ThreadPool` |

Components:

* `CondVar` - the condition variable; used by every monitor.
* `Semaphore` - `count_`, `pc`, `deadline`. `post(n)` is `PostMany` followed by
  `SignalAll`.
* `FastSemaphore` - the atomic `count_`, the value of the slow semaphore, and
  the two steps of each call.
* `AutoEvent`, `ManualEvent` - `signaled_`, `pc`, `deadline`. They are two
  modules as they are two classes: one resets on passing, the other has `Reset`
  and notifies all. Both begin set or not set, the argument of the constructor.
* `FastMutex` - `state_` (0 free, 1 held, 2 held with waiters), the event. Each
  `exchange` is a step; the first one of `lock()` writes 1 over a 2 and is
  modelled as it is.
* `FastSharedMutex` - `rdcount_`, `rdwait_`, the semaphores, the holder of
  `wrmtx_`, and the local `count` of the writer. `try_lock_shared` that fails
  keeps its decrement and `try_lock` that fails keeps `wrmtx_`, as in the code;
  `Intact` says that neither has happened, and `Phantoms` counts
  the failed calls of `try_lock_shared`. `unlock()` keeps what it read off the
  counter in an `int` (`mutex_extra.hpp:106`): `Narrow` takes the value modulo the
  int's width, before the sign is tested and the tokens are posted. `-count` of the
  least int overflows; the builds make that same int of it, which `post()` takes as
  the unsigned number that was meant, and so does the model.
* `Barrier` - `count_`, `threads_`; history `round`, `arrived`. A waiter leaves
  when it finds `count_ = threads_`, as the code does: there is no round
  number.
* `FlexBarrier`, `MCFlexBarrier` - the same with a completion function, whose
  result is any of `Results`. The countdown is not started again, as in the code.
* `Latch` - the atomic count, which changes under no mutex, so that the look at it
  and the sleep are two steps. The old value is compared with 0: the arrival
  that brings it to 0 waits like the others and notifies nobody.
* `SharedMutex` - `write_entered_` and `readers` (the parts of `state_`), the two
  gates, deadlines of `shared_timed_mutex`. The blocking calls and the timed
  ones are the same actions with and without a deadline.
* `TimedMutex`, `RecursiveTimedMutex` - the flag `locked_`, or `id_` and `count_`,
  beside a condition variable. A call of the owner counts; at the limit of the
  count a timed attempt fails and `lock()` is an assertion, so that the model
  has no step there.
* `MultiLock` - `lock()`, `try_lock()` and `scoped_lock` for any number of mutexes: the
  recursion of the templates becomes `taken`, the number of mutexes that the call
  has, counted from `start`. The mutexes are exclusive locks, one operation a step.
* `UniqueLock` - the objects of one client, each with or without a mutex (`mtx_`)
  and owning or not (`owns_`). `lock()` and `try_lock()` do not set `owns_`, as in the
  code, so the client itself comes to owe an unlock (`owed`). The defaulted move
  constructor leaves both objects owners; history `duplicated` tells that a lock
  lost its only owner or got a second one.
* `Threads` - `thread` and `jthread` objects and the POSIX threads they own. The
  stop state of a `jthread` is named after the thread it was made with, so that a
  property can ask whether ~jthread stops the thread that it joins. A failed
  assertion or `std::terminate` is an action that ends the behaviour (`fatal`).
* `StopState` - the word (`stop_requested`, `locked`, `tokens`, `sources`), the
  list as a sequence, the local variables of `request_stop()` (`current`,
  `empty`, `removed`), and the life of every callback object. A step is an
  atomic operation on the word with the list operations made under its lock.
  Callbacks may destroy themselves and others, also while they run.
* `StopHandles` - the tokens and sources that share several states: construction,
  copies, moves, swaps, assignments, destruction, and the two counts. ~stop_source
  counts a source more, as in the code, which is why no state is ever freed and
  `deleted` stays empty.
* `SimpleQueue` - `queue_`, `done_`, and the monitor around them.
* `BlockingQueue` - the ring, its two semaphores and its critical sections.
* `LockFreeQueue` - the ring, every access to shared memory a step. The constant of a
  behaviour `serialised` tells whether its callers let one push and one pop run at
  a time; nothing in the code makes them.
* `ThreadPool` - both pools (`stealing`), their queues, workers and posters. The
  attempts at a queue may fail at any time, as `try_lock` lets them.

The modules named `...Proofs` hold the theorems, each about the module whose name it
bears, or `MC` and that name (section 6).

Composition for TLC: `MCSemaphores`, `MCEvents` (with `FastMutex`), `MCBarriers`,
`MCMutexes`, `MCQueues`, `MCThreadPools` and `MCStop` each hold several small components
that do not act on each other. A behaviour picks one of them in its initial state and never leaves it; the others stay as they were
constructed. Their state space is the sum of the parts, not the product, and a
property such as `Consistent` is the conjunction of the parts' properties, each
stated and explained in the part. The fairness of all parts is assumed in every
behaviour. That asks for nothing of a part that is not picked: its fair actions
are those of threads inside a call, and nobody is inside one in its initial state. Two
parts need care: arrivals at a barrier are fair, so `MCBarriers` restricts
that to the behaviours of barrier; and the workers of a stealing pool look around
for ever, so in `MCThreadPools` the pool that is not picked is the simple one.

## 4. The runs

| Run | Instance | Checks |
|---|---|---|
| `semaphores` | 4 threads, at most 2 tokens, one at first | `NoLostWakeup`: never more tokens of `semaphore` beside sleepers than threads under way to see to them. `SlowPathBalance`: threads in the slow wait of `fast_semaphore` = what the counter owes + slow tokens + posts on their way. `ImplementSemaphores`, `TimedWaitReturns`. |
| `events` | 4 threads, each event set or not at first | `NoLostSignal` of both events (`NobodyShutOut` for manual_event: nobody sleeps before an open gate unless the notification is coming), `ImplementsEvent`, `OpenGatePassesAll`; of `fast_mutex` `ExclusiveWord`, `NoLostWakeup`, `ImplementsMutex` |
| `fast_shared_mutex` | 4 threads, one of which also makes attempts; three failed `try_lock_shared`, an int up to 4 | `ImplementsLock`: exclusion always, service until an attempt fails. `DrainBalance`: a draining writer never waits for fewer readers than are still to leave, and for exactly those while the failed calls fit the int of `unlock()`. `WriterServed`. |
| `barriers` | barrier: 4 participants, 3 rounds, drops. flex_barrier: 3 participants, 3 late arrivals, a function that keeps, ends or resets the number. latch: 4 threads, count 2 | `NobodyEarly`: nobody passes any of the three before enough have arrived. `Consistent` (the waiters of a barrier are those that are counted), `StrandedOnlyIfLapped`, `WaitersPass` (everybody passes a barrier unless somebody is lapped; everybody passes a flex_barrier that its function ended; who is awake at a latch at 0 passes) |
| `flex_barrier_destructor` | 3 participants, default function | violated: the assertion of the destructor (finding) |
| `mutexes` | 3 threads; shared: room for 2 readers; recursive: count up to 2; several: 3 mutexes in the orders 1 2 3 and 3 1; unique: 3 objects | `Consistent` (`WordTold`, `OwnerTold`, `AllTaken`, `OwedOnce`), `NoLostWakeup` of the three mutexes, `NothingKept` and `LoneCallerServed` of `MultiLock`, `EnteredWriterServed`, `ImplementLocks` |
| `stop` | one state: 3 threads, 2 callbacks; handles: 2 tokens, 2 sources, 2 states, sources counted up to 5 | `NoUseAfterDestroy`, `RequestLeavesNothing`, `EveryCallbackServed`, `DestructorReturns`, `Consistent` (`TokensCounted`, `ReferencesCounted`) |
| `queues` | 3 threads, 2 items, capacity 2 | `ImplementsFifo` of each, `NoLostWakeup`, `Consistent` (`RingSound`, `CountInRange`) |
| `thread_pools` | pools: 2 workers, 2 posters, 3 tasks; objects: 2 threads, 2 jthreads, 2 POSIX threads | `TaskInOnePlace`, `EveryTaskRuns`, `Consistent` (`ThreadsAccounted`), `DestructorReturns` |
| `thread_detach` | 1 thread, 1 jthread | violated: the assertion of the destructor after detach() (finding) |

The runs also check the type invariants (`TypesOK`, or a part of `Consistent`, where
components are composed), whose interesting part is that
sleepers are inside a wait and that counters stay within what the threads can
account for.

**Bounds.** Three threads show the races of a monitor: one that changes the
state, one woken for it, one that comes between. Four are used where two waiters
and two others matter (a signal passed on between waiters, two writers beside
two readers, a lapped participant in a barrier with a drop). `MaxCount` of `Semaphore`
and `FastSemaphore` is a bound on what callers post; with two tokens and four
threads there are fewer tokens than threads and more than one. `MaxRounds = 3` is one
more round than lapping needs. `MaxLate` lets every thread arrive once more after
the countdown has ended. `Expected = 2` of four threads leaves the latch arrivals
after the last one. `MaxPhantoms` is a bound on failed attempts: every one takes
one more off `rdcount_` for ever. `MaxReaders` stands for the limit of the code's
integer; in `fast_shared_mutex` it must have room for the threads and the failed calls
(`MaxReadersAssumption`), as a `long` of 64 bits has for 2^63 of them. `MaxInt` stands
for the limit of an `int`, no higher than that of a `long`: with 4, `unlock()` narrows
what three waiting readers and three failed calls are owed, and `FitsInt` holds up to
one failed call. In `shared_mutex` it is 2 so that the third thread meets the limit. `MaxCount` of
`RecursiveTimedMutex` stands for the limit of its count in the same way. Three
mutexes and two orders that disagree on two of them contain the cycle on which
blocking with one held would deadlock, and a third mutex at which an attempt can
fail with two taken. Three threads at a ring of two slots fill it, empty it, and
overlap on one end while the other moves. Two workers, each with its queue, and
three tasks leave one queue with work while its worker is busy and the other idle.
`MaxSources` ends the growth of a count that the code only increments.

**Fairness.** A thread inside a call keeps running (`WF` for the actions that
follow the first), which is what the operating system grants; a deadline passes
and the timed wait returns after it. No caller has to call. Weak fairness of an
action that takes a mutex stands for a mutex that is not denied to one thread
for ever; strong fairness is nowhere assumed. Holders unlock in the
reader-writer locks, because a reader that stays keeps every writer out, and a
barrier's participants arrive or drop; a holder of any exclusive lock need not
unlock, since the liveness there says only that a *free* lock is taken. A primitive
used by its abstraction is fair as its own refinement shows: some waiting thread
is served (`WF(\E t : ...)`), never a particular one; this holds for the semaphores of
the queues and for the queue of the simple pool. Tasks of a pool and functions of
a jthread end, those of a jthread once a stop is requested.

**Deadlock** is not checked where the system may stop: in `semaphores` every caller
of the fast one may wait with nobody left to post; in `barriers` the bound on rounds ends the
run, a lapped thread leaves all waiting, a flex_barrier that goes on lets nobody through; in
`stop` the callbacks and the bound on sources are used up; in `fast_shared_mutex`
a failed `try_lock` keeps `wrmtx_`; in `queues` everybody may pop from an empty
ring; in `thread_pools` every task has run, or the program was aborted. It is checked
in `events` and in `mutexes`, where it is the main point of `MultiLock`.

## 5. What the checks show

* `semaphore`, `fast_semaphore`, `auto_event`, `fast_mutex`, `timed_mutex` and
  `recursive_timed_mutex` do what they promise, including every race between a
  notification after the unlock, a newcomer that takes what was posted, and a
  deadline that passes. The timed mutexes satisfy `SpecTimed`: a free lock is taken
  unless the attempt of the thread that was woken for it ends, and then another
  one follows.
* `fast_shared_mutex` keeps readers and writers apart in every case. Its blocking
  calls serve everybody's turn. Its failed attempts do not clean up: after a
  failed `try_lock_shared` a reader is counted that never leaves, in whose place a
  token of `rdsem_` is posted; a later writer waits until some reader has used that
  token and left. These calls add up for ever, and `unlock()` keeps what it owes
  in an `int`. Once the failed calls and the readers that wait pass 2^31 together
  (`FitsInt` allows for one reader less than there are threads), the narrowed number can
  come out too small, or not negative at all; then readers stay without tokens, and a
  later writer waits for readers that do not exist. What survives is the safe side:
  never a token too many, so that a writer never waits for fewer readers than are to
  leave, and exclusion (`DrainBalance`, `ImplementsLock`). A failed
  `try_lock` (it also fails on a free lock, `mutex_extra.hpp:96-102`) keeps the
  writers' mutex, so that later writers block. No document promises otherwise,
  so this is recorded under hazards and not as a finding.
* `barrier` works for one round. Over several, a participant that returns before a
  sleeper has looked makes the sleeper miss its release, and from then on the
  barrier may wait for ever. `StrandedOnlyIfLapped` and `EverybodyPasses` show
  that this is the only way.
* `flex_barrier` lets waiting threads through only if its completion function
  returns 0, and its destructor's assertion fails after a complete round with
  the default function. The assertion is the program's own statement, so this is
  the finding `flex_barrier_destructor`.
* `latch` lets nobody through early. It wakes nobody in time either: a thread that
  sleeps when the count reaches 0 is left to a spurious wakeup or to one arrival
  too many. `AwakePasses` promises only what holds.
* `shared_mutex` has no lost wakeup and serves a writer that has entered. It does
  not satisfy `SharedExclusion!Spec`: writers whose timed attempts fail can keep
  one waiting reader out for ever while newcomers get in. It satisfies
  `SpecOfAny`. At the limit of readers, only the first that leaves notifies; with
  two readers waiting there (2^31 + 1 in the code) the second would sleep on.
  The instance has one thread more than the limit, and the comment of
  `NoSleeperAtOpenGate` says so.
* `lock()` never blocks with a mutex in hand, so no order of arguments deadlocks,
  and a failure anywhere in the list gives everything back. Two threads may fail
  each other for ever in lockstep, which is why the liveness is that of a lone
  caller.
* `unique_lock` unlocks what it owns once, as long as nobody moves from an owner by
  construction or assigns to one. The moved-from object stays an owner
  (`_mutex.hpp:88`), and a lock taken through `lock()` is not owned by the object that took it.
* `stop`: no callback object is touched after its destruction, each runs at
  most once, and each destructor returns, also inside its own callback.
  `request_stop()` returns on what it saw of the list before the last callback
  ran (`stop_token.hpp:75`); that is harmless because registration after the
  request runs the callback at once, which is what `RequestLeavesNothing` says.
  The counts are never too low, whatever is copied, moved and assigned; that of
  sources is too high after every ~stop_source, so states are leaked and
  `stop_possible()` stays true.
* Each queue is a FIFO that loses, repeats and strands nothing. For
  `lock_free_queue` this holds as long as one push and one pop run at a time. When
  they overlap, a slot can be posted whose element another thread has yet to construct, and the
  index can be brought back to a value already used; what remains is
  `CountInRange`.
* The pools run every task once, if the tasks before it end. A `jthread` stops the
  thread it joins through every mix of moves and swaps, no thread is joined twice
  and none is lost. After `detach()` an object keeps its handle, and its
  destructor fails its own assertion: the finding `thread_detach`.

## 6. What is proved

With TLAPS, for any set of threads (finite where threads are counted) and any value
of the other constants that the named assumptions of the modules allow. The
assumptions: sets of threads are finite; initial counts, capacities and limits are
natural numbers, positive where the code needs it; a null value is not a thread;
the mutexes of one `lock()` call are two or more and different; a stop state has a
thread to use it; tokens are not sources, and both are finitely many; a pool has a
worker and finitely many tasks; and `MaxReadersAssumption`, see above. One theorem has a hypothesis of its own
(`NobodyForgotten`, below).

| Module | Theorems |
|---|---|
| `SemaphoresProofs` | `TypeCorrect` (`[]TypesOK`); `NoTokenStranded` (`[]NoLostWakeup`) and `PlainStepsImplementSemaphore` of semaphore; `BooksBalance` (`[]SlowPathBalance`) and `StepsImplementSemaphore` of fast_semaphore |
| `EventsProofs` | `TypeCorrect` (`[]TypesOK`); `SignalsReachSleepers` (`[]NoLostSignal` of both events); `AutoStepsImplementEvent`; `OneHolder` (`[]ExclusiveWord`), `NobodyForgotten` (`[]NoLostWakeup`) and `StepsImplementMutex` of fast_mutex |
| `FastSharedMutexProofs` | `TypeCorrect`; `WritersSeeReadersOff` (`[]DrainBalance`); `StepsImplementLock` |
| `BarriersProofs` | `BooksBalance` (`[]Consistent`); `StrandedOnlyWhenLapped`; `NobodyPassesEarly` (the action property `NobodyEarly` of all three) |
| `QueuesProofs` | `BooksBalance` (`[]Consistent`: types, `RingSound`, `CountInRange`); `ItemsReachSleepers` (`[]NoLostWakeup`); `SimpleStepsImplementFifo`; `BlockingStepsImplementFifo`; `LockFreeStepsImplementFifo` |
| `MutexesProofs` | `BooksBalance` (`[]Consistent`: types, `WordTold`, `OwnerTold`, `AllTaken`, `OwedOnce`); `WaitersHoldNothing` (`[]NothingKept`); `NobodyForgotten` (`[]NoLostWakeup`); `OneHolder`; `TimedStepsImplementMutex`; `RecursiveStepsImplementMutex`; `SharedStepsImplementLock` |
| `ThreadPoolsProofs` | `ThreadsOwnedOnce` (`[]Consistent`: types, `ThreadsAccounted`); `TasksRunOnce` (`[]TaskInOnePlace`) |
| `StopProofs` | `ReferencesRight` (`[]Consistent`: types, `TokensCounted`, `ReferencesCounted`); `CallbacksExist` (`[]NoUseAfterDestroy`); `NoneLeft` (the action property `RequestLeavesNothing`) |

Every `...StepsImplement...` says that initial states and steps are those of the
abstract module, under the mapping that the run uses; the liveness half of the
refinement is left to the run. Where several components share a module, the lemma
`EachSteps` says what a step of the composition is to each of them, each has an
inductive invariant of its own, and the theorem puts them side by side.

*Semaphore.* `NoLostWakeup` is inductive together with `TypeOK`, in the form it has:
it counts. `count_` may not exceed the number of *stirring* threads, those about to
notify one and those awake in the wait loop, unless a `notify_all` is on its way or
nobody sleeps. A post adds a token and a stirring thread; taking a token removes one
of each; `SignalOne` hands the task from the poster to the sleeper it wakes
(`StirringHandedOver`) or finds nobody asleep; a thread goes to sleep, or gives up at
its deadline, only when `count_` is 0. The boolean form "a token and a sleeper imply
some thread under way" is not inductive: two tokens may have one such thread.

*Fast semaphore.* `SlowPathBalance` is an equation between two counters and the numbers
of threads at two labels; every step that moves a thread along the slow path changes one
counter with it. That no counter passes its bounds follows from the equation, and so does
the abstract value, `max(count_, 0)` and what is on the slow path.

*Events.* `NoLostSignal` is inductive with the types: an event is set in the step that
makes its thread a notifier, and a thread goes to sleep only before an unset event.

*Fast mutex.* `ExclusiveWord` is inductive with `TypeOK`: an exchange lets its thread in
exactly when it read 0, that is when nobody holds, and the values written are 1 and 2
otherwise. `NoLostWakeup` is too, without `ExclusiveWord`: `Lock` may write 1 over 2 only
by a thread that is then at `contend`, or by one that took a free lock; the latter
happens after an `Unlock` that read 2 and is still to signal, or has set the event. The
refinement needs `ExclusiveWord`, for `Acquire` demands that there is no holder.

*Fast shared mutex.* The inductive invariant `Inv` is the account of a writer at each
stage of its call (`Stage`), of the lock while no writer has claimed it (`Quiet`), and of
the tokens. Its pivot is `Gate`: what a reader sees in `rdcount_` tells whether the lock is
claimed, because the counter has room for all readers and all failed calls. A failed
`try_lock_shared` fits in as a reader that waits for ever (`TokensWanted`), and a failed
`try_lock` as a writer that keeps `wrmtx_`, after which no other gets far enough to be
misled (`OnePost`). `Covers` runs through the account: tokens posted are never more than
readers and failed calls ask for, whatever `unlock()` narrows (`Narrowing`: an int never
keeps less than the negative number it is given), and exactly as many while `FitsInt`
holds, which once lost is lost for good (`FitLasts`). So `DrainBalance` splits in two: its
inequalities and `StepsImplementLock` need only that the `long` has room for the failed
calls, its equations that the `int` has. Failed `try_lock` calls need no exception.

*Barriers.* For `barrier`, `WaitersCounted` with "who has arrived in the present round and
was not lapped is counted"; a lapped thread is one whose round is over. For `flex_barrier`
only the first round has a meaning, as the countdown is never set back; the invariant
speaks of the number of threads that wait in it. For `latch`, what the count lacks is the
number of threads counted.

*Queues.* `simple_blocking_queue` is the semaphore's argument with items for tokens.
`blocking_queue`: two equations of balance (`BlockingBooks`: slots, tokens and the
threads between a token and its section) give that a section never finds the ring full
or empty; the ring is then a window of `count` living slots from the pop index, and
arithmetic modulo the capacity (`AroundTheRing`, `RingPlaces`) gives that a push
appends and a pop takes the head. `lock_free_queue`: the balance of its semaphores
bounds the counter whatever overlaps. That it implements `Fifo` for serialised callers
needs `TurnsInv`: one push and one pop are past their waits (`OneInside`); so a claimed
index is the one before the present, a compare-and-swap finds what it expects, and the
index leaves the ring by one place at most (`Indexed`); and the living slots are those
from where pops work to where pushes do (`LockFreeRing`), where an end works on the place
it has claimed until it has constructed or destroyed there (`Front`).

*Mutexes.* `timed_mutex`, `recursive_timed_mutex`: the mutex becomes free in the step that
wakes a sleeper, and a thread awake in the loop leaves it, or goes to sleep, only
while the mutex is held or by taking it; this is where the second look after a timeout
counts. `shared_mutex`: word and holders agree (`SharedInv`), and on that
`NoSleeperAtOpenGate` is kept if the limit of readers is no lower than the number of
threads but one. This is the hypothesis of `NobodyForgotten`; the code's limit is 2^31 - 1,
and with two readers asleep at the limit the statement is false (section 5).
`lock()` and `try_lock()`: the mutexes a call has are the `taken` ones from `start` on,
around the list once (`AroundOnce`, `Cycle`); a call that blocks, or failed, has none.
`unique_lock`: a mutex is owed by its owners and its client together at most once, for
behaviours in which no owner was duplicated.

*Threads.* `ThreadsAccounted` counts the objects that name a thread. The induction goes
without a count: no two objects name one thread (`OneOwner`), those named have begun and
are not joined and all such are named (`OwnedRuns`, `RunsOwned`), an object that does not
exist names none (`LifeOwns`); a set whose members are all equal has one element.

*Pools.* `TaskInOnePlace` is a sum over queues, workers and posters. What is inductive is
that the places are apart: no two positions of the queues, no two workers, no two
posters have one task, and none has a task that one of another kind has, or that has run
(`PlacesApart`, `Apart`). That no queue is longer than there are tasks follows from
`PlacesApart` (`QueuesShort`), and with it the sum is finite.

*Stop state.* The word is a lock (`LockHeld`) and a latch that one requester goes through
(`OneRequest`). A thread has a callback that it registers or destroys to itself
(`Targets`). A listed callback exists, has not run and is not the one that runs
(`Listed`). The one that runs is not finished, so another thread's destructor waits for
it, while its own thread's destructor says so in `removed` (`Running`); this
is the pivot of `NoUseAfterDestroy`. `Running` also has that `empty` is still right when
it is used, as nothing is listed once the stop is requested: hence
`RequestLeavesNothing`.

*Stop handles.* Objects refer to states that were made, tokens are counted exactly and
sources at least (`Placed`, `CountsRight`). Freeing needs a state with no source counted;
as a destroyed source counts one more, a state that was made keeps one for
ever, so `h_deleted = {}` is part of the invariant: the proof of `ReferencesCounted` is
also a proof that no state is ever freed. How one step changes a number of
references is `CountOfOne`; a move or a swap is two such changes (`CountOfTwo`).

Only model-checked:

* Liveness and fairness everywhere, with them the `WF` half of each refinement, since
  TLAPS does not treat `ENABLED`: `TimedWaitReturns`, `OpenGatePassesAll`,
  `WriterServed`, `WaitersPass`, `EnteredWriterServed`, `LoneCallerServed`,
  `EveryTaskRuns`, `EveryCallbackServed`, `DestructorReturns`.

No module defines a recursive operator.

## 7. Not modelled, and the plan

Left out for good:

* `mutex`, `recursive_mutex`, the `os::` locks and barriers: one call of the platform.
  The mutex is in the models as the atomicity of critical sections, `lock_guard` as
  its beginning and end. `spinlock_mutex` is one atomic operation,
  `binary_semaphore` is empty.
* `shared_lock`: it does not compile (a constructor is declared twice, a tag used as
  a type) and asserts the opposite of what each operation needs; what is evidently
  meant is `UniqueLock` again.
* `call_once`: one compare-and-swap. A second caller returns at once, whether or not
  the function has run; no document of the repository says otherwise.
* The destructors of the thread pools: they join workers that block in a queue that
  nobody marks done, so they return from no state. Arguments and results of tasks.
* The platform aliases and assertion macros, the Windows branches (they do not
  compile), `this_thread`.
* The memory orders, also in `lock_free_queue` and `latch`, and the spurious failures
  of a weak compare-and-swap, which only repeat a loop; the clock arithmetic of timed
  waits; destruction of a primitive in mid-call.

`src/tests/catch.hpp` is vendored; the tests in `src/tests/stdlib_tests` try the
mutexes, locks and threads with one or two threads and state nothing of the
components modelled here.

All components that the code lets one model are modelled; all invariants and action
properties that the runs check, and the steps of all refinements, are proved. What
remains with the runs is liveness, which is out of the provers' reach.
