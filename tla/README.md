# A TLA+ development of mini_async_simple

mini_async_simple is a header-only C++20 library for asynchronous programs:
futures and promises over a lock-free shared state, stackless coroutines that
carry an executor, and executors over a thread pool. All of its logic is in
`src/include/async_simple` (28 headers, 2981 lines). This directory keeps TLA+
models of that logic, TLC configurations that check them on small instances,
and TLAPS proofs of the safety properties for every value of the constants.

## Inventory

| Part | State it keeps | Operations | Who calls whom |
|---|---|---|---|
| `sync/future_state.hpp` FutureState | `state_`, `try_value_`, `continuation_`, three reference counts, executor, context, `force_scheduled` | SetResult, SetContinuation, ScheduleContinuation, Attach/Detach | Promise and Future call it; it calls the executor, which calls it back from a worker |
| `sync/promise.hpp`, `sync/future.hpp` | a pointer to the shared state, `has_future_`, a LocalState | copy, move, destroy, GetFuture, SetValue, Wait, ThenTry, ThenValue | user threads |
| `sync/local_state.hpp`, `sync/future_helper.hpp` | one Try; the shared Context of CollectAll | MakeReadyFuture, CollectAll | user threads, continuations |
| `container/threadsafe_queue.hpp`, `util/thread_pool.hpp` | queue, mutex, condition variable and `stop_` per worker; `stop_` | ScheduleById, the worker loop, the destructor | executors, closures |
| `executor/executor.hpp`, `executor/simple_executor.hpp` | the pool | Schedule, Checkout, Checkin, timed Schedule, awaiters | FutureState, coroutines |
| `executor/io_executor.hpp`, `executor/simple_io_executor.hpp` | AIO context, loop thread | SubmitIO, Loop | users |
| `coro/lazy.hpp`, `coro/detached_coroutine.hpp`, `coro/sleep.hpp`, `coro/future_awaiter.hpp` | per coroutine: executor, continuation, result | co_await, Via, Start, Yield, SyncAwait | coroutines, executors |
| `coro/via_coroutine.hpp` | executor, context, continuation | wrap (Checkout), final awaiter (Checkin) | every awaitable that has no CoAwait |
| `coro/collect.hpp`, `coro/count_event.hpp` | inputs, outputs, an atomic count, the waiting coroutine | CollectAll[Para], CollectAllWindowed[Para], CollectAny | coroutines, callbacks of lazies |
| `base/*` | Try: `inner_type_` and a union; TryVariant, MoveWrapper, assertions | construct, move, assign, SetException, Value, MakeTryCall | everybody |

What is hard in it:

- SetResult and SetContinuation meet in two compare-exchanges with fall-through.
  Exactly one of them schedules, and the last promise must break the state only
  if nobody set it.
- One byte counts handles, guards and closures that die on different threads; two
  counts decide when the continuation is destroyed and when the object is deleted.
- A chain of `Then`s fulfils the promise of one future from the continuation of
  another, on whatever thread that runs; when a closure is destroyed instead, what it
  holds must break.
- An executor may refuse a closure. Some callers look at the result (FutureState),
  most do not.
- `stop_` of the pool is read outside the mutex of the queue that is pushed to.
- Awaiters live in coroutine frames that die while other threads are still
  inside them (CollectAll, CollectAny).
- A coroutine must come back to the worker it left, whatever it awaited.

Correctness, per part: the shared state is a one-shot channel, exact in its
counts, never used after it is freed and never leaked; a future made from others
gets the result that its program means; the pool runs every
accepted item once, pinned ones at home and in order, and SyncSchedule and the
destructor return; CollectAll resumes once, when all results are there, CollectAny once,
with the first; a coroutine stays on its executor and comes back to its
context; SyncAwait and Wait return; a Try destroys each thing it held once.

## Modules

| Module | Models | Kind |
|---|---|---|
| `FutureState` | one shared state, its handles and the closure given to the executor | core |
| `OneShot` | what a promise/future pair promises | abstract specification |
| `FutureStateProofs` | theorems about `FutureState`, for any client and for one setter and one continuer; the refinement of `OneShot` | proofs |
| `MCFutureState`, `MCFutureStateFair` | symmetric instance of `FutureState`; its owner's choice to continue or to wait | TLC |
| `FutureChain` | futures made from futures: Then on shared and local states, future CollectAll | component, over the channel that `FutureState` implements |
| `FutureChainProofs` | theorems about `FutureChain` for any program of futures: promises and executors | proofs |
| `FutureChainResults` | the results of `FutureChain` are what its programs mean | proofs |
| `ThreadPool` | pool and queues, SyncSchedule | component |
| `MCThreadPool`, `MCCollectAll`, `MCLazyTask`, `MCFutureChain` | the closures, calls and programs of the runs | TLC |
| `CollectAll` | CollectAll, Para, Windowed, CountEvent, Yield | component |
| `CollectAny` | CollectAny | component |
| `LazyTask` | a chain of coroutines under SyncAwait, ViaCoroutine, SimpleExecutor | component |
| `TryObject` | Try, TryVariant, Try<void> | component |
| `TryObjectProofs` | theorems about `TryObject` | proofs |
| `ThreadPoolProofs` | theorems about `ThreadPool` | proofs |
| `CollectAllProofs`, `CollectAnyProofs` | theorems about `CollectAll` and `CollectAny` | proofs |
| `LazyTaskProofs` | theorems about `LazyTask` | proofs |

Definitions named `...Wrong variant` in a comment are not part of a
specification: each is a bug someone could write in the definition that follows
it, kept so that one can see which property catches it.

### FutureState

An actor is a handle (a Promise or Future object, used by one thread at a time)
or `Task`, the closure. `pc[a]` is its place inside the library; each access to
an atomic member is one step. `SetResult` is `SetResultCheck` (LOGIC_ASSERT),
`SetResultStore`, `LoadState`, `CasHalf`, `AssertOtherHalf`, `CasDone`; the
mirror image for `SetContinuation` shares all but the first two.
`ScheduleContinuation` takes one guard or two, `EnqueueAccepted` moves one into
the closure, `EnqueueRefused` destroys it and runs the continuation here;
`Invoke`, `DerefContinuation`, `DetachGuard` are the life of a guard. `~Promise`
is `DestroyPromise`, `DetachPromiseCheck`, perhaps a SetResult, and
`DetachPromiseDetach`. `Wait` is `Wait`, `WaitSetExecutor`, SetContinuation and
`WaitReturn`, which contains the move assignment that ends it. The history
variables `delivered` and `published` record calls of the continuation and the
Try whose compare-exchange won.

What is in `try_value_` may be moved out. The continuation gets `std::move(try_value_)`,
and whoever passes a `Try &&` on may find it emptied: `Invoke` leaves in it what `LeftOf`
allows, the value or `MovedOut` (test/sync/future_state_test.cpp:82 moves it out, line 91
reads it emptied; an `exception_ptr` is copied by Try's move constructor and stays). So does
`TakeResult`, the end of `Get`, `Value() &&` and `Result() &&`, by the futures in `Takers`;
the future it was called on is used up. The condition of these reads, `HasResult`, does not
look at what is left, so that with a copied promise the two futures of one state can get in
each other's way: if one takes while the other continues, the continuation may be called with
an emptied value. `PublishedUntilTaken` says what a reader may rely on: the published Try, or
the same value emptied, once the continuation has been called or somebody took it.

Abstractions. Move constructors hand a reference to another C++ object; the
handle stays the same. Relaxed atomics are sequentially consistent: the model
says nothing about memory ordering. A closure owns one guard, which is what
SimpleExecutor gives, as it only moves `std::function`s. The thread that waits
is not a worker of the executor (Wait asserts it). The continuation does not throw. With
`force_scheduled` the options are not prompt, and without it a caller on a worker
runs the continuation inline before Checkin is reached, so Checkin's own prompt
path needs no action. What the client does is chosen by the constants `Setters`,
`Continuers`, `Waiters`, `Takers`, `Forcers`, `Checkouts`, `ViaArgs`, `MoveAssigned`.

`OneShot` has owners, a result, a handler and calls: share, leave, fulfil, break
when the last owner left, subscribe, deliver. `Channel` in `FutureState` is the
refinement mapping: the owners are the promises that have not started to detach,
the result is `published` once `HasResult` holds (what was sent, not the bytes that the
receiver leaves behind), the handler once `HasContinuation` does.

### FutureChain

The nodes of a program are its futures, in the order in which one thread makes
them: a promise's future (`MakeSource`), a ready one, `ThenTry` or `ThenValue` of an
earlier one whose callback returns a value, throws, or returns an earlier future, and
`CollectAll`. A shared state is the one-shot channel of `OneShot`: setting a result or a
continuation is one step, which is what `ImplementsOneShot` licenses. What is left is
what the channel's users see: who runs a continuation (`Schedule`, `RunQueued`, inline,
or the caller because the result was first), who destroys it (`GuardDone`, the last of
the two ContinuationReferences), and what its destruction does (`DestroyClosure`: the
promise of a `Then` that never ran breaks; the last owner of CollectAll's context
fulfils the promise, `Release`). A program may drop an accepted closure, which is what
happens to those still queued when a pool dies. Threads are told apart only by
CurrentThreadInExecutor. A `Try` is what it holds, who made it and out of what, so that
`Meaning`, a recursive function on the program alone, says what each future must get.
Programs use each future once (`UsedOnceAssumption`): a `Future` can only be moved.
A ready future keeps its executor along `Then`s with one exception, which
`LosesExecutor` names: when a callback that should return a future does not, ThenImpl
catches the exception into a new future and gives it no executor (future.hpp:170-171).

### ThreadPool

A mutex is taken in one step and released in another, so that `try_lock` can
fail; what is done under it belongs to the releasing step. `ScheduleById` reads
`stop_` in a step of its own. `TryPush`/`TrySteal` are one iteration of the loops,
`Pop` the whole of `cond_.wait` and what follows, `NotifyOne`/`NotifyAll` come
after the unlock. A usage of the pool says whether it steals, where each item is
pinned, which closure schedules another one, which items their client waits for
(SyncSchedule) and what each client schedules; the runs take a set of usages. The destructor
starts when the clients are done; closures may still run. A spurious wakeup is
an action, bounded by `max_spurious`.

### CollectAll and CollectAny

The thread inside `await_suspend`, the callbacks and the parent are separate
actors; a lazy may run inside `Start` on the starting thread (`inline`), suspend
and end elsewhere. `alive` is the awaiter in the parent's frame: every use of it
through `this` is a `Touch`. In `CollectAll` the constant `Calls` holds the calls the
parent may make: the window, the yields, `Para` (through the executor when the group
has more than one lazy), whether it is the variadic form (each lazy then is a wrapper
coroutine that writes into `tuple`, a local of the parent), and whether the parent's
executor exists and may refuse. A
refused closure is never run (`Refused`), as the code looks at no result of Schedule.
`CollectAny` has the shared result of which the loop reads `index` while the
winner writes it and the parent's move resets it.

### LazyTask

`frames` is the chain of coroutines, `place` says who holds the handle that
continues it, `thread` where it runs. Every kind of `co_await` is an action:
a child `Lazy` (which gets the parent's executor and runs here), a
`RescheduleLazy` (wrapped in a ViaCoroutine and scheduled), `Yield`, `Schedule()`,
`sleep`, a future, an awaiter that does not suspend. `Wrapped` is
`GetWrappedContinuation`, `ViaCoroutineEnds` its final awaiter, `Checkin` that of
SimpleExecutor with the -1 context of foreign threads. A lazy ends with a value or
an exception; a parent may catch it, so any outcome may follow. `Roots` says how the
root is started, `Awaits[root]` what the coroutines of such a program co_await.

### TryObject

Every operation is applied to a `Try` and to the `TryV` next to it. `union` says which
object lives in the union of the `Try`, independently of `inner_type_`: `Destroy` runs
the destructor that `inner_type_` names, and the object is `undefined` if that is not the
one that lives there. `meant` is what the program last put into an object, `moved` the
objects that it moved from and may only assign or destroy. `MoveAssignThrows` is an
assignment whose `T` throws while it is moved, after which the object is `invalid`: it
claims a value that was never made. What is done with such an object next misuses the
union, and the model stops there.

## Runs

| Run | Instance | What it shows |
|---|---|---|
| `FutureState_base` | 2 promises, 2 futures, 2 values, 146k states | exact counts, no leak, the inductive invariant, the refinement of `OneShot` |
| `FutureState_any` | 2 setters, 2 continuers, both move-assigned, both may take, context from outside, `RefMod` 7, symmetry, 3.3M states | no use after free and at most one call, whatever the client does |
| `FutureState_fair` | 2 promises, 1 future continued, or waited for and taken from, 2 values, force-scheduling, fair, 106k states | delivered once; readers see what was published, or it emptied; Wait returns; the continuation runs; liveness of `OneShot` |
| `FutureChain` | 5 programs of 4 to 9 futures, fair, 107k states | results; a callback leaves its executor only if the result came first or the executor refused; every future fulfilled |
| `ThreadPool` | 2 workers, 2 clients, 4 items, with and without stealing, SyncSchedule, fair, 200k states | no loss, no repetition, pins and their order, every accepted item runs, SyncSchedule and the destructor return |
| `CollectAll` | 4 lazies and 5 kinds of call, fair, 18k states | resumed once per group, complete, awaiter and tuple untouched afterwards, order of results, width of the window |
| `CollectAny_first` | 3 lazies that may never end, fair | the first wins, once |
| `LazyTask` | 2 executors of 2 workers, depth 3, 5 awaits, refusals, fair, 14k states | context and executor are kept; SyncAwait returns the root's result |
| `TryObject` | 2 Trys and TryVs, 2 Try<void>s, 2 values, 2 exceptions, 48k states | destructors fit, reads agree |

Why these bounds are enough to be interesting. Two promises: a last one that
breaks and another that does not, or two setters. Two futures: a handle that
outlives the one in use. One closure: the proofs show that there is never a second.
Two workers: home and away, with a thief. Windows of three and one: several
lazies in flight, and the group of one that is not scheduled. Depth three: a
context is kept across a child that itself awaits on another executor. The programs of
`FutureChain`: a chain that skips, throws and recovers; callbacks that return futures;
a CollectAll of a promise, a chain and a ready future; local states. Two Trys: source
and target, and one object for itself. `RefMod` is 256, the width of the code, and 7 in
`FutureState_any`, the least that `RefModAssumption` admits for four handles, so that one
reference too many would wrap.

Runs that end in a violation, each a disagreement between the code and what
the repository says of it:

| Run | What happens |
|---|---|
| `FutureState_leak_wait` | `Wait` move-assigns over its future, whose reference is lost: the state leaks |
| `FutureState_force_wait` | `ForceScheduled` then `Wait`: `executor_` is null and is called |
| `ThreadPool_nested` | a closure schedules during `~ThreadPool`: accepted and never run |

Other disagreements met on the way and not turned into runs:

- The design document (doc/async_simple设计.md:35) has the continuation called directly only
  without an executor or when scheduling fails. The code also calls it directly, on the thread
  that sets it, when the result came first (`trigger_by_continuation`, future_state.hpp:214),
  though the executor is there and refused nothing. `CallbackOnExecutor` states what the code
  does: it excepts `how = "trigger"`. Without the exception TLC finds the callback of a
  `ThenValue` on a chain with an executor running outside it, in four states.
- Two copies of a promise set at once: both pass LOGIC_ASSERT(!HasResult()), the second
  overwrites `try_value_`, and the loser of the compare-exchange fails the ASSERT of
  future_state.hpp:156. By assert.hpp:7 a failed ASSERT is a bug of the library, not of its
  client. `FutureState_any` goes through it.
- `Promise::Checkout` on a foreign thread, or `SetExecutor` without `Via` and
  then a future: the worker id is negative and ScheduleById's ASSERT fails.
  `FutureState` has it with `Checkouts = {"outside"}`, `LazyTask` with
  `Roots = {"set_executor"}`.
- `CollectAny` of an empty vector fails `ASSERT(result != nullptr)` (`size = 0`).
- A lazy of CollectAllPara, a Yield, a RescheduleLazy or a check-in that the
  executor refuses: the coroutine is never resumed. The modules allow it, and their
  liveness properties except it.
- A `T` whose move throws inside `Try::operator=` (try.hpp:49-51): `inner_type_` says
  kValue and no value exists, though a Try holds "a T, an exception, or nothing"
  (try.hpp:13); MakeWrapperTask then calls SetException on it, which destroys the value
  that does not exist. `TryV` becomes valueless instead. `TryObject` goes through it.
- `SyncSchedule` on a worker of its own pool may block that worker for ever; there is no
  ASSERT as in `Wait`.
- Two futures of copied promises of which one waits race on `executor_`.
- A promise that is move-assigned over never breaks its state: its waiters block.

## Fairness

Threads inside the library are weakly fair: the operating system runs them.
The executor runs what it accepted (`Executor::Schedule`, executor.hpp:49);
`ThreadPool` shows what that rests on. `FutureState` asks strong fairness of the
destructor of each promise, which is enabled again and again between other calls:
a program ends by destroying its promises, without that no result need ever come.
The pool needs only weak fairness: closures and clients are finitely many, so
nobody holds a mutex for ever. `CollectAny` asks of no lazy
that it ends, `CollectAll` that every one does. `FutureChain` asks that some step is taken
as long as there is one: every step settles, runs or destroys something for good, so
that this is no more than that threads run and that promises are, in the end, set or
destroyed. `TryObject` is sequential and asks nothing. `LazyTask` asks that the one chain goes on.
Nothing is asked of an executor that refuses, whose coroutine never goes on.

## Proofs

`FutureStateProofs` holds for any finite number of handles, any set of values
and any client, under the assumptions of `FutureState`: the handles fit
into one byte with two to spare (`RefModAssumption`), the constants are distinct
where they must be, and the client constants name handles.

- `TypeCorrect`: `Spec => []TypeOK`.
- `Inductive`: `Spec => []IndInv`.
- `ReferenceCountsAreExact`, `NeverUsedAfterFree`, `ContinuationCalledAtMostOnce`:
  consequences of it.
- `NothingLeaks`: without Wait and move assignment, the object is deleted
  once nobody refers to it. Together with the run `FutureState_leak_wait` this says
  that these two are the only leaks.

The argument. Exact counts are not inductive alone. `DetachOne` is safe because
`attached_` is the number of handles and guards (`RefCountExact`); there are at
most two guards more than handles, so that a byte never wraps, because only
one handle ever schedules (`OneScheduler`); only one schedules because the
compare-exchange to kDone has one winner (`CasOK`), `state_` having no way
back; the one who won holds the only right to call the continuation, and hands
it over at most once (`CallOwed`). `PlacesOK` says which actor can be where.
`IndInv` is the conjunction, checked by TLC in `FutureState_base`. The proof has a
lemma per group of actions that touches the counts (`NewHandle`, `ReleasePromise`,
`DropHandle`, `TakeGuards`, `HandOutClosure`, `RefuseClosure`, `DropGuard`) and one
per conjunct for the others.

`TryObjectProofs` holds for any number of objects, values and exceptions.

- `EveryDestructorFits`: `Spec => []LifetimesMatch`. `LifetimesMatch` is inductive with
  `TypeOK` in it: an object that is not `invalid` names what lives in its union, so
  `Destroy` fits, and every operation leaves source and target so.
- `ReadsBackAlways`: `Spec => []ReadsBack`, given the types.

`ThreadPoolProofs` holds for any number of workers and clients, any items and any set
of uses, under the assumptions of `ThreadPool`: at least one worker, threads that are
distinct, pins that name a worker or -1, and closures that `SyncSchedule` hands in having
neither a pin nor a child.

- `TypesHold`: `Spec => []TypeOK`. `TypeOK` needs `PlacesInv`: a thread that pushes or
  runs holds an item, one that steals has not gone twice round, and the destructor's
  loop stays below `thread_num_` while it stops queues.
- `PinnedItemsStay`: `Spec => []PinnedRunsAtHome`. What ran on a worker is safe because
  what a worker is about to run is, so `PinInv` follows a pinned item back through its
  worker's queue to the thread that pushes it. Stealing looks at `can_steal` and not at
  the pin: `PinInv` says that the two agree for every item in a queue.

- `ItemsAlwaysAccountedFor`: `Spec => []ItemsAccountedFor`, when each closure is handed in
  once (`EachScheduledOnce`: by one client, or by one other closure; without it an item
  is a name for two closures). A count of copies is not inductive, so `ItemsInv` says
  where an item is: no two places hold the same one (`OnePlace`), the places exclude each
  other (`OneStage`), what a closure schedules is nowhere before the closure has begun
  (`ChildAfterParent`), and what a thread has pushed or was told is accepted is queued,
  held or begun (`NothingLost`). Steps are sorted by what they do to items (`Kinds`:
  calling, pushing, taking, beginning, or nothing), and each kind has a lemma.
- `PinnedItemsInOrder`: `Spec => []PinnedRunInOrder`, on the same assumption. `PushedOnce`
  says that the history of pinned pushes holds exactly the pinned items that are queued,
  held or begun; `InOrder` that an item pushed before another is before it in the queue,
  has begun when the other is held, and begun earlier. Taking from the front keeps it, since
  by `PinInv` nobody but the owner takes a pinned item.

The second half of `FutureStateProofs` adds the client rule that Promise and Future are
made for: one promise is set and one future is continued or waited for (`OneSetter`, `OneContinuer`).
Copies of the promise may exist and die at any time.

- `ReadersSeePublished`: `Spec => []PublishedUntilTaken`, which needs `OneSetter` only: there
  may be any continuers, waiters and takers.
- `DeliveredOnceAlways`: `Spec => []DeliveredOnce`, if moreover nobody takes the result through
  another future (`NobodyTakes`), who could empty it before the continuation gets it.
- `Refines`: `Spec => ImplementsOneShot`, on the same assumptions: every step of `FutureState`
  is a step of `OneShot` under the mapping `Channel`, or leaves it alone.
- `FutureNoFault`: `Spec => []NoFault`, if moreover nobody waits, contexts are checked out
  on workers and no null executor is given (`ExecutorKept`).

`IndInv` knows who may call the continuation but not with what. `HandOff` adds: while
nobody has set the result, the setter is not inside SetResult, and what it has written
before its compare-exchange is what it published after (`ProducerOK`); the same for
the continuation (`ConsumerOK`); what a guard or a closure is about to call is the
continuation that was installed (`ContentOK`, `GuardsOK`). That it is called with the published
result (`DeliversPublished`) follows from `PublishedUntilTaken`: before the call nobody has
moved it out. The setter and the last promise cannot
both store: the setter is itself a promise that is still attached.

`CollectAllProofs` and `CollectAnyProofs` hold for any number of lazies, any set of calls
and any window.

- `AllResumedWhenComplete`, `AllResultsInOrder`, `AllWindowRespected`; `AllNoFault` if a
  windowed call that yields has an executor (`YieldHasExecutor`: Yield calls it without a test).
- `AnyNoFault`, `AnyFirstWins`, for any number of lazies but none, with which CollectAny fails
  its ASSERT.

In `CollectAll` the count is that of the lazies that have not counted down and of the
thread that is still in `await_suspend` (`CountInv`), so that who brings it to zero is
alone (`ResumeInv`) and finds every result stored (`ResultInv`); `GroupInv` says which
lazies the present window holds. In `CollectAny` the count starts at `size + 1` and the
first to lower it wins: `CountInv` counts those that have, `WinnerInv` follows the first
of them until the parent has read `index` and `value`.

`LazyTaskProofs` holds for any executors, workers, programs and depth.

- `RootResult`: `Spec => []ReturnsRootResult`, for every program.
- `LazyNoFault`, `CoroutinesComeBack`, `CoroutinesStayOnExecutor` for programs that keep to
  their executors (`KeepsToExecutor`): the root is started through Via or has no
  executor, nobody awaits the `Schedule()` of a foreign executor, and a root without
  executor does not yield. A root with `SetExecutor` runs on the thread of SyncAwait and
  checks out a negative context there, which fails an ASSERT; so does a coroutine
  that moved itself to another executor.

Where a coroutine runs is inductive only with what the chain remembers: every frame that
is wrapped knows a context of its own executor, which is the thread it left
(`KnowsWayBack`); a frame that is not wrapped is on the executor of what it awaits
(`FramesInv`); and a queued handle is on its way to the end of the chain (`HandleInv`).

`FutureChainProofs` holds for any set of programs, of any length, that use each future once
and take their inputs from earlier nodes (`ProgramsAssumption`, `UsedOnceAssumption`).

- `ChainNoFault`: `Spec => []NoFault`.
- `ChainCallbackOnExecutor`: `Spec => []CallbackOnExecutor`.

That no promise is fulfilled twice is a matter of who holds it. `OwnershipInv` says that
the continuation of a state was put there by the one future that uses it: the callback of
a `Then`, the closure for a slot of CollectAll, or the forwarder of a future that a callback
returned (`Links`); that a callback or a forwarder which has not run, or will be destroyed
instead, holds a promise with no result, and so do the owners of a context (`Promises`);
and which futures stand for another's state (`Aliases`). That two continuations never hold
the same promise follows from `UsedOnceAssumption`, by way of the aliases. The executor
invariant adds that a future of the program whose chain has an executor has a state with
that executor (`Equipped`), and that a continuation that ran outside of it was triggered by
its setter or refused (`Placed`). `InheritedExecutor` is recursive on the program: its
defining equation has a solution, built node after node (`ExecutorsInherited`), and no step
changes what the made futures inherit, as the least node that would differ shows
(`SameExecutors`). The parts are stated
of any descriptors and any value of `f`, because a step that takes a callback, runs it and
sets a result goes through values of `f` that no state of a behaviour has.

`FutureChainResults` has the same assumptions.

- `ChainResultsAgree`: `Spec => []ResultsAgree`. Whichever thread comes first, and whatever
  the executor refuses or destroys, a future has the result that its program means.

`MeaningInv` is the invariant: TLC checked it on the programs of the run before it was proved,
and it is inductive with `OwnershipInv`. It speaks of settled states: the result is there and
the executor can no longer lose the closure, so that what the state passes on, its result or a
broken promise, will not change (`Evolves`). Every result of a future follows by one step of
`Meaning` from states that are settled, and a future that stands for another's state was
returned by a callback that ran on a LocalState (`Edge`). A LocalState is settled from the
start (`LocalResults`), and a forwarder is there only because a callback that did not fail ran
on a shared state (`Forwarders`). For CollectAll, a slot of a context either belongs to the
closure on its input, and is empty until that has run, or holds what the settled input passes
on (`Slot`), so that the last owner fulfils the promise with the whole result. The operations
of the channel keep this if what they add is given by settled states (`FulfilMeanings`,
`SubscribeMeanings`, `PhaseMeanings`), and an action is a sequence of them. `Meaning` is
recursive on the program, like `InheritedExecutor`: its equation has a solution (`MeantFacts`),
and the least future with another result cannot exist (`MeaningOfOne`).

What the theorems assume of the clients, some run satisfies (`FutureState_base` all that is
assumed in `FutureStateProofs`), so that no theorem speaks of an empty set of behaviours.
`FutureState_fair` checks `DeliveredOnce` for a client that `NobodyTakes` excludes: its only
future is continued, or waited for and then taken from.

Only model-checked: liveness, which the prover cannot do: `WaitReturns`, `ContinuationRuns` and
`ImplementsLiveOneShot` (the fair half of the refinement), `AllFulfilled`, `AcceptedRuns`,
`SyncScheduleReturns`, `DestructionEnds`, `ParentGoesOn`, `ParentReturns` and `SyncAwaitReturns`.

## Not modelled

- SimpleIOExecutor: it exists under `HAS_AIO` only, which no build file defines, and
  with it SimpleExecutor does not compile (it calls `Destory`; the function is `Destroy`).
- The lifetimes of coroutine frames: Lazy objects moved from, or destroyed before they
  ran, and references held by lazy coroutines that are stored before they are awaited.
- Handles that were moved from and are used again; LocalState's and Promise's
  assignments beyond what `MoveAssign` covers.
- The destruction of an executor under a timed schedule, and a queue destroyed between
  an unlock and its `notify_one`: both need an owner that does not know that a call is
  still going on, and the code gives it no means to know.
- Memory ordering: the modules interleave sequentially consistent steps.
- MoveWrapper, concepts, traits and macros: no state of their own.

## Plan

1. Done: the modules above; every safety property of the runs proved for all values of
   the constants.
2. Next: a future waited for on a worker of a small pool: `FutureState` composed with a pool.
