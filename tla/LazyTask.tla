------------------------------ MODULE LazyTask ------------------------------
(***************************************************************************)
(* One lazy coroutine waited for by SyncAwait (coro/lazy.hpp), with the    *)
(* coroutines it awaits, and the threads they run on: a child Lazy runs on *)
(* its parent's thread, a RescheduleLazy on its own executor, and a        *)
(* ViaCoroutine (coro/via_coroutine.hpp) brings the parent back to the     *)
(* context it was checked out on (executor/simple_executor.hpp).           *)
(*                                                                         *)
(* At any time one thread at most runs the chain of coroutines: place says *)
(* who has the handle that continues it.                                   *)
(***************************************************************************)
EXTENDS Integers, Sequences, SequencesExt

CONSTANTS
    Executors,      \* SimpleExecutors
    WorkerIds,      \* the ids of the workers of each
    NullExecutor,
    Main,           \* the thread that calls SyncAwait
    Outside,        \* any other thread that belongs to no executor
    NoThread,
    \* What the program does:
    Roots,          \* how the root is started: "via", "set_executor", "plain"
    Awaits,         \* Awaits[root]: what its coroutines co_await
    MayRefuse,      \* an executor may refuse a closure
    MaxDepth,       \* bound on the coroutines in the chain
    MaxAwaits       \* bound on the co_awaits of a run

Threads == {Main, Outside} \union (Executors \X WorkerIds)
\* "schedule" is e.Schedule() of the coroutine's own executor, "foreign" of another.
AwaitKinds ==
    {"lazy", "via", "yield", "schedule", "foreign", "sleep", "future", "unsuspended"}

ASSUME ExecutorsAssumption ==
    /\ WorkerIds \subseteq Nat /\ 0 \in WorkerIds /\ Executors # {}
    /\ NullExecutor \notin Executors
    /\ NoThread \notin Threads
    /\ {Main, Outside} \intersect (Executors \X WorkerIds) = {}
ASSUME ProgramAssumption ==
    /\ Roots \subseteq {"via", "set_executor", "plain"}
    /\ Awaits \in [Roots -> SUBSET AwaitKinds]
    /\ MayRefuse \in BOOLEAN
    /\ MaxDepth \in Nat \ {0} /\ MaxAwaits \in Nat

VARIABLES
    root,       \* how this run's root is started
    frames,     \* the chain: each coroutine awaits the next one
    place,      \* who has the handle that continues the last of them
    thread,     \* the thread that runs it, or ran it last
    target,     \* <<executor, worker id or -1>>: where it is queued
    awaits,     \* co_awaits so far
    result,     \* what the coroutine that ended last ended with
    value, sem, \* the locals of SyncAwait
    returned,   \* what SyncAwait returns or throws
    fault

syncawait == <<value, sem, returned>>
vars == <<root, frames, place, thread, target, awaits, result, syncawait, fault>>

Outcomes == {"value", "exception"}
Frame == [executor : Executors \union {NullExecutor},
          wrapped  : BOOLEAN,   \* its continuation handle is a ViaCoroutine's
          context  : WorkerIds \union {-1},
          home     : Threads \union {NoThread}]   \* history: the thread it was checked out on

TypeOK ==
    /\ root \in Roots
    /\ frames \in Seq(Frame) /\ Len(frames) <= MaxDepth
    /\ place \in {"new", "running", "queued", "timer", "future", "store", "release",
                  "finished", "refused"}
    /\ thread \in Threads
    /\ target \in (Executors \union {NullExecutor}) \X (WorkerIds \union {-1})
    /\ awaits \in 0 .. MaxAwaits
    /\ result \in Outcomes
    /\ value \in Outcomes \union {"empty"} /\ sem \in {0, 1}
    /\ returned \in Outcomes \union {"empty", "no"}
    /\ fault \in {"none", "assert", "null_executor"}

Init ==
    /\ root \in Roots
    /\ frames = <<>> /\ place = "new" /\ thread = Main
    /\ target = <<NullExecutor, -1>> /\ awaits = 0 /\ result = "value"
    /\ value = "empty" /\ sem = 0 /\ returned = "no" /\ fault = "none"

\* kNullContext is the null pointer, 0.
Coroutine(e) == [executor |-> e, wrapped |-> FALSE, context |-> 0, home |-> NoThread]
Top == frames[Len(frames)]
WithTop(f) == Front(frames) \o <<f>>

-----------------------------------------------------------------------------
(* SimpleExecutor.                                                          *)
GetCurrentId(e, t) == IF t \in {e} \X WorkerIds THEN t[2] ELSE -1

CurrentThreadInExecutor(e, t) == GetCurrentId(e, t) # -1

\* Schedule by a caller that looks neither at the pointer nor at the result.
Schedule(e) ==
    /\ target' = <<e, -1>>
    /\ IF e = NullExecutor
         THEN fault' = "null_executor" /\ UNCHANGED place
         ELSE /\ place' \in {"queued"} \union (IF MayRefuse THEN {"refused"} ELSE {})
              /\ UNCHANGED fault

\* Wrong variant: the closure goes to any worker, not to the context.
CheckinAnywhere(e, context, t) ==
    /\ target' = <<e, -1>> /\ place' = "queued" /\ UNCHANGED <<thread, fault>>

\* Checkin, whose options are prompt: the closure runs here on the context's own
\* worker, else it is queued there.  The context of a thread that is no worker is
\* -1 | kContextMask, an id that fails ScheduleById's ASSERT.
Checkin(e, context, t) ==
    IF context = -1
      THEN fault' = "assert" /\ UNCHANGED <<place, target, thread>>
      ELSE /\ UNCHANGED fault
           /\ IF GetCurrentId(e, t) = context
                THEN place' = "running" /\ thread' = t /\ UNCHANGED target
                ELSE /\ target' = <<e, context>>
                     /\ place' \in {"queued"} \union (IF MayRefuse THEN {"refused"} ELSE {})
                     /\ UNCHANGED thread

\* A worker of the executor resumes the handle.
RunQueued ==
    /\ place = "queued"
    /\ \E w \in WorkerIds :
        /\ target[2] \in {-1, w}
        /\ thread' = <<target[1], w>>
    /\ place' = "running"
    /\ UNCHANGED <<root, frames, target, awaits, result, syncawait, fault>>

\* The detached thread of Executor::Schedule(func, duration) calls Schedule.
TimerFires ==
    /\ place = "timer"
    /\ Schedule(target[1])
    /\ UNCHANGED <<root, frames, thread, awaits, result, syncawait>>

-----------------------------------------------------------------------------
(* SyncAwait.                                                               *)

\* Start: launch_coro awaits the root with a TryAwaiter, so a Lazy runs at once on
\* this thread, whatever its executor, and a RescheduleLazy is scheduled.
SyncAwait ==
    /\ place = "new"
    /\ \E e \in Executors :
        /\ frames' = <<Coroutine(IF root = "plain" THEN NullExecutor ELSE e)>>
        /\ IF root = "via" THEN Schedule(e)
                           ELSE place' = "running" /\ UNCHANGED <<target, fault>>
    /\ UNCHANGED <<root, thread, awaits, result, syncawait>>

\* Wrong variant: the semaphore is released before the value is stored.
ReleaseThenStore ==
    /\ place = "store"
    /\ sem' = 1
    /\ place' = "release"
    /\ UNCHANGED <<root, frames, thread, target, awaits, result, value, returned, fault>>

StoreValue ==
    /\ place = "store"
    /\ value' = result
    /\ place' = "release"
    /\ UNCHANGED <<root, frames, thread, target, awaits, result, sem, returned, fault>>

ReleaseSem ==
    /\ place = "release"
    /\ sem' = 1
    /\ place' = "finished"
    /\ UNCHANGED <<root, frames, thread, target, awaits, result, value, returned, fault>>

\* sem.acquire(), then Value(), which returns the value or throws the exception.
SyncAwaitReturn ==
    /\ sem = 1
    /\ sem' = 0
    /\ returned' = value
    /\ UNCHANGED <<root, frames, place, thread, target, awaits, result, value, fault>>

-----------------------------------------------------------------------------
(* co_await, by the last coroutine of the chain.                            *)
CanAwait(kind) ==
    /\ place = "running" /\ awaits < MaxAwaits /\ kind \in Awaits[root]
    /\ awaits' = awaits + 1 /\ UNCHANGED root

\* An await that is not wrapped: nobody will bring the coroutine back.
Unwrapped == Coroutine(Top.executor)

\* ViaCoroutine::GetWrappedContinuation.
Wrapped ==
    IF Top.executor = NullExecutor THEN [Unwrapped EXCEPT !.wrapped = TRUE]
    ELSE [Unwrapped EXCEPT !.wrapped = TRUE, !.context = GetCurrentId(Top.executor, thread),
                     !.home = thread]

\* Wrong variant: the child keeps the executor it was created with, none.
AwaitLazyWithoutExecutor ==
    /\ CanAwait("lazy") /\ Len(frames) < MaxDepth
    /\ frames' = Append(WithTop(Unwrapped), Coroutine(NullExecutor))
    /\ UNCHANGED <<place, thread, target, result, syncawait, fault>>

\* Lazy::CoAwait gives the child this executor, and the child is resumed here.
AwaitLazy ==
    /\ CanAwait("lazy") /\ Len(frames) < MaxDepth
    /\ frames' = Append(WithTop(Unwrapped), Coroutine(Top.executor))
    /\ UNCHANGED <<place, thread, target, result, syncawait, fault>>

\* A RescheduleLazy has no CoAwait: a ViaAsyncAwaiter wraps it.
AwaitVia(e) ==
    /\ CanAwait("via") /\ Len(frames) < MaxDepth
    /\ frames' = Append(WithTop(Wrapped), Coroutine(e))
    /\ Schedule(e)
    /\ UNCHANGED <<thread, result, syncawait>>

AwaitYield ==
    /\ CanAwait("yield")
    /\ frames' = WithTop(Unwrapped)
    /\ Schedule(Top.executor)
    /\ UNCHANGED <<thread, result, syncawait>>

\* co_await e.Schedule(): ready on a thread of e.
AwaitSchedule(e) ==
    /\ CanAwait(IF e = Top.executor THEN "schedule" ELSE "foreign")
    /\ frames' = WithTop(Unwrapped)
    /\ IF CurrentThreadInExecutor(e, thread) THEN UNCHANGED <<place, target, fault>>
                                             ELSE Schedule(e)
    /\ UNCHANGED <<thread, result, syncawait>>

\* co_await e.ScheduleAfter(dur): a timer will call Schedule.
ScheduleAfter(e) == place' = "timer" /\ target' = <<e, -1>>

\* sleep, a child Lazy: with no executor it blocks this thread.
AwaitSleep ==
    /\ CanAwait("sleep")
    /\ frames' = WithTop(Unwrapped)
    /\ IF Top.executor = NullExecutor THEN UNCHANGED <<place, target>>
                                      ELSE ScheduleAfter(Top.executor)
    /\ UNCHANGED <<thread, result, syncawait, fault>>

\* FutureAwaiter: a future with a result is ready, else it gets the ViaCoroutine's
\* handle as its continuation.
AwaitFuture ==
    /\ CanAwait("future")
    /\ \/ frames' = WithTop(Unwrapped) /\ UNCHANGED place
       \/ frames' = WithTop(Wrapped) /\ place' = "future"
    /\ UNCHANGED <<thread, target, result, syncawait, fault>>

\* An awaiter whose await_suspend returns false: an empty closure is checked in.
AwaitUnsuspended ==
    /\ CanAwait("unsuspended")
    /\ frames' = WithTop(Unwrapped)
    /\ fault' = IF Top.executor # NullExecutor /\ Wrapped.context = -1 THEN "assert" ELSE fault
    /\ UNCHANGED <<place, thread, target, result, syncawait>>

-----------------------------------------------------------------------------
(* Going back to the coroutine that awaits.                                 *)

\* Wrong variant: without an executor nobody is resumed.
ViaCoroutineEndsSilently(f, t) ==
    IF f.executor = NullExecutor
      THEN place' = "finished" /\ UNCHANGED <<thread, target, fault>>
      ELSE Checkin(f.executor, f.context, t)

\* FinalAwaiter of the ViaCoroutine of frame f, run on thread t.
ViaCoroutineEnds(f, t) ==
    IF f.executor = NullExecutor
      THEN place' = "running" /\ thread' = t /\ UNCHANGED <<target, fault>>
      ELSE Checkin(f.executor, f.context, t)

\* The continuation of the future runs: in await_suspend when the result has come
\* in the meantime, on the thread of the promise, or on an executor of the future.
FutureResult ==
    /\ place = "future"
    /\ \E t \in (Threads \ {Main}) \union {thread} : ViaCoroutineEnds(Top, t)
    /\ UNCHANGED <<root, frames, awaits, result, syncawait>>

\* co_return or an exception.  The final awaiter goes on with continuation_: the
\* callback of Start, the parent, or the parent's ViaCoroutine.
Return(r) ==
    /\ place = "running"
    /\ result' = r
    /\ frames' = Front(frames)
    /\ IF Len(frames) = 1
         THEN place' = "store" /\ UNCHANGED <<thread, target, fault>>
         ELSE LET parent == frames[Len(frames) - 1] IN
              IF parent.wrapped
                THEN ViaCoroutineEnds(parent, thread)
                ELSE UNCHANGED <<place, thread, target, fault>>
    /\ UNCHANGED <<root, awaits, syncawait>>

-----------------------------------------------------------------------------
Await ==
    \/ AwaitLazy \/ AwaitYield \/ AwaitSleep \/ AwaitFuture \/ AwaitUnsuspended
    \/ \E e \in Executors : AwaitVia(e) \/ AwaitSchedule(e)

Progress ==
    \/ SyncAwait \/ RunQueued \/ TimerFires \/ FutureResult
    \/ \E r \in Outcomes : Return(r)
    \/ StoreValue \/ ReleaseSem \/ SyncAwaitReturn

\* SyncAwait has returned, or waits for ever for a handle an executor refused.
Terminated ==
    /\ place = "refused" \/ fault # "none" \/ (place = "finished" /\ sem = 0)
    /\ UNCHANGED vars

Next == (fault = "none" /\ (Await \/ Progress)) \/ Terminated

Spec == Init /\ [][Next]_vars

\* Threads run, executors run what they accepted, and promises are fulfilled.
Fairness == WF_vars(fault = "none" /\ (Await \/ Progress))

FairSpec == Spec /\ Fairness

-----------------------------------------------------------------------------
(* Properties.                                                              *)

\* No null executor is called, and no ASSERT fails (assert.hpp: a library bug); the
\* variables keep their types.
NoFault == TypeOK /\ fault = "none"

\* A coroutine that awaited a future, or a lazy on another executor, goes on upon
\* the very thread it left ("scheduled back to the former context", the doc's word on
\* ViaCoroutine), however many other coroutines, executors and threads came between.
BackOnContext == place = "running" /\ Top.home # NoThread => thread = Top.home

\* A coroutine with an executor runs on a worker of that executor, after every kind
\* of await and at every depth: what CHECK_EXECUTOR tests along a few paths.
OnOwnExecutor ==
    place = "running" /\ Top.executor # NullExecutor
        => CurrentThreadInExecutor(Top.executor, thread)

\* SyncAwait returns what the root coroutine ended with, written by another thread.
ReturnsRootResult == returned # "no" => returned = result /\ frames = <<>>

\* SyncAwait returns, unless an executor has refused the handle of the chain.
SyncAwaitReturns == <>(returned # "no" \/ place = "refused")
=============================================================================
