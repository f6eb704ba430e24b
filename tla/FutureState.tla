----------------------------- MODULE FutureState -----------------------------
(***************************************************************************)
(* The life of ONE FutureState<T> object (sync/future_state.hpp) shared by *)
(* Promise and Future handles (sync/promise.hpp, sync/future.hpp).         *)
(*                                                                         *)
(* An actor is a handle, used by one thread at a time as a C++ object must *)
(* be, or Task, the closure handed to the executor.  pc[a] is the place of *)
(* a inside the library code it is executing; every access to an atomic    *)
(* member is a step of its own.  Two relaxed increments made back to back  *)
(* by an actor that already owns a reference are one step: nobody can act  *)
(* on the value between them, because only a decrement to 0 has an effect. *)
(***************************************************************************)
EXTENDS Naturals, FiniteSets, Sequences

CONSTANTS
    Promises, Futures,  \* handles that may ever refer to this object
    Task,               \* the closure given to Executor::Schedule / Checkin
    Values,             \* what SetValue may be called with
    Broken,             \* the "Promise is broken" exception
    MovedOut,           \* a Try that still says kValue, its value moved out
    Nothing, Destroyed, \* an empty Try / no continuation; ~Continuation() ran
    NullExecutor, Ex,   \* the values of executor_
    RefMod,             \* 2^8: attached_ and continuation_ref_ are uint8_t
    \* What the client program does with its handles:
    Setters,            \* promises SetValue / SetException is called on
    Continuers,         \* futures SetContinuation (ThenTry, ThenValue) is called on
    Waiters,            \* futures Wait (Get) is called on
    Takers,             \* futures whose result is taken: Get, Value() &&, Result() &&
    Forcers,            \* promises ForceScheduled is called on
    Checkouts,          \* where Promise::Checkout runs: in a "worker", "outside"
    ViaArgs,            \* what Future::Via is called with
    MoveAssigned        \* handles that are the target of a move assignment

Handles == Promises \union Futures
Actors  == Handles \union {Task}

ASSUME ActorsAssumption ==
    /\ IsFiniteSet(Promises) /\ IsFiniteSet(Futures)
    /\ Promises \intersect Futures = {}
    /\ Task \notin Handles
ASSUME ValuesAssumption ==
    /\ Broken \notin Values /\ Nothing \notin Values \union {Broken}
    /\ MovedOut \notin Values \union {Broken, Nothing}
    /\ {Nothing, Destroyed} \intersect Futures = {}
    /\ Nothing # Destroyed
    /\ NullExecutor # Ex
\* One byte counts every reference at once: beyond this many handles it would wrap.
ASSUME RefModAssumption ==
    /\ RefMod \in Nat
    /\ Cardinality(Handles) + 2 < RefMod
ASSUME ClientAssumption ==
    /\ Setters \subseteq Promises /\ Forcers \subseteq Promises
    /\ Continuers \subseteq Futures /\ Waiters \subseteq Futures /\ Takers \subseteq Futures
    /\ MoveAssigned \subseteq Handles
    /\ Checkouts \subseteq {"worker", "outside"}
    /\ ViaArgs \subseteq {NullExecutor, Ex}

VARIABLES
    state_, try_value_, continuation_, attached_, continuation_ref_,
    promise_ref_, executor_, context_, force_scheduled,
    deleted,      \* "delete this" has run
    has_future_,  \* Promise::has_future_, a member of each handle
    pc,
    ret,          \* where the routine an actor is in returns to
    expected,     \* the local "state" of SetResult / SetContinuation
    arg,          \* the Try a promise passes to SetResult
    delivered,    \* history: the calls of the continuation
    published,    \* history: the Try of the SetResult whose CAS succeeded
    fault         \* the failed ASSERT, null dereference or std::terminate

counts  == <<attached_, continuation_ref_, promise_ref_, deleted>>
content == <<state_, try_value_, continuation_, delivered, published>>
config  == <<executor_, context_, force_scheduled, has_future_>>
local   == <<pc, ret, expected, arg>>
vars    == <<counts, content, config, local, fault>>

States     == {"Start", "OnlyResult", "OnlyContinuation", "Done"}
Contexts   == {"null", "worker", "outside"}
Faults     == {"none", "assert", "null_executor", "terminate"}
\* Places common to SetResult and SetContinuation, then to whoever runs the
\* continuation under a ContinuationReference.
SetPlaces   == {"check", "store", "load", "cas", "assert", "casdone", "sched"}
GuardPlaces == {"enqueue", "run", "deref", "detach"}
Places == SetPlaces \union GuardPlaces
            \union {"unborn", "idle", "dp_check", "dp_detach", "w_exec", "w_sem",
                    "taken", "orphan", "dead", "none", "done"}

TypeOK ==
    /\ state_ \in States
    /\ try_value_ \in Values \union {Broken, Nothing, MovedOut}
    /\ continuation_ \in Futures \union {Nothing, Destroyed}
    /\ attached_ \in 0 .. RefMod - 1
    /\ continuation_ref_ \in 0 .. RefMod - 1
    /\ promise_ref_ \in Nat
    /\ executor_ \in {NullExecutor, Ex}
    /\ context_ \in Contexts
    /\ force_scheduled \in BOOLEAN
    /\ deleted \in BOOLEAN
    /\ has_future_ \in [Promises -> BOOLEAN]
    /\ pc \in [Actors -> Places]
    /\ ret \in [Actors -> {"idle", "dp_detach", "w_sem", "done"}]
    /\ expected \in [Handles -> States]
    /\ arg \in [Promises -> Values \union {Broken, Nothing}]
    /\ delivered \in
          Seq((Futures \union {Nothing, Destroyed}) \X (Values \union {Broken, Nothing, MovedOut}))
    /\ published \in Values \union {Broken, Nothing}
    /\ fault \in Faults

-----------------------------------------------------------------------------
HasResult       == state_ \in {"OnlyResult", "Done"}
HasContinuation == state_ \in {"OnlyContinuation", "Done"}

\* The state an actor moves kStart to, and the one the other side moves it to.
Half(a)      == IF a \in Promises THEN "OnlyResult" ELSE "OnlyContinuation"
OtherHalf(a) == IF a \in Promises THEN "OnlyContinuation" ELSE "OnlyResult"

At(a, place) == pc[a] = place
Goto(a, place) == pc' = [pc EXCEPT ![a] = place]

\* LOGIC_ASSERT throws: out of a destructor, which is noexcept, that is
\* std::terminate, from anywhere else back to the caller.
Throw(a) ==
    IF ret[a] = "dp_detach"
      THEN fault' = "terminate" /\ UNCHANGED <<pc, ret>>
      ELSE /\ Goto(a, "idle")
           /\ ret' = [ret EXCEPT ![a] = "idle"]
           /\ UNCHANGED fault

IncRef(n) == IF n = RefMod - 1 THEN 0 ELSE n + 1
DecRef(n) == IF n = 0 THEN RefMod - 1 ELSE n - 1

\* Wrong variant: a handle that is created without being counted.
AttachNothing == UNCHANGED attached_

AttachOne == attached_' = IncRef(attached_)

\* Wrong variant: an off-by-one that deletes while one reference is left.
DetachOneTooEarly ==
    /\ attached_' = DecRef(attached_)
    /\ deleted' = (deleted \/ attached_ <= 2)
    /\ fault' = IF attached_ = 0 THEN "assert" ELSE fault

DetachOne ==
    /\ attached_' = DecRef(attached_)
    /\ deleted' = (deleted \/ attached_ = 1)
    /\ fault' = IF attached_ = 0 THEN "assert" ELSE fault

\* What may be left of a Try that was passed on as Try &&, by a callee who need not
\* move from it.  An exception_ptr is copied out of it, never moved.
LeftOf(try) == IF try \in Values THEN {try, MovedOut} ELSE {try}

-----------------------------------------------------------------------------
(* Promise<T> p: the first one creates the FutureState.                     *)
Init ==
    \E p0 \in Promises :
        /\ state_ = "Start" /\ try_value_ = Nothing /\ continuation_ = Nothing
        /\ attached_ = 1 /\ continuation_ref_ = 0 /\ promise_ref_ = 1
        /\ executor_ = NullExecutor /\ context_ = "null" /\ force_scheduled = FALSE
        /\ deleted = FALSE
        /\ has_future_ = [p \in Promises |-> FALSE]
        /\ pc = [a \in Actors |-> IF a = p0 THEN "idle"
                                  ELSE IF a = Task THEN "none" ELSE "unborn"]
        /\ ret = [a \in Actors |-> IF a = Task THEN "done" ELSE "idle"]
        /\ expected = [h \in Handles |-> "Start"]
        /\ arg = [p \in Promises |-> Nothing]
        /\ delivered = <<>> /\ published = Nothing
        /\ fault = "none"

\* Promise(const Promise&), run by the owner of p.  The move constructors hand
\* a reference from one C++ object to another: here the handle stays the same.
CopyPromise(p, q) ==
    /\ At(p, "idle") /\ At(q, "unborn")
    /\ Goto(q, "idle")
    /\ promise_ref_' = promise_ref_ + 1
    /\ AttachOne
    /\ has_future_' = [has_future_ EXCEPT ![q] = has_future_[p]]
    /\ UNCHANGED <<continuation_ref_, deleted, content, executor_, context_,
                   force_scheduled, ret, expected, arg, fault>>

GetFuture(p, f) ==
    /\ At(p, "idle") /\ At(f, "unborn")
    /\ ~has_future_[p]
    /\ Goto(f, "idle")
    /\ AttachOne
    /\ has_future_' = [has_future_ EXCEPT ![p] = TRUE]
    /\ UNCHANGED <<continuation_ref_, promise_ref_, deleted, content, executor_,
                   context_, force_scheduled, ret, expected, arg, fault>>

ForceScheduled(p) ==
    /\ At(p, "idle") /\ p \in Forcers
    /\ force_scheduled' = (force_scheduled \/ executor_ # NullExecutor)
    /\ UNCHANGED <<counts, content, executor_, context_, has_future_, local, fault>>

\* SimpleExecutor::Checkout: the worker's id, or -1 from any other thread.
Checkout(p) ==
    /\ At(p, "idle")
    /\ executor_ # NullExecutor
    /\ context_' \in Checkouts
    /\ UNCHANGED <<counts, content, executor_, force_scheduled, has_future_, local, fault>>

SetValue(p) ==
    /\ At(p, "idle") /\ p \in Setters
    /\ arg' \in {[arg EXCEPT ![p] = v] : v \in Values}
    /\ Goto(p, "check")
    /\ UNCHANGED <<counts, content, config, ret, expected, fault>>

\* Wrong variant: every promise destroyed without a result breaks it, not only
\* the last one (no "old == 1").
DestroyPromiseAlwaysBreaks(p) ==
    /\ At(p, "idle")
    /\ promise_ref_' = promise_ref_ - 1
    /\ ret' = [ret EXCEPT ![p] = "dp_detach"]
    /\ Goto(p, "dp_check")
    /\ UNCHANGED <<attached_, continuation_ref_, deleted, content, config, expected,
                   arg, fault>>

\* Wrong variant: DetachPromise runs twice, as after an explicit ~Promise().
DestroyPromiseTwice(p) ==
    /\ At(p, "idle")
    /\ promise_ref_' = promise_ref_ - 2
    /\ ret' = [ret EXCEPT ![p] = "dp_detach"]
    /\ Goto(p, IF promise_ref_ = 1 THEN "dp_check" ELSE "dp_detach")
    /\ UNCHANGED <<attached_, continuation_ref_, deleted, content, config, expected,
                   arg, fault>>

\* ~Promise -> DetachPromise, up to its fetch_sub.
DestroyPromise(p) ==
    /\ At(p, "idle")
    /\ IF promise_ref_ = 0
         THEN fault' = "assert" /\ UNCHANGED promise_ref_
         ELSE promise_ref_' = promise_ref_ - 1 /\ UNCHANGED fault
    /\ ret' = [ret EXCEPT ![p] = "dp_detach"]
    /\ Goto(p, IF promise_ref_ = 1 THEN "dp_check" ELSE "dp_detach")
    /\ UNCHANGED <<attached_, continuation_ref_, deleted, content, config, expected, arg>>

\* Wrong variant: the last promise never breaks the state.
DetachPromiseSilently(p) ==
    /\ At(p, "dp_check")
    /\ Goto(p, "dp_detach")
    /\ UNCHANGED <<counts, content, config, ret, expected, arg, fault>>

\* Wrong variant: the exception is not put into the Try that is stored.
DetachPromiseCheckEmpty(p) ==
    /\ At(p, "dp_check")
    /\ Goto(p, IF HasResult THEN "dp_detach" ELSE "check")
    /\ arg' = [arg EXCEPT ![p] = Nothing]
    /\ UNCHANGED <<counts, content, config, ret, expected, fault>>

\* The last promise without a result sets the "Promise is broken" exception.
DetachPromiseCheck(p) ==
    /\ At(p, "dp_check")
    /\ Goto(p, IF HasResult THEN "dp_detach" ELSE "check")
    /\ arg' = [arg EXCEPT ![p] = Broken]
    /\ UNCHANGED <<counts, content, config, ret, expected, fault>>

DetachPromiseDetach(p) ==
    /\ At(p, "dp_detach")
    /\ DetachOne
    /\ Goto(p, "dead")
    /\ UNCHANGED <<continuation_ref_, promise_ref_, content, config, ret, expected, arg>>

-----------------------------------------------------------------------------
(* FutureState::SetResult (a promise) and SetContinuation (a future).       *)

SetResultCheck(p) ==
    /\ At(p, "check")
    /\ IF HasResult THEN Throw(p)
                    ELSE Goto(p, "store") /\ UNCHANGED <<ret, fault>>
    /\ UNCHANGED <<counts, content, config, expected, arg>>

SetResultStore(p) ==
    /\ At(p, "store")
    /\ try_value_' = arg[p]
    /\ Goto(p, "load")
    /\ UNCHANGED <<counts, state_, continuation_, delivered, published, config,
                   ret, expected, arg, fault>>

SetContinuationCheck(f) ==
    /\ At(f, "check")
    /\ IF HasContinuation THEN Throw(f)
                          ELSE Goto(f, "store") /\ UNCHANGED <<ret, fault>>
    /\ UNCHANGED <<counts, content, config, expected, arg>>

\* Placement new: a continuation already there is overwritten.
SetContinuationStore(f) ==
    /\ At(f, "store")
    /\ continuation_' = f
    /\ Goto(f, "load")
    /\ UNCHANGED <<counts, state_, try_value_, delivered, published, config,
                   ret, expected, arg, fault>>

\* The history variable follows the compare-exchange that publishes the result.
Publish(a) == published' = IF a \in Promises THEN arg[a] ELSE published

LoadState(a) ==
    /\ At(a, "load")
    /\ expected' = [expected EXCEPT ![a] = state_]
    /\ IF state_ \in {"Start", OtherHalf(a)}
         THEN Goto(a, IF state_ = "Start" THEN "cas" ELSE "casdone") /\ UNCHANGED <<ret, fault>>
         ELSE Throw(a)
    /\ UNCHANGED <<counts, content, config, arg>>

\* Wrong variant: a plain store instead of the compare-exchange.
CasHalfBlind(a) ==
    /\ At(a, "cas")
    /\ state_' = Half(a)
    /\ Publish(a)
    /\ Goto(a, ret[a])
    /\ ret' = [ret EXCEPT ![a] = IF @ = "dp_detach" THEN @ ELSE "idle"]
    /\ UNCHANGED <<counts, try_value_, continuation_, delivered, config, expected, arg, fault>>

CasHalf(a) ==
    /\ At(a, "cas")
    /\ IF state_ = "Start"
         THEN /\ state_' = Half(a)
              /\ Publish(a)
              /\ Goto(a, ret[a])
              /\ ret' = [ret EXCEPT ![a] = IF @ = "dp_detach" THEN @ ELSE "idle"]
              /\ UNCHANGED expected
         ELSE /\ expected' = [expected EXCEPT ![a] = state_]
              /\ Goto(a, "assert")
              /\ UNCHANGED <<state_, published, ret>>
    /\ UNCHANGED <<counts, try_value_, continuation_, delivered, config, arg, fault>>

AssertOtherHalf(a) ==
    /\ At(a, "assert")
    /\ fault' = IF state_ = OtherHalf(a) THEN fault ELSE "assert"
    /\ Goto(a, "casdone")
    /\ UNCHANGED <<counts, content, config, ret, expected, arg>>

\* Wrong variant: a plain store of kDone, so that two actors can both schedule.
CasDoneBlind(a) ==
    /\ At(a, "casdone")
    /\ state_' = "Done"
    /\ Publish(a)
    /\ Goto(a, "sched")
    /\ UNCHANGED <<counts, try_value_, continuation_, delivered, config, ret, expected, arg, fault>>

CasDone(a) ==
    /\ At(a, "casdone")
    /\ IF state_ = expected[a]
         THEN /\ state_' = "Done"
              /\ Publish(a)
              /\ Goto(a, "sched")
              /\ UNCHANGED <<ret, fault>>
         ELSE Throw(a) /\ UNCHANGED <<state_, published>>
    /\ UNCHANGED <<counts, try_value_, continuation_, delivered, config, expected, arg>>

-----------------------------------------------------------------------------
(* ScheduleContinuation, by the one whose compare-exchange reached kDone.   *)

\* CurrentThreadInExecutor is up to the caller's thread, false with no executor.
RunsInline(a, inExecutor) ==
    /\ ~force_scheduled
    /\ \/ executor_ = NullExecutor
       \/ a \in Futures          \* trigger_by_continuation
       \/ inExecutor

ScheduleContinuation(a) ==
    /\ At(a, "sched")
    /\ \E inExecutor \in BOOLEAN :
        IF RunsInline(a, inExecutor)
          THEN /\ attached_' = IncRef(attached_)
               /\ continuation_ref_' = IncRef(continuation_ref_)
               /\ Goto(a, "run")
          ELSE \* guard, soon owned by the closure, and guard_for_exception
               /\ attached_' = IncRef(IncRef(attached_))
               /\ continuation_ref_' = IncRef(IncRef(continuation_ref_))
               /\ Goto(a, "enqueue")
    /\ UNCHANGED <<promise_ref_, deleted, content, config, ret, expected, arg, fault>>

\* Schedule or Checkin on SimpleExecutor.  An "outside" context is a negative
\* thread id, which fails ScheduleById's ASSERT.  Checkin's prompt path cannot
\* be taken here: without force_scheduled the caller is not a worker of executor_.
EnqueueAccepted(a) ==
    /\ At(a, "enqueue")
    /\ fault' = IF executor_ = NullExecutor THEN "null_executor"
                ELSE IF context_ = "outside" THEN "assert" ELSE fault
    /\ pc' = [pc EXCEPT ![a] = "deref", ![Task] = "run"]
    /\ UNCHANGED <<counts, content, config, ret, expected, arg>>

\* Wrong variant: the refused closure keeps its guard.
EnqueueRefusedLeaks(a) ==
    /\ At(a, "enqueue")
    /\ fault' = IF executor_ = NullExecutor THEN "null_executor" ELSE fault
    /\ Goto(a, "run")
    /\ UNCHANGED <<counts, content, config, ret, expected, arg>>

\* Wrong variant: a refused closure is forgotten, as nobody looks at "ret".
EnqueueRefusedIgnored(a) ==
    /\ At(a, "enqueue")
    /\ fault' = IF executor_ = NullExecutor THEN "null_executor" ELSE fault
    /\ attached_' = DecRef(attached_)
    /\ continuation_ref_' = DecRef(continuation_ref_)
    /\ Goto(a, "deref")
    /\ UNCHANGED <<promise_ref_, deleted, content, config, ret, expected, arg>>

\* The pool has stopped: the closure dies with its guard, which cannot be the
\* last one, and the continuation runs here.
EnqueueRefused(a) ==
    /\ At(a, "enqueue")
    /\ fault' = IF executor_ = NullExecutor THEN "null_executor" ELSE fault
    /\ attached_' = DecRef(attached_)
    /\ continuation_ref_' = DecRef(continuation_ref_)
    /\ Goto(a, "run")
    /\ UNCHANGED <<promise_ref_, deleted, content, config, ret, expected, arg>>

\* continuation_(std::move(try_value_)).
Invoke(a) ==
    /\ At(a, "run")
    /\ delivered' = Append(delivered, <<continuation_, try_value_>>)
    /\ try_value_' \in LeftOf(try_value_)
    /\ Goto(a, "deref")
    /\ UNCHANGED <<counts, state_, continuation_, published, config,
                   ret, expected, arg, fault>>

\* Wrong variant: the first of two guards destroys the continuation.
DerefContinuationTooEarly(a) ==
    /\ At(a, "deref")
    /\ continuation_ref_' = DecRef(continuation_ref_)
    /\ continuation_' = Destroyed
    /\ Goto(a, "detach")
    /\ UNCHANGED <<attached_, promise_ref_, deleted, state_, try_value_, delivered,
                   published, config, ret, expected, arg, fault>>

\* ~ContinuationReference: DerefContinuation, then DetachOne.
DerefContinuation(a) ==
    /\ At(a, "deref")
    /\ continuation_ref_' = DecRef(continuation_ref_)
    /\ continuation_' = IF continuation_ref_ = 1 THEN Destroyed ELSE continuation_
    /\ fault' = IF continuation_ref_ = 0 THEN "assert" ELSE fault
    /\ Goto(a, "detach")
    /\ UNCHANGED <<attached_, promise_ref_, deleted, state_, try_value_, delivered,
                   published, config, ret, expected, arg>>

DetachGuard(a) ==
    /\ At(a, "detach")
    /\ DetachOne
    /\ Goto(a, ret[a])
    /\ ret' = [ret EXCEPT ![a] = IF @ = "w_sem" THEN "idle" ELSE @]
    /\ UNCHANGED <<continuation_ref_, promise_ref_, content, config, expected, arg>>

-----------------------------------------------------------------------------
(* Future<T> f.                                                             *)
SetExecutor(f) ==
    /\ At(f, "idle")
    /\ executor_' \in ViaArgs
    /\ UNCHANGED <<counts, content, context_, force_scheduled, has_future_, local, fault>>

SetContinuation(f) ==
    /\ At(f, "idle") /\ f \in Continuers
    /\ Goto(f, "check")
    /\ UNCHANGED <<counts, content, config, ret, expected, arg, fault>>

\* Wait: nothing to do with a result, else a continuation that releases sem.
Wait(f) ==
    /\ At(f, "idle") /\ f \in Waiters
    /\ ~HasResult
    /\ Goto(f, "w_exec")
    /\ ret' = [ret EXCEPT ![f] = "w_sem"]
    /\ UNCHANGED <<counts, content, config, expected, arg, fault>>

WaitSetExecutor(f) ==
    /\ At(f, "w_exec")
    /\ executor_' = NullExecutor
    /\ Goto(f, "check")
    /\ UNCHANGED <<counts, content, context_, force_scheduled, has_future_,
                   ret, expected, arg, fault>>

\* sem.acquire(), then *this = std::move(future): shared_state_ is overwritten
\* and this object is never detached from.
WaitReturn(f) ==
    /\ At(f, "w_sem")
    /\ \E i \in DOMAIN delivered : delivered[i][1] = f
    /\ Goto(f, "orphan")
    /\ UNCHANGED <<counts, content, config, ret, expected, arg, fault>>

\* std::move(f).Value(), which is how Get ends, or Result(): f is used up, as the
\* && says, and may only be assigned to or destroyed.
TakeResult(f) ==
    /\ At(f, "idle") /\ f \in Takers
    /\ HasResult
    /\ try_value_' \in LeftOf(try_value_)
    /\ Goto(f, "taken")
    /\ UNCHANGED <<counts, state_, continuation_, delivered, published, config,
                   ret, expected, arg, fault>>

\* operator=(Future&&) and operator=(Promise&&) with this object on the left.
MoveAssign(h) ==
    /\ pc[h] \in {"idle", "taken"} /\ h \in MoveAssigned
    /\ Goto(h, "orphan")
    /\ UNCHANGED <<counts, content, config, ret, expected, arg, fault>>

DestroyFuture(f) ==
    /\ pc[f] \in {"idle", "taken"}
    /\ DetachOne
    /\ Goto(f, "dead")
    /\ UNCHANGED <<continuation_ref_, promise_ref_, content, config, ret, expected, arg>>

-----------------------------------------------------------------------------
\* What the owner of a handle may start.
PromiseCall(p) ==
    \/ \E q \in Promises : CopyPromise(p, q)
    \/ \E f \in Futures : GetFuture(p, f)
    \/ ForceScheduled(p)
    \/ Checkout(p)
    \/ SetValue(p)
    \/ DestroyPromise(p)

FutureCall(f) ==
    \/ SetExecutor(f)
    \/ SetContinuation(f)
    \/ Wait(f)
    \/ DestroyFuture(f)

\* What a thread that is inside the library does next.
PromiseStep(p) ==
    \/ DetachPromiseCheck(p) \/ DetachPromiseDetach(p)
    \/ SetResultCheck(p) \/ SetResultStore(p)

FutureStep(f) ==
    \/ WaitSetExecutor(f) \/ WaitReturn(f)
    \/ SetContinuationCheck(f) \/ SetContinuationStore(f)

TransferStep(h) ==
    \/ LoadState(h) \/ CasHalf(h) \/ AssertOtherHalf(h) \/ CasDone(h)
    \/ ScheduleContinuation(h) \/ EnqueueAccepted(h) \/ EnqueueRefused(h)

GuardStep(a) == Invoke(a) \/ DerefContinuation(a) \/ DetachGuard(a)

Step ==
    \/ \E p \in Promises : PromiseCall(p) \/ PromiseStep(p)
    \/ \E f \in Futures : FutureCall(f) \/ FutureStep(f) \/ TakeResult(f)
    \/ \E h \in Handles : MoveAssign(h) \/ TransferStep(h)
    \/ \E a \in Actors : GuardStep(a)

\* All handles are gone and the closure has run, or the process has aborted.
Terminated ==
    /\ \/ fault # "none"
       \/ /\ \A h \in Handles : pc[h] \in {"unborn", "dead", "orphan"}
          /\ pc[Task] \in {"none", "done"}
    /\ UNCHANGED vars

Next == (fault = "none" /\ Step) \/ Terminated

Spec == Init /\ [][Next]_vars

-----------------------------------------------------------------------------
(* Fairness.  A thread inside the library keeps running, the executor runs  *)
(* an accepted closure (the contract of Executor::Schedule), and every      *)
(* promise is destroyed some day, however often it is used before.          *)
HandleProgress(h) ==
    fault = "none" /\ (IF h \in Promises THEN PromiseStep(h) ELSE FutureStep(h))
TransferProgress(h) == fault = "none" /\ TransferStep(h)
GuardProgress(a) == fault = "none" /\ GuardStep(a)

Fairness ==
    /\ \A h \in Handles : WF_vars(HandleProgress(h)) /\ WF_vars(TransferProgress(h))
    /\ \A a \in Actors : WF_vars(GuardProgress(a))
    /\ \A p \in Promises : SF_vars(fault = "none" /\ DestroyPromise(p))

FairSpec == Spec /\ Fairness

-----------------------------------------------------------------------------
(* Properties.                                                              *)

\* Those who own one count of attached_: the handles, and the guards.
Refs          == {h \in Handles : pc[h] \notin {"unborn", "dead"}}
Guards        == {a \in Actors : pc[a] \in GuardPlaces}
Enqueuing     == {h \in Handles : pc[h] = "enqueue"}
PromiseRefs   == {p \in Promises : pc[p] \notin {"unborn", "dead"} /\ ret[p] # "dp_detach"}
\* A guard between its DerefContinuation and its DetachOne.
LiveGuards    == {a \in Actors : pc[a] \in GuardPlaces \ {"detach"}}

\* The one-byte counters never drift from the references that really exist,
\* whatever the interleaving of copies, destructors and guards.
RefCountExact ==
    /\ attached_ = Cardinality(Refs) + Cardinality(Guards) + Cardinality(Enqueuing)
    /\ continuation_ref_ = Cardinality(LiveGuards) + Cardinality(Enqueuing)
    /\ promise_ref_ = Cardinality(PromiseRefs)

\* "delete this" runs only when no thread can reach the object any more: no
\* handle refers to it and no closure that captured it is still to run.
NoUseAfterFree == deleted => Refs = {} /\ Guards = {}

\* No ASSERT of the library fails (assert.hpp: that would be a library bug), no
\* null executor is called, and no exception leaves ~Promise.
NoFault == fault = "none"

\* A null executor_ is never asked to schedule the continuation.
NoNullExecutor == fault # "null_executor"

\* Whoever races to hand out the continuation, it is called at most once, even
\* when the client breaks the rule of one setter and one continuer.
CalledAtMostOnce == Len(delivered) <= 1

\* The continuation is called at most once, while it is alive, and with the
\* result whose SetResult won: a promise's value, or Broken only if no promise
\* ever published one.
DeliveredOnce ==
    /\ CalledAtMostOnce
    /\ \A i \in DOMAIN delivered :
        delivered[i][1] \in Futures /\ delivered[i][2] = published /\ published # Nothing

\* Who may have moved a value out: the continuation, or the owner of a future.
MayBeEmptied ==
    delivered # <<>> \/ \E f \in Takers : pc[f] \in {"taken", "dead", "orphan"}

\* Future::Value returns a reference into try_value_.  What a reader finds there is
\* the Try whose compare-exchange won, in spite of other promises, or the last one
\* that breaks; or, after the call or a taker, that same value emptied.
PublishedUntilTaken ==
    HasResult =>
        /\ published # Nothing
        /\ \/ try_value_ = published
           \/ try_value_ = MovedOut /\ published \in Values /\ MayBeEmptied

\* Once nobody refers to the object it has been deleted: no leak.
FreedWhenUnreferenced ==
    (\A h \in Handles : pc[h] \in {"unborn", "dead", "orphan"}) /\ pc[Task] \in {"none", "done"}
        => deleted

\* A continuation that has been installed is eventually called, because a
\* promise that dies without a value publishes the broken exception.
ContinuationRuns == HasContinuation ~> delivered # <<>>

\* Wait and Get return, or throw because a continuation is there already: they
\* never block on a semaphore nobody will release.
WaitReturns == \A f \in Futures : At(f, "w_exec") ~> pc[f] \in {"orphan", "idle"}

-----------------------------------------------------------------------------
(* The inductive invariant behind the safety properties.                     *)
Scheduling == {"sched"} \union GuardPlaces

\* Which actor can be where, and where it returns to.
PlacesOK ==
    /\ \A p \in Promises :
        /\ pc[p] \notin {"none", "done", "w_exec", "w_sem", "taken"}
        /\ ret[p] \in {"idle", "dp_detach"}
        /\ pc[p] \in {"dp_check", "dp_detach"} => ret[p] = "dp_detach"
        /\ pc[p] \in {"unborn", "idle", "orphan"} => ret[p] = "idle"
    /\ \A f \in Futures :
        /\ pc[f] \notin {"none", "done", "dp_check", "dp_detach"}
        /\ ret[f] \in {"idle", "w_sem"}
    /\ pc[Task] \in {"none", "run", "deref", "detach", "done"}
    /\ ret[Task] = "done"

\* state_ only moves forward, so a compare-exchange to kDone has one winner ever.
CasOK ==
    \A h \in Handles :
        /\ pc[h] = "assert" => expected[h] # "Start" /\ state_ \in {expected[h], "Done"}
        /\ pc[h] = "casdone" /\ fault = "none" => expected[h] = OtherHalf(h)

\* That winner is the only handle that schedules, and it hands out one closure.
OneScheduler ==
    /\ \A g, h \in Handles : pc[g] \in Scheduling /\ pc[h] \in Scheduling => g = h
    /\ \A h \in Handles : pc[h] \in Scheduling => state_ = "Done"
    /\ pc[Task] # "none" => state_ = "Done"
    /\ \A h \in Handles : pc[h] \in {"sched", "enqueue", "run"} => pc[Task] = "none"

\* The call is still owed as long as somebody may make it.
CallOwed ==
    /\ state_ # "Done" => delivered = <<>>
    /\ \A h \in Handles : pc[h] \in {"sched", "enqueue", "run"} => delivered = <<>>
    /\ pc[Task] = "run" => delivered = <<>>

DeletedAtZero == deleted <=> attached_ = 0

IndInv ==
    TypeOK /\ PlacesOK /\ CasOK /\ OneScheduler /\ CallOwed
    /\ RefCountExact /\ DeletedAtZero /\ CalledAtMostOnce

-----------------------------------------------------------------------------
(* Refinement.  The result is the one that was published, whatever the call  *)
(* leaves of it; the handler is the installed continuation, remembered by    *)
(* the history once ~Continuation has run.                                   *)
Installed == IF continuation_ = Destroyed THEN delivered[1][1] ELSE continuation_

Channel == INSTANCE OneShot WITH
    Owners <- Promises, Handlers <- Futures, None <- Nothing,
    owners <- PromiseRefs,
    result <- IF HasResult THEN published ELSE Nothing,
    handler <- IF HasContinuation THEN Installed ELSE Nothing,
    calls <- delivered

\* The lock-free protocol of FutureState is a one-shot channel: one result, the
\* broken exception exactly when the last promise leaves without one, one call.
ImplementsOneShot == Channel!Spec

\* And it keeps the channel's liveness.
ImplementsLiveOneShot == Channel!LiveSpec
=============================================================================
