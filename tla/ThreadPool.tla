----------------------------- MODULE ThreadPool -----------------------------
(***************************************************************************)
(* util/thread_pool.hpp and the ThreadsafeQueues it is made of             *)
(* (container/threadsafe_queue.hpp): worker threads with one queue each,   *)
(* optional stealing, and a destructor that stops and joins the workers;   *)
(* on top, Executor::SyncSchedule (executor/executor.hpp), which blocks    *)
(* its caller until the closure has run.                                   *)
(*                                                                         *)
(* A mutex is taken in one step and released in another, so that try_lock  *)
(* can fail; what is done under the mutex is part of the releasing step.   *)
(* Nobody but worker q ever waits on the condition variable of queue q.    *)
(***************************************************************************)
EXTENDS Integers, Sequences, FiniteSets

CONSTANTS
    thread_num_,
    Clients,        \* threads outside the pool
    Destroyer,      \* the thread that runs ~ThreadPool
    Items,          \* the closures of this run
    Free,           \* nobody holds the mutex
    NullFn,         \* an empty std::function
    Usages          \* the pools and their uses that a run may choose from, records of
                    \*   steal:   the constructor's enable_work_steal
                    \*   pin:     the id an item is scheduled with, -1 for any worker
                    \*   child:   the item an item schedules when it runs, or NullFn
                    \*   sync:    the items handed in through SyncSchedule
                    \*   program: what each client schedules, in order
                    \*   max_spurious: bound on the spurious wakeups of a run

Workers == 0 .. thread_num_ - 1
Threads == Workers \union Clients \union {Destroyer}

ASSUME PoolAssumption ==
    /\ thread_num_ \in Nat \ {0}
ASSUME ThreadsAssumption ==
    /\ Clients \intersect Workers = {}
    /\ Destroyer \notin Clients \union Workers
    /\ Free \notin Threads
ASSUME ItemsAssumption ==
    /\ NullFn \notin Items
    /\ \A u \in Usages :
        /\ u.steal \in BOOLEAN
        /\ u.pin \in [Items -> Workers \union {-1}]
        /\ u.child \in [Items -> Items \union {NullFn}]
        /\ u.sync \subseteq {i \in Items : u.child[i] = NullFn /\ u.pin[i] = -1}
        /\ u.program \in [Clients -> Seq(Items \union {NullFn})]
        /\ u.max_spurious \in Nat

VARIABLES
    use,        \* the usage of this run
    queue,      \* queue[q]: what std::queue q holds
    mutex,      \* mutex[q]: its holder
    qstop,      \* qstop[q]: ThreadsafeQueue::stop_
    stop_,      \* ThreadPool::stop_
    pc, n,      \* place and loop counter of each thread
    at,         \* the queue a thread works on
    fn,         \* the closure a thread schedules or runs
    todo,       \* what is left of each client's program
    accepted,   \* history: items for which kErrorNone was returned
    ran,        \* history: <<worker, item>> in the order the closures began
    pushed,     \* history: per queue, the pinned items in the order of their pushes
    spurious    \* spurious wakeups so far

queues  == <<queue, mutex, qstop>>
history == <<accepted, ran, pushed>>
vars    == <<use, queues, stop_, pc, n, at, fn, todo, history, spurious>>

enable_work_steal_ == use.steal
Pin   == use.pin
Child == use.child

WorkItem(i) == [fn |-> i, can_steal |-> enable_work_steal_ /\ Pin[i] = -1]

ClientPlaces   == {"ready", "done"}
SchedulePlaces == {"check", "try_push", "push", "pushing", "notify", "acquire"}
WorkerPlaces   == {"steal", "stealing", "pop", "popping", "waiting", "run", "exited"}
DestroyPlaces  == {"alive", "stop", "stop_lock", "stopping", "notify_all", "join", "gone"}

TypeOK ==
    /\ use \in Usages
    /\ queue \in [Workers -> Seq([fn : Items, can_steal : BOOLEAN])]
    /\ mutex \in [Workers -> Threads \union {Free}]
    /\ qstop \in [Workers -> BOOLEAN] /\ stop_ \in BOOLEAN
    /\ pc \in [Threads -> ClientPlaces \union SchedulePlaces \union WorkerPlaces
                            \union DestroyPlaces]
    /\ n \in [Threads -> 0 .. 2 * thread_num_]
    /\ at \in [Threads -> Workers]
    /\ fn \in [Threads -> Items \union {NullFn}]
    /\ todo \in [Clients -> Seq(Items \union {NullFn})]
    /\ accepted \subseteq Items
    /\ ran \in Seq(Workers \X Items)
    /\ pushed \in [Workers -> Seq(Items)]
    /\ spurious \in 0 .. use.max_spurious

Init ==
    /\ use \in Usages
    /\ queue = [q \in Workers |-> <<>>]
    /\ mutex = [q \in Workers |-> Free]
    /\ qstop = [q \in Workers |-> FALSE]   \* vector(n) value-initialises the queues
    /\ stop_ = FALSE
    /\ pc = [t \in Threads |-> IF t \in Clients THEN "ready"
                               ELSE IF t = Destroyer THEN "alive"
                               ELSE IF enable_work_steal_ THEN "steal" ELSE "pop"]
    /\ n = [t \in Threads |-> 0]
    /\ at = [t \in Threads |-> IF t \in Workers THEN t ELSE 0]
    /\ fn = [t \in Threads |-> NullFn]
    /\ todo = use.program
    /\ accepted = {} /\ ran = <<>> /\ pushed = [q \in Workers |-> <<>>]
    /\ spurious = 0

At(t, place) == pc[t] = place
Goto(t, place) == pc' = [pc EXCEPT ![t] = place]

Lock(t, q) == mutex[q] = Free /\ mutex' = [mutex EXCEPT ![q] = t]
Unlock(q) == mutex' = [mutex EXCEPT ![q] = Free]

\* Where a thread goes when ScheduleById has returned: a worker ends its closure
\* and begins its next round, a client takes its next item.
LoopTop == IF enable_work_steal_ THEN "steal" ELSE "pop"
ReturnPlace(t) == IF t \in Workers THEN LoopTop ELSE "ready"
\* Where it goes with kErrorNone: SyncSchedule still has to acquire its semaphore.
AcceptedPlace(t) == IF fn[t] \in use.sync THEN "acquire" ELSE ReturnPlace(t)

-----------------------------------------------------------------------------
(* ScheduleById, called by a client or by a closure that a worker runs.     *)
CallSchedule(c) ==
    /\ At(c, "ready")
    /\ IF todo[c] = <<>>
         THEN Goto(c, "done") /\ UNCHANGED <<todo, fn>>
         ELSE /\ fn' = [fn EXCEPT ![c] = Head(todo[c])]
              /\ todo' = [todo EXCEPT ![c] = Tail(@)]
              /\ Goto(c, "check")
    /\ UNCHANGED <<use, queues, stop_, n, at, history, spurious>>

\* Wrong variant: rand() % (thread_num_ + 1).
ScheduleByIdTooFar(t) ==
    /\ At(t, "check")
    /\ n' = [n EXCEPT ![t] = 0]
    /\ IF fn[t] = NullFn \/ stop_
         THEN Goto(t, ReturnPlace(t)) /\ UNCHANGED at
         ELSE /\ at' \in {[at EXCEPT ![t] = q] : q \in 0 .. thread_num_}
              /\ Goto(t, "push")
    /\ UNCHANGED <<use, queues, stop_, fn, todo, history, spurious>>

\* kErrorPoolItemIsNull and kErrorPoolHasStop, else on to a queue.  stop_ is read
\* here, long before the push.
ScheduleById(t) ==
    /\ At(t, "check")
    /\ n' = [n EXCEPT ![t] = 0]
    /\ IF fn[t] = NullFn \/ stop_
         THEN Goto(t, ReturnPlace(t)) /\ UNCHANGED at
         ELSE \/ /\ Pin[fn[t]] = -1 /\ enable_work_steal_
                 /\ Goto(t, "try_push") /\ UNCHANGED at
              \/ /\ Pin[fn[t]] = -1 /\ ~enable_work_steal_
                 /\ at' \in {[at EXCEPT ![t] = q] : q \in Workers}   \* rand()
                 /\ Goto(t, "push")
              \/ /\ Pin[fn[t]] # -1
                 /\ at' = [at EXCEPT ![t] = Pin[fn[t]]]
                 /\ Goto(t, "push")
    /\ UNCHANGED <<use, queues, stop_, fn, todo, history, spurious>>

\* TryPush on queues 0, 1, ... twice round; then Push on any of them.
TryPush(t) ==
    /\ At(t, "try_push")
    /\ IF n[t] = 2 * thread_num_
         THEN /\ at' \in {[at EXCEPT ![t] = q] : q \in Workers}
              /\ Goto(t, "push")
              /\ UNCHANGED <<mutex, n>>
         ELSE LET q == n[t] % thread_num_ IN
              IF mutex[q] = Free
                THEN /\ Lock(t, q)
                     /\ at' = [at EXCEPT ![t] = q]
                     /\ Goto(t, "pushing")
                     /\ UNCHANGED n
                ELSE n' = [n EXCEPT ![t] = @ + 1] /\ UNCHANGED <<mutex, at, pc>>
    /\ UNCHANGED <<use, queue, qstop, stop_, fn, todo, history, spurious>>

PushLock(t) ==
    /\ At(t, "push")
    /\ Lock(t, at[t])
    /\ Goto(t, "pushing")
    /\ UNCHANGED <<use, queue, qstop, stop_, n, at, fn, todo, history, spurious>>

\* Wrong variant: the item goes to the front.
PushFront(t) ==
    /\ At(t, "pushing")
    /\ queue' = [queue EXCEPT ![at[t]] = <<WorkItem(fn[t])>> \o @]
    /\ pushed' = [pushed EXCEPT ![at[t]] = IF Pin[fn[t]] = -1 THEN @ ELSE Append(@, fn[t])]
    /\ Unlock(at[t])
    /\ Goto(t, "notify")
    /\ UNCHANGED <<use, qstop, stop_, n, at, fn, todo, accepted, ran, spurious>>

Push(t) ==
    /\ At(t, "pushing")
    /\ queue' = [queue EXCEPT ![at[t]] = Append(@, WorkItem(fn[t]))]
    /\ pushed' = [pushed EXCEPT ![at[t]] = IF Pin[fn[t]] = -1 THEN @ ELSE Append(@, fn[t])]
    /\ Unlock(at[t])
    /\ Goto(t, "notify")
    /\ UNCHANGED <<use, qstop, stop_, n, at, fn, todo, accepted, ran, spurious>>

\* Wrong variant: the push notifies nobody.
NotifyNobody(t) ==
    /\ At(t, "notify")
    /\ Goto(t, AcceptedPlace(t))
    /\ accepted' = accepted \union {fn[t]}
    /\ n' = [n EXCEPT ![t] = 0]
    /\ UNCHANGED <<use, queues, stop_, at, fn, todo, ran, pushed, spurious>>

\* notify_one after the unlock, and kErrorNone.
NotifyOne(t) ==
    /\ At(t, "notify")
    /\ pc' = [w \in Threads |->
                IF w = t THEN AcceptedPlace(t)
                ELSE IF w = at[t] /\ At(w, "waiting") THEN "pop" ELSE pc[w]]
    /\ accepted' = accepted \union {fn[t]}
    /\ n' = [n EXCEPT ![t] = 0]
    /\ UNCHANGED <<use, queues, stop_, at, fn, todo, ran, pushed, spurious>>

\* sem.acquire(): the closure releases it after its last statement.
SyncReturn(t) ==
    /\ At(t, "acquire")
    /\ \E k \in DOMAIN ran : ran[k][2] = fn[t]
    /\ Goto(t, ReturnPlace(t))
    /\ UNCHANGED <<use, queues, stop_, n, at, fn, todo, history, spurious>>

-----------------------------------------------------------------------------
(* WorkerThreadMain.                                                        *)

\* TryPopIf: fails on a held mutex, an empty queue, a front that is pinned.
TrySteal(w) ==
    /\ At(w, "steal")
    /\ IF n[w] = 2 * thread_num_
         THEN Goto(w, "pop") /\ UNCHANGED <<mutex, n, at>>
         ELSE LET q == (w + n[w]) % thread_num_ IN
              IF mutex[q] = Free
                THEN /\ Lock(w, q)
                     /\ at' = [at EXCEPT ![w] = q]
                     /\ Goto(w, "stealing")
                     /\ UNCHANGED n
                ELSE n' = [n EXCEPT ![w] = @ + 1] /\ UNCHANGED <<mutex, at, pc>>
    /\ UNCHANGED <<use, queue, qstop, stop_, fn, todo, history, spurious>>

Take(w, q) ==
    /\ fn' = [fn EXCEPT ![w] = Head(queue[q]).fn]
    /\ queue' = [queue EXCEPT ![q] = Tail(@)]
    /\ Goto(w, "run")

\* Wrong variant: pinned items are stolen too.
StealAnything(w) ==
    /\ At(w, "stealing")
    /\ IF queue[at[w]] # <<>>
         THEN Take(w, at[w]) /\ UNCHANGED n
         ELSE n' = [n EXCEPT ![w] = @ + 1] /\ Goto(w, "steal") /\ UNCHANGED <<fn, queue>>
    /\ Unlock(at[w])
    /\ UNCHANGED <<use, qstop, stop_, at, todo, history, spurious>>

TryPopIf(w) ==
    /\ At(w, "stealing")
    /\ IF queue[at[w]] # <<>> /\ Head(queue[at[w]]).can_steal
         THEN Take(w, at[w]) /\ UNCHANGED n
         ELSE n' = [n EXCEPT ![w] = @ + 1] /\ Goto(w, "steal") /\ UNCHANGED <<fn, queue>>
    /\ Unlock(at[w])
    /\ UNCHANGED <<use, qstop, stop_, at, todo, history, spurious>>

PopLock(w) ==
    /\ At(w, "pop")
    /\ Lock(w, w)
    /\ Goto(w, "popping")
    /\ UNCHANGED <<use, queue, qstop, stop_, n, at, fn, todo, history, spurious>>

\* Wrong variant: a stopped queue is left with its items in it.
PopStopsAtOnce(w) ==
    /\ At(w, "popping")
    /\ IF qstop[w] THEN Goto(w, "exited") /\ UNCHANGED <<fn, queue>>
       ELSE IF queue[w] # <<>> THEN Take(w, w)
       ELSE Goto(w, "waiting") /\ UNCHANGED <<fn, queue>>
    /\ Unlock(w)
    /\ UNCHANGED <<use, qstop, stop_, n, at, todo, history, spurious>>

\* Wrong variant: the front is copied and stays in the queue.
PopKeepsFront(w) ==
    /\ At(w, "popping")
    /\ IF queue[w] # <<>>
         THEN fn' = [fn EXCEPT ![w] = Head(queue[w]).fn] /\ Goto(w, "run")
         ELSE Goto(w, IF qstop[w] THEN "exited" ELSE "waiting") /\ UNCHANGED fn
    /\ Unlock(w)
    /\ UNCHANGED <<use, queue, qstop, stop_, n, at, todo, history, spurious>>

\* An item, or the end of the thread, or cond_.wait.
Pop(w) ==
    /\ At(w, "popping")
    /\ IF queue[w] # <<>>
         THEN Take(w, w)
         ELSE Goto(w, IF qstop[w] THEN "exited" ELSE "waiting") /\ UNCHANGED <<fn, queue>>
    /\ Unlock(w)
    /\ UNCHANGED <<use, qstop, stop_, n, at, todo, history, spurious>>

SpuriousWakeup(w) ==
    /\ At(w, "waiting") /\ spurious < use.max_spurious
    /\ spurious' = spurious + 1
    /\ Goto(w, "pop")
    /\ UNCHANGED <<use, queues, stop_, n, at, fn, todo, history>>

\* item.fn(): the closure runs, and perhaps schedules another one.
RunItem(w) ==
    /\ At(w, "run")
    /\ ran' = Append(ran, <<w, fn[w]>>)
    /\ fn' = [fn EXCEPT ![w] = Child[fn[w]]]
    /\ n' = [n EXCEPT ![w] = 0]
    /\ Goto(w, IF Child[fn[w]] = NullFn THEN LoopTop ELSE "check")
    /\ UNCHANGED <<use, queues, stop_, at, todo, accepted, pushed, spurious>>

-----------------------------------------------------------------------------
(* ~ThreadPool.  Whoever destroys it has waited for the clients to be done  *)
(* with the pool; closures may still be queued or running.                  *)
BeginDestroy ==
    /\ At(Destroyer, "alive")
    /\ \A c \in Clients : At(c, "done")
    /\ stop_' = TRUE
    /\ n' = [n EXCEPT ![Destroyer] = 0]
    /\ Goto(Destroyer, "stop_lock")
    /\ UNCHANGED <<use, queues, at, fn, todo, history, spurious>>

\* ThreadsafeQueue::Stop on each queue in turn.
StopLock ==
    /\ At(Destroyer, "stop_lock")
    /\ Lock(Destroyer, n[Destroyer])
    /\ Goto(Destroyer, "stopping")
    /\ UNCHANGED <<use, queue, qstop, stop_, n, at, fn, todo, history, spurious>>

Stop ==
    /\ At(Destroyer, "stopping")
    /\ qstop' = [qstop EXCEPT ![n[Destroyer]] = TRUE]
    /\ Unlock(n[Destroyer])
    /\ Goto(Destroyer, "notify_all")
    /\ UNCHANGED <<use, queue, stop_, n, at, fn, todo, history, spurious>>

\* Wrong variant: a stopped queue wakes nobody.
StopNotifiesNobody ==
    /\ At(Destroyer, "notify_all")
    /\ n' = [n EXCEPT ![Destroyer] = @ + 1]
    /\ Goto(Destroyer, IF n[Destroyer] + 1 = thread_num_ THEN "join" ELSE "stop_lock")
    /\ UNCHANGED <<use, queues, stop_, at, fn, todo, history, spurious>>

NotifyAll ==
    /\ At(Destroyer, "notify_all")
    /\ n' = [n EXCEPT ![Destroyer] = @ + 1]
    /\ pc' = [t \in Threads |->
                IF t = Destroyer
                  THEN IF n[Destroyer] + 1 = thread_num_ THEN "join" ELSE "stop_lock"
                ELSE IF t = n[Destroyer] /\ At(t, "waiting") THEN "pop" ELSE pc[t]]
    /\ UNCHANGED <<use, queues, stop_, at, fn, todo, history, spurious>>

\* The joins return when every worker has left its loop.
Join ==
    /\ At(Destroyer, "join")
    /\ \A w \in Workers : At(w, "exited")
    /\ Goto(Destroyer, "gone")
    /\ UNCHANGED <<use, queues, stop_, n, at, fn, todo, history, spurious>>

-----------------------------------------------------------------------------
ScheduleStep(t) ==
    ScheduleById(t) \/ TryPush(t) \/ PushLock(t) \/ Push(t) \/ NotifyOne(t)
    \/ SyncReturn(t)

WorkerStep(w) ==
    TrySteal(w) \/ TryPopIf(w) \/ PopLock(w) \/ Pop(w) \/ RunItem(w)

DestroyerStep == BeginDestroy \/ StopLock \/ Stop \/ NotifyAll \/ Join

Terminated == At(Destroyer, "gone") /\ UNCHANGED vars

Next ==
    \/ \E c \in Clients : CallSchedule(c)
    \/ \E t \in Clients \union Workers : ScheduleStep(t)
    \/ \E w \in Workers : WorkerStep(w) \/ SpuriousWakeup(w)
    \/ DestroyerStep
    \/ Terminated

Spec == Init /\ [][Next]_vars

\* Threads run.  A mutex that is free over and over is eventually obtained: the
\* runs are finite, so nobody can take it for ever.
Fairness ==
    /\ \A c \in Clients : WF_vars(CallSchedule(c))
    /\ \A t \in Clients \union Workers : WF_vars(ScheduleStep(t))
    /\ \A w \in Workers : WF_vars(WorkerStep(w))
    /\ WF_vars(DestroyerStep)

FairSpec == Spec /\ Fairness

-----------------------------------------------------------------------------
(* Properties.                                                              *)
RanItems == {ran[k][2] : k \in DOMAIN ran}

Queued(i)  == UNION {{<<q, k>> : k \in {k \in DOMAIN queue[q] : queue[q][k].fn = i}} :
                        q \in Workers}
Holding(i) == {w \in Workers : At(w, "run") /\ fn[w] = i}
Begun(i)   == {k \in DOMAIN ran : ran[k][2] = i}

\* An item that was accepted is queued once, held by one worker, or has run once:
\* Push, Pop, TryPopIf and their failing try_locks neither lose nor repeat it.
ItemsAccountedFor ==
    \A i \in Items :
        LET copies == Cardinality(Queued(i)) + Cardinality(Holding(i)) + Cardinality(Begun(i))
        IN copies <= 1 /\ (i \in accepted => copies = 1)

\* An item scheduled with an id runs on that worker: Checkin brings a coroutine back
\* to the thread it was checked out on, whatever the other workers steal.
PinnedRunsAtHome ==
    \A k \in DOMAIN ran : Pin[ran[k][2]] # -1 => ran[k][1] = Pin[ran[k][2]]

\* A worker runs the items pinned to it in the order they were pushed: when one of
\* them begins, all those pushed before it have begun.
PinnedRunInOrder ==
    \A k \in DOMAIN ran :
        LET w == Pin[ran[k][2]]
        IN w # -1 =>
             \E m \in DOMAIN pushed[w] :
                 /\ pushed[w][m] = ran[k][2]
                 /\ \A j \in 1 .. m - 1 : \E l \in 1 .. k - 1 : ran[l][2] = pushed[w][j]

\* Executor::Schedule: "when it returns true the scheduler must make sure that func
\* is executed", so the destructor may not return before every accepted item ran.
AcceptedRunsBeforeDestruction == At(Destroyer, "gone") => accepted \subseteq RanItems

\* Every accepted item runs: again and again, all those accepted so far have.
AcceptedRuns == []<>(accepted \subseteq RanItems)

\* SyncSchedule blocks its caller until the closure has run, and not longer.
SyncScheduleReturns ==
    (\E c \in Clients : At(c, "acquire")) ~> (\A c \in Clients : ~At(c, "acquire"))

\* The destructor returns: every worker wakes up, drains its queue and exits.
DestructionEnds == stop_ ~> At(Destroyer, "gone")
=============================================================================
