----------------------------- MODULE CollectAll -----------------------------
(***************************************************************************)
(* CollectAll, CollectAllPara and CollectAllWindowed[Para] (coro/          *)
(* collect.hpp, coro/count_event.hpp): a parent coroutine awaits the       *)
(* lazies of one group at a time.  The awaiter lives in the parent's frame *)
(* and dies when the parent goes on, while the thread that is still inside *)
(* await_suspend and the callbacks of the lazies hold its address.  In the *)
(* variadic forms a wrapper coroutine per lazy also writes its result into *)
(* a tuple in the parent's frame.                                          *)
(***************************************************************************)
EXTENDS Naturals, Sequences, FiniteSets

CONSTANTS
    input_size,     \* how many lazies
    Calls,          \* the calls the parent may make, see Call
    Null            \* an empty Try, no coroutine

Call == [max_concurrency : Nat,         \* the window, 0 for CollectAll
         yield           : BOOLEAN,     \* co_await Yield{} between the groups
         Para            : BOOLEAN,     \* start each lazy through the executor
         variadic        : BOOLEAN,     \* CollectAll(a, b, ...), which has no window
         executor        : {"none", "accepts", "refuses"}]  \* that of the parent

ASSUME CollectAssumption ==
    /\ input_size \in Nat /\ Calls \subseteq Call /\ Null \notin Nat
    /\ \A c \in Calls : c.variadic => c.max_concurrency = 0

Lazies == 0 .. input_size - 1

VARIABLES
    call,       \* the call the parent makes
    parent,     \* the parent coroutine
    start,      \* first lazy that is in no group yet
    group,      \* the lazies of the present awaiter
    alive,      \* the present awaiter exists
    loop,       \* the thread inside await_suspend
    i,          \* its loop variable
    inline,     \* the lazy that runs on that thread, inside Start
    lazy,       \* lazy[k]: where lazy k and its callback are
    count_, awaiting_coroutine_,   \* CountEvent
    output,     \* CollectAllAwaiter::output
    results,    \* what the parent has collected so far
    tuple,      \* CollectAllVariadicImpl's results, written by the wrappers
    fault       \* a use of a dead awaiter, a coroutine resumed twice, a null executor

awaiter == <<group, alive, count_, awaiting_coroutine_, output>>
thread  == <<loop, i, inline>>
vars    == <<call, parent, start, awaiter, thread, lazy, results, tuple, fault>>

Unfinished == {"body", "suspended", "store", "down", "resume"}

TypeOK ==
    /\ call \in Calls
    /\ parent \in {"next", "suspended", "resumed", "yield", "yielding", "refused", "returned"}
    /\ start \in 0 .. input_size /\ i \in 0 .. input_size
    /\ group \subseteq Lazies /\ alive \in BOOLEAN
    /\ loop \in {"none", "loop", "set", "down", "resume"}
    /\ inline \in Lazies \union {Null}
    /\ lazy \in [Lazies -> Unfinished \union {"new", "scheduled", "refused", "finished"}]
    /\ count_ \in 0 .. input_size + 1
    /\ awaiting_coroutine_ \in BOOLEAN
    /\ output \in [Lazies -> Lazies \union {Null}]
    /\ results \in Seq(Lazies \union {Null})
    /\ tuple \in [Lazies -> Lazies \union {Null}]
    /\ fault \in {"none", "use_after_free", "double_resume", "null_executor"}

Init ==
    /\ call \in Calls /\ parent = "next" /\ start = 0
    /\ group = {} /\ alive = FALSE
    /\ loop = "none" /\ i = 0 /\ inline = Null
    /\ lazy = [k \in Lazies |-> "new"]
    /\ count_ = 0 /\ awaiting_coroutine_ = FALSE
    /\ output = [k \in Lazies |-> Null]
    /\ results = <<>> /\ tuple = [k \in Lazies |-> Null] /\ fault = "none"

-----------------------------------------------------------------------------
Least(x, y) == IF x <= y THEN x ELSE y

max_concurrency == call.max_concurrency

Windowed == max_concurrency # 0 /\ input_size > max_concurrency

\* Wrong variant: one lazy too many in a window.
GroupEndTooFar == IF Windowed THEN Least(input_size, start + max_concurrency + 1) ELSE input_size

GroupEnd == IF Windowed THEN Least(input_size, start + max_concurrency) ELSE input_size

\* Wrong variant: the event does not count the thread that starts the lazies.
EventCountWithoutStarter(n) == n

\* CountEvent(n): the lazies, and the thread that starts them.
EventCount(n) == n + 1

\* Every access to the awaiter, through its address, by a thread or a callback.
Touch == fault' = IF alive THEN fault ELSE "use_after_free"

\* The resumption of the parent, which must be suspended.
Resume ==
    /\ parent' = "resumed"
    /\ fault' = IF parent = "suspended" THEN fault ELSE "double_resume"

\* CountEvent::Down: who gets the coroutine to resume.
DownIsLast == count_ = 1 /\ awaiting_coroutine_

-----------------------------------------------------------------------------
(* The parent coroutine.                                                    *)

\* co_await AT(group): an empty input is ready, else the parent is suspended and
\* its thread enters await_suspend.
AwaitGroup ==
    /\ parent = "next"
    /\ group' = start .. GroupEnd - 1
    /\ start' = GroupEnd
    /\ alive' = TRUE
    /\ count_' = EventCount(GroupEnd - start)
    /\ awaiting_coroutine_' = FALSE
    /\ output' = [k \in Lazies |-> Null]
    /\ IF group' = {}
         THEN parent' = "resumed" /\ UNCHANGED <<loop, i>>
         ELSE parent' = "suspended" /\ loop' = "loop" /\ i' = start
    /\ UNCHANGED <<call, tuple, inline, lazy, results, fault>>

\* Wrong variant: only the last group is kept.
AwaitResumeOverwrites ==
    /\ parent = "resumed"
    /\ results' = [k \in 1 .. Cardinality(group) |-> output[start - Cardinality(group) + k - 1]]
    /\ alive' = FALSE
    /\ parent' = IF Windowed /\ call.yield THEN "yield"
                 ELSE IF start < input_size THEN "next" ELSE "returned"
    /\ UNCHANGED <<call, tuple, start, group, count_, awaiting_coroutine_, output, thread, lazy, fault>>

\* await_resume moves the output away, then the awaiter dies with its statement.
\* The variadic parent returns its tuple and drops the output, which is Try<void>.
AwaitResume ==
    /\ parent = "resumed"
    /\ results' = IF call.variadic THEN [k \in 1 .. input_size |-> tuple[k - 1]]
         ELSE results \o
           [k \in 1 .. Cardinality(group) |-> output[start - Cardinality(group) + k - 1]]
    /\ alive' = FALSE
    /\ parent' = IF Windowed /\ call.yield THEN "yield"
                 ELSE IF start < input_size THEN "next" ELSE "returned"
    /\ UNCHANGED <<call, tuple, start, group, count_, awaiting_coroutine_, output, thread, lazy, fault>>

HasExecutor == call.executor # "none"
Refuses     == call.executor = "refuses"

\* YieldAwaiter calls executor->Schedule and looks neither at the pointer nor at
\* what it returns: refused, the parent is never resumed.
Yield ==
    /\ parent = "yield"
    /\ parent' \in {"yielding"} \union (IF Refuses THEN {"refused"} ELSE {})
    /\ fault' = IF HasExecutor THEN fault ELSE "null_executor"
    /\ UNCHANGED <<call, tuple, start, awaiter, thread, lazy, results>>

YieldResume ==
    /\ parent = "yielding"
    /\ parent' = IF start < input_size THEN "next" ELSE "returned"
    /\ UNCHANGED <<call, tuple, start, awaiter, thread, lazy, results, fault>>

-----------------------------------------------------------------------------
(* await_suspend, on the thread that suspended the parent.                  *)
ThroughExecutor == call.Para /\ Cardinality(group) > 1 /\ HasExecutor

LoopStep ==
    /\ loop = "loop" /\ inline = Null
    /\ Touch
    /\ IF i \notin group
         THEN loop' = "set" /\ UNCHANGED <<i, inline, lazy>>
         ELSE /\ UNCHANGED loop
              /\ \/ /\ ThroughExecutor   \* what Schedule returns is ignored
                    /\ \E place \in {"scheduled"} \union (IF Refuses THEN {"refused"} ELSE {}) :
                          lazy' = [lazy EXCEPT ![i] = place]
                    /\ i' = i + 1 /\ UNCHANGED inline
                 \/ /\ ~ThroughExecutor
                    /\ lazy' = [lazy EXCEPT ![i] = "body"]
                    /\ inline' = i /\ UNCHANGED i
    /\ UNCHANGED <<call, tuple, parent, start, awaiter, results>>

SetAwaitingCoroutine ==
    /\ loop = "set"
    /\ Touch
    /\ awaiting_coroutine_' = TRUE
    /\ loop' = "down"
    /\ UNCHANGED <<call, tuple, parent, start, group, alive, count_, output, i, inline, lazy, results>>

LoopDown ==
    /\ loop = "down"
    /\ Touch
    /\ count_' = IF count_ = 0 THEN 0 ELSE count_ - 1
    /\ awaiting_coroutine_' = (awaiting_coroutine_ /\ ~DownIsLast)
    /\ loop' = IF DownIsLast THEN "resume" ELSE "none"
    /\ UNCHANGED <<call, tuple, parent, start, group, alive, output, i, inline, lazy, results>>

LoopResume ==
    /\ loop = "resume"
    /\ Resume
    /\ loop' = "none"
    /\ UNCHANGED <<call, tuple, start, awaiter, i, inline, lazy, results>>

-----------------------------------------------------------------------------
(* A lazy and the callback given to its Start.                              *)

\* Start returns to the loop when lazy k suspends, or when its callback ends.
BackToLoop(k) ==
    /\ inline' = IF inline = k THEN Null ELSE inline
    /\ i' = IF inline = k THEN i + 1 ELSE i

\* The executor runs func(): input[k].Start.
StartScheduled(k) ==
    /\ lazy[k] = "scheduled"
    /\ Touch
    /\ lazy' = [lazy EXCEPT ![k] = "body"]
    /\ UNCHANGED <<call, tuple, parent, start, awaiter, thread, results>>

SuspendLazy(k) ==
    /\ lazy[k] = "body"
    /\ lazy' = [lazy EXCEPT ![k] = "suspended"]
    /\ BackToLoop(k)
    /\ UNCHANGED <<call, tuple, parent, start, awaiter, loop, results, fault>>

\* MakeWrapperTask stores into the tuple, a local of the parent.
WritesTuple(k) ==
    /\ tuple' = [tuple EXCEPT ![k] = k]
    /\ fault' = IF parent = "returned" THEN "use_after_free" ELSE fault

\* The body ends.
FinishLazy(k) ==
    /\ lazy[k] \in {"body", "suspended"}
    /\ lazy' = [lazy EXCEPT ![k] = "store"]
    /\ IF call.variadic THEN WritesTuple(k) ELSE UNCHANGED <<tuple, fault>>
    /\ UNCHANGED <<call, parent, start, awaiter, thread, results>>

StoreOutput(k) ==
    /\ lazy[k] = "store"
    /\ Touch
    /\ output' = [output EXCEPT ![k] = k]
    /\ lazy' = [lazy EXCEPT ![k] = "down"]
    /\ UNCHANGED <<call, tuple, parent, start, group, alive, count_, awaiting_coroutine_, thread, results>>

\* Wrong variant: the coroutine that Down returns is dropped.
DownForgetsLast(k) ==
    /\ lazy[k] = "down"
    /\ Touch
    /\ count_' = IF count_ = 0 THEN 0 ELSE count_ - 1
    /\ lazy' = [lazy EXCEPT ![k] = "finished"]
    /\ BackToLoop(k)
    /\ UNCHANGED <<call, tuple, parent, start, group, alive, output, awaiting_coroutine_, loop, results>>

Down(k) ==
    /\ lazy[k] = "down"
    /\ Touch
    /\ count_' = IF count_ = 0 THEN 0 ELSE count_ - 1
    /\ awaiting_coroutine_' = (awaiting_coroutine_ /\ ~DownIsLast)
    /\ lazy' = [lazy EXCEPT ![k] = IF DownIsLast THEN "resume" ELSE "finished"]
    /\ IF DownIsLast THEN UNCHANGED <<inline, i>> ELSE BackToLoop(k)
    /\ UNCHANGED <<call, tuple, parent, start, group, alive, output, loop, results>>

LazyResume(k) ==
    /\ lazy[k] = "resume"
    /\ Resume
    /\ lazy' = [lazy EXCEPT ![k] = "finished"]
    /\ BackToLoop(k)
    /\ UNCHANGED <<call, tuple, start, awaiter, loop, results>>

-----------------------------------------------------------------------------
ParentStep == AwaitGroup \/ AwaitResume \/ Yield \/ YieldResume
LoopThread == LoopStep \/ SetAwaitingCoroutine \/ LoopDown \/ LoopResume
LazyStep(k) ==
    StartScheduled(k) \/ FinishLazy(k) \/ StoreOutput(k) \/ Down(k) \/ LazyResume(k)

\* The executor has refused a lazy, or the continuation of a yield.
Refused == parent = "refused" \/ \E k \in Lazies : lazy[k] = "refused"

\* The parent has returned, or waits for ever for what the executor refused.
Terminated ==
    /\ parent = "returned" \/ fault # "none" \/ Refused
    /\ UNCHANGED vars

Next ==
    \/ /\ fault = "none"
       /\ \/ ParentStep \/ LoopThread
          \/ \E k \in Lazies : LazyStep(k) \/ SuspendLazy(k)
    \/ Terminated

Spec == Init /\ [][Next]_vars

\* Threads run, every lazy finishes, and the executor runs what it accepted (the
\* contract of Executor::Schedule).
Fairness ==
    /\ WF_vars(fault = "none" /\ ParentStep)
    /\ WF_vars(fault = "none" /\ LoopThread)
    /\ \A k \in Lazies : WF_vars(fault = "none" /\ LazyStep(k))

FairSpec == Spec /\ Fairness

-----------------------------------------------------------------------------
(* Properties.                                                              *)

\* Neither a callback nor the thread in await_suspend touches the awaiter after the
\* parent went on, nobody resumes the parent twice, and a yield has an executor; the
\* variables keep their types.
NoFault == TypeOK /\ fault = "none"

\* The parent is resumed only when every lazy of the group has stored its result.
ResumedWhenComplete ==
    parent = "resumed" => \A k \in group : output[k] = k

\* All results arrive, in the order of the inputs, whatever order the lazies end in.
ResultsInOrder ==
    parent = "returned" => results = [k \in 1 .. input_size |-> k - 1]

\* At most max_concurrency lazies of CollectAllWindowed are under way.
WindowRespected ==
    Windowed => Cardinality({k \in Lazies : lazy[k] \in Unfinished \union {"scheduled"}})
                  <= max_concurrency

\* "When the atomic count is 0, that is when all tasks have run, the coroutine is
\* resumed" (doc/async_simple设计.md): the parent gets through all of its groups,
\* unless the executor has refused something, which nobody looks at.
ParentReturns == <>(parent = "returned" \/ Refused)
=============================================================================
