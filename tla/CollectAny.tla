----------------------------- MODULE CollectAny -----------------------------
(***************************************************************************)
(* CollectAny (coro/collect.hpp): the parent goes on with the first lazy   *)
(* that ends.  Its thread may still be starting lazies inside              *)
(* await_suspend, and the losers end later: what they share with the       *)
(* winner is the CountEvent and the result, owned by shared pointers, and  *)
(* never the awaiter, which dies when the parent goes on.                  *)
(***************************************************************************)
EXTENDS Naturals, Sequences, FiniteSets

CONSTANTS
    size,       \* in.size()
    IsVoid,     \* CollectAnyResult<void>, which is copied, not reset by a move
    Null        \* index -1, an empty Try, no lazy

ASSUME CollectAnyAssumption == size \in Nat /\ IsVoid \in BOOLEAN /\ Null \notin Nat

Lazies == 0 .. size - 1

VARIABLES
    parent,         \* the parent coroutine
    alive,          \* the awaiter exists
    loop, i,        \* the thread inside await_suspend and its loop variable
    inline,         \* the lazy that runs on that thread, inside Start
    lazy,           \* lazy[k]: where lazy k and its callback are
    count_,         \* event->count_
    index, value,   \* *res
    returned,       \* what co_await gives the parent
    ended,          \* history: the lazies in the order of their DownCount
    fault

thread == <<loop, i, inline>>
res    == <<index, value>>
vars   == <<parent, alive, thread, lazy, count_, res, returned, ended, fault>>

TypeOK ==
    /\ parent \in {"awaiting", "suspended", "resumed", "done"}
    /\ alive \in BOOLEAN
    /\ loop \in {"none", "check", "start", "ended"} /\ i \in 0 .. size
    /\ inline \in Lazies \union {Null}
    /\ lazy \in [Lazies -> {"new", "body", "suspended", "down", "index", "value",
                            "resume", "finished", "destroyed"}]
    /\ count_ \in 0 .. size + 1
    /\ index \in Lazies \union {Null} /\ value \in Lazies \union {Null}
    /\ returned \in Seq(Lazies \union {Null})
    /\ ended \in Seq(Lazies)
    /\ fault \in {"none", "use_after_free", "double_resume", "assert"}

Init ==
    /\ parent = "awaiting" /\ alive = TRUE
    /\ loop = "none" /\ i = 0 /\ inline = Null
    /\ lazy = [k \in Lazies |-> "new"]
    /\ count_ = 0 /\ index = Null /\ value = Null
    /\ returned = <<>> /\ ended = <<>> /\ fault = "none"

-----------------------------------------------------------------------------
(* The parent.                                                              *)

\* co_await: an empty input is ready at once, and then there is no result.
Await ==
    /\ parent = "awaiting"
    /\ IF size = 0
         THEN parent' = "resumed" /\ UNCHANGED <<loop, count_>>
         ELSE parent' = "suspended" /\ loop' = "check" /\ count_' = size + 1
    /\ UNCHANGED <<alive, i, inline, lazy, res, returned, ended, fault>>

\* ASSERT(result != nullptr), then the move: index goes back to -1 under the eyes of
\* the loop, unless the result is void.  The awaiter dies with its statement.
AwaitResume ==
    /\ parent = "resumed"
    /\ fault' = IF size = 0 THEN "assert" ELSE fault
    /\ returned' = <<index, value>>
    /\ index' = IF IsVoid THEN index ELSE Null
    /\ value' = IF IsVoid THEN value ELSE Null
    /\ parent' = "done" /\ alive' = FALSE
    /\ UNCHANGED <<thread, lazy, count_, ended>>

-----------------------------------------------------------------------------
(* await_suspend, on the thread that suspended the parent.                  *)

\* Wrong variant: the loop reads result->index through the awaiter.
LoopCheckThroughThis ==
    /\ loop = "check" /\ inline = Null
    /\ fault' = IF alive THEN fault ELSE "use_after_free"
    /\ loop' = IF i < size /\ index = Null THEN "start" ELSE "ended"
    /\ lazy' = IF loop' = "start" THEN lazy
               ELSE [k \in Lazies |-> IF lazy[k] = "new" THEN "destroyed" ELSE lazy[k]]
    /\ UNCHANGED <<parent, alive, i, inline, count_, res, returned, ended>>

\* The loop condition reads only locals.  At its end the local "in" dies, and with it
\* the lazies that were not started.
LoopCheck ==
    /\ loop = "check" /\ inline = Null
    /\ loop' = IF i < size /\ index = Null THEN "start" ELSE "ended"
    /\ lazy' = IF loop' = "start" THEN lazy
               ELSE [k \in Lazies |-> IF lazy[k] = "new" THEN "destroyed" ELSE lazy[k]]
    /\ UNCHANGED <<parent, alive, i, inline, count_, res, returned, ended, fault>>

StartLazy ==
    /\ loop = "start"
    /\ lazy' = [lazy EXCEPT ![i] = "body"]
    /\ inline' = i
    /\ loop' = "check"
    /\ UNCHANGED <<parent, alive, i, count_, res, returned, ended, fault>>

-----------------------------------------------------------------------------
(* A lazy and the callback given to its Start.                              *)

\* Start returns to the loop when lazy k suspends, or when its callback ends.
BackToLoop(k) ==
    /\ inline' = IF inline = k THEN Null ELSE inline
    /\ i' = IF inline = k THEN i + 1 ELSE i

SuspendLazy(k) ==
    /\ lazy[k] = "body"
    /\ lazy' = [lazy EXCEPT ![k] = "suspended"]
    /\ BackToLoop(k)
    /\ UNCHANGED <<parent, alive, loop, count_, res, returned, ended, fault>>

FinishLazy(k) ==
    /\ lazy[k] \in {"body", "suspended"}
    /\ lazy' = [lazy EXCEPT ![k] = "down"]
    /\ UNCHANGED <<parent, alive, thread, count_, res, returned, ended, fault>>

\* Wrong variant: the winner is the one that counts the last lazy down.
WinsLast(old) == old = 2

\* CountEvent starts at size + 1: the first to count down reads that value.
Wins(old) == old = size + 1

DownCount(k) ==
    /\ lazy[k] = "down"
    /\ count_' = count_ - 1
    /\ ended' = Append(ended, k)
    /\ lazy' = [lazy EXCEPT ![k] = IF Wins(count_) THEN "index" ELSE "finished"]
    /\ IF Wins(count_) THEN UNCHANGED <<inline, i>> ELSE BackToLoop(k)
    /\ UNCHANGED <<parent, alive, loop, res, returned, fault>>

\* Wrong variant: the parent is resumed between the two writes.
StoreIndexThenResume(k) ==
    /\ lazy[k] = "index"
    /\ index' = k
    /\ lazy' = [lazy EXCEPT ![k] = "resume"]
    /\ UNCHANGED <<parent, alive, thread, count_, value, returned, ended, fault>>

StoreIndex(k) ==
    /\ lazy[k] = "index"
    /\ index' = k
    /\ lazy' = [lazy EXCEPT ![k] = "value"]
    /\ UNCHANGED <<parent, alive, thread, count_, value, returned, ended, fault>>

StoreValue(k) ==
    /\ lazy[k] = "value"
    /\ value' = k
    /\ lazy' = [lazy EXCEPT ![k] = "resume"]
    /\ UNCHANGED <<parent, alive, thread, count_, index, returned, ended, fault>>

Resume(k) ==
    /\ lazy[k] = "resume"
    /\ parent' = "resumed"
    /\ fault' = IF parent = "suspended" THEN fault ELSE "double_resume"
    /\ lazy' = [lazy EXCEPT ![k] = "finished"]
    /\ BackToLoop(k)
    /\ UNCHANGED <<alive, loop, count_, res, returned, ended>>

-----------------------------------------------------------------------------
ParentStep == Await \/ AwaitResume
LoopThread == LoopCheck \/ StartLazy
Callback(k) == DownCount(k) \/ StoreIndex(k) \/ StoreValue(k) \/ Resume(k)

\* Losers may stay suspended for ever.
Terminated ==
    /\ parent = "done"
    /\ UNCHANGED vars

Next ==
    \/ /\ fault = "none"
       /\ \/ ParentStep \/ LoopThread
          \/ \E k \in Lazies : FinishLazy(k) \/ SuspendLazy(k) \/ Callback(k)
    \/ Terminated

Spec == Init /\ [][Next]_vars

\* Threads run: no lazy has to end, nor to suspend on the thread that started it.
Fairness ==
    /\ WF_vars(fault = "none" /\ ParentStep)
    /\ WF_vars(fault = "none" /\ LoopThread)
    /\ WF_vars(fault = "none" /\ \E k \in Lazies : Callback(k))

FairSpec == Spec /\ Fairness

-----------------------------------------------------------------------------
(* Properties.                                                              *)

\* The parent is resumed once, its awaiter is not touched after it went on, and
\* await_resume's ASSERT holds (assert.hpp: a failed ASSERT is a library bug); the
\* variables keep their types.
NoFault == TypeOK /\ fault = "none"

\* The parent gets the index and the value of one lazy, the first to count down,
\* however the losers and the loop race with it.
FirstWins == parent = "done" => returned = <<ended[1], ended[1]>>

\* The parent goes on as soon as one lazy has ended, even if no other ever does.
ParentGoesOn == ended # <<>> ~> parent = "done"
=============================================================================
