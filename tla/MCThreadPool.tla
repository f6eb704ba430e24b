---------------------------- MODULE MCThreadPool ----------------------------
(* Small instances of ThreadPool for TLC.                                  *)
EXTENDS ThreadPool, TLC

CONSTANTS a, b, c, d, c1, c2

AnyWorker == -1
NoChild == a :> NullFn @@ b :> NullFn @@ c :> NullFn @@ d :> NullFn

\* No stealing: a and b go anywhere, c and d to worker 1; c continues with d on
\* its own worker; a client waits for b.
Strand == [
    steal   |-> FALSE,
    pin     |-> a :> AnyWorker @@ b :> AnyWorker @@ c :> 1 @@ d :> 1,
    child   |-> [NoChild EXCEPT ![c] = d],
    sync    |-> {b},
    program |-> c1 :> <<a, c>> @@ c2 :> <<NullFn, b>>,
    max_spurious |-> 1]

\* Stealing: b and c are pinned to worker 0, anybody may take a, whose scheduler
\* waits for it.
Steal == [
    steal   |-> TRUE,
    pin     |-> a :> AnyWorker @@ b :> 0 @@ c :> 0 @@ d :> 0,
    child   |-> NoChild,
    sync    |-> {a},
    program |-> c1 :> <<b, c, a>> @@ c2 :> <<>>,
    max_spurious |-> 0]

\* A closure that schedules another one anywhere, while the pool is destroyed.
Nested == [
    steal   |-> FALSE,
    pin     |-> a :> AnyWorker @@ b :> AnyWorker,
    child   |-> a :> b @@ b :> NullFn,
    sync    |-> {},
    program |-> c1 :> <<a>>,
    max_spurious |-> 0]

MCUsages == {Strand, Steal}
NestedUsages == {Nested}
=============================================================================
