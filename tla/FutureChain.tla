---------------------------- MODULE FutureChain ----------------------------
(***************************************************************************)
(* Futures made from futures: ThenTry and ThenValue (sync/future.hpp), on  *)
(* a FutureState or on a LocalState (sync/local_state.hpp), CollectAll and *)
(* MakeReadyFuture (sync/future_helper.hpp).                               *)
(*                                                                         *)
(* The nodes of a program are its futures, in the order Main makes them.   *)
(* A FutureState is the one-shot channel that module FutureState is shown  *)
(* to implement: setting a result, or a continuation, is one step.  What   *)
(* is left is who runs a continuation, and who destroys it.  Threads are   *)
(* told apart only by CurrentThreadInExecutor: worker or outside.          *)
(***************************************************************************)
EXTENDS Naturals, Sequences, FiniteSets

CONSTANTS
    Programs   \* each with: nodes, a sequence of node descriptors (below);
               \*   drops, whether the executor may destroy an accepted closure

\* A node descriptor.  inner is the future a callback returns, 0 if it returns a
\* plain value; ok tells a ready value from a ready exception.
ASSUME ProgramsAssumption ==
    \A P \in Programs :
        /\ P.drops \in BOOLEAN
        /\ Len(P.nodes) \in Nat /\ DOMAIN P.nodes = 1 .. Len(P.nodes)
        /\ \A k \in DOMAIN P.nodes :
            /\ P.nodes[k].kind \in {"source", "ready", "then", "collect"}
            /\ P.nodes[k].executor \in {"none", "ex"}
            /\ {P.nodes[k].ok, P.nodes[k].is_try, P.nodes[k].throws} \subseteq BOOLEAN
            /\ P.nodes[k].from \in Seq(1 .. k - 1)
            /\ P.nodes[k].kind = "then" => Len(P.nodes[k].from) = 1
            /\ P.nodes[k].inner \in 0 .. k - 1

\* A Future is moved into what uses it: a Then, a slot of a CollectAll, a callback
\* that returns it.
ASSUME UsedOnceAssumption ==
    \A P \in Programs : \A k, l \in DOMAIN P.nodes :
        LET D == P.nodes[k]  E == P.nodes[l] IN
        /\ \A x \in DOMAIN D.from, y \in DOMAIN E.from : D.from[x] = E.from[y] => k = l /\ x = y
        /\ \A x \in DOMAIN D.from : E.inner # D.from[x]
        /\ D.inner = E.inner /\ D.inner # 0 => k = l

VARIABLES
    program,
    f,      \* f[k]: the future of node k and its state
    made,   \* Main has made the futures 1 .. made
    i, checked  \* CollectAll's loop: its index, HasResult() was false

vars == <<program, f, made, i, checked>>

Nodes   == DOMAIN program.nodes
Desc(k) == program.nodes[k]

\* A Try is what it holds, who made it and out of what.
Value(k, inputs)    == [kind |-> "value", by |-> k, of |-> inputs]
Exception(k, inputs) == [kind |-> "exception", by |-> k, of |-> inputs]
Broken(k)           == [kind |-> "broken", by |-> k, of |-> <<>>]
Nothing             == [kind |-> "empty", by |-> 0, of |-> <<>>]
Throws(t)           == t.kind # "value"     \* Try::Value() of t rethrows

\* alias: the node whose state the future refers to.  handler: the continuation's
\* life; to: the node it fulfils; slot: its i in CollectAll, else 0; how it came to
\* run, on which thread; caller: who scheduled it; guards: the ContinuationReferences
\* left.  ctx: who shares CollectAll's context.  twice: a result or a continuation
\* was set twice.
Blank(k) ==
    [local |-> FALSE, alias |-> k, executor |-> "none", result |-> Nothing,
     handler |-> "none", to |-> k, slot |-> 0, forwards |-> FALSE, how |-> "none",
     caller |-> "outside", on |-> "outside", guards |-> {}, results |-> <<>>, ctx |-> {},
     twice |-> FALSE]

Handlers == {"none", "set", "due", "queued", "run", "ran", "dropped", "gone"}

TypeOK ==
    /\ program \in Programs
    /\ made \in 0 .. Len(program.nodes)
    /\ i \in Nat /\ checked \in BOOLEAN
    /\ \A k \in Nodes :
        /\ f[k].alias \in 1 .. k
        /\ f[k].handler \in Handlers
        /\ {f[k].caller, f[k].on} \subseteq {"worker", "outside"}
        /\ f[k].guards \subseteq {"caller", "closure"}
        /\ f[k].ctx \subseteq 0 .. Len(Desc(k).from)

Init ==
    /\ program \in Programs
    /\ f = [k \in Nodes |-> Blank(k)]
    /\ made = 0 /\ i = 0 /\ checked = FALSE

-----------------------------------------------------------------------------
(* The channel operations, as functions on s, a value of f.                 *)
HasResult(s, n) == s[s[n].alias].result # Nothing

\* SetResult by thread th: a continuation that is there is due.
SetResult(s, k, t, th) ==
    [s EXCEPT ![k].result = t,
              ![k].twice = @ \/ s[k].result # Nothing,
              ![k].handler = IF @ = "set" THEN "due" ELSE @,
              ![k].caller = IF s[k].handler = "set" THEN th ELSE @]

\* Wrong variant: a continuation set after the result is not triggered by it.
SetContinuationNoTrigger(s, n, to, slot, forwards, th) ==
    [s EXCEPT ![n].to = to, ![n].slot = slot, ![n].forwards = forwards,
              ![n].handler = "set"]

\* SetContinuation by thread th, which runs it at once if the result is there
\* (trigger_by_continuation; a LocalState always has its result).
SetContinuation(s, n, to, slot, forwards, th) ==
    [s EXCEPT ![n].to = to, ![n].slot = slot, ![n].forwards = forwards,
              ![n].twice = @ \/ s[n].handler # "none",
              ![n].handler = IF s[n].result = Nothing THEN "set" ELSE "run",
              ![n].how = IF s[n].result = Nothing THEN @ ELSE "trigger",
              ![n].caller = th, ![n].on = th,
              ![n].guards = IF s[n].result = Nothing THEN {} ELSE {"caller"}]

\* What MakeTryCall makes of a callback that returns a plain value; ThenValue
\* wraps it into a lambda that takes the value out of the Try first.
\* Wrong variant: ThenValue calls its callback with an exception too.
MakeTryCallAlways(k, t) ==
    IF Desc(k).throws THEN Exception(k, <<t>>) ELSE Value(k, <<t>>)

MakeTryCall(k, t) ==
    IF ~Desc(k).is_try /\ Throws(t) THEN t
    ELSE IF Desc(k).throws THEN Exception(k, <<t>>) ELSE Value(k, <<t>>)

\* The callback of k does not get as far as returning its future.
FailsFirst(k, t) == Desc(k).throws \/ (~Desc(k).is_try /\ Throws(t))

-----------------------------------------------------------------------------
(* Main makes the futures, one after the other.  A continuation it triggers *)
(* runs inside its call.                                                    *)
Input(k) == f[Desc(k).from[1]].alias

MainBusy ==
    \E n \in Nodes : f[n].how = "trigger" /\ ~f[n].forwards /\ f[n].handler \in {"run", "ran"}

Making(k, kind) == k = made + 1 /\ Desc(k).kind = kind /\ ~MainBusy
Made(k) == made' = k /\ UNCHANGED <<program, i, checked>>

\* Promise, GetFuture and Via.
MakeSource(k) ==
    /\ Making(k, "source") /\ Made(k)
    /\ f' = [f EXCEPT ![k].executor = Desc(k).executor]

\* MakeReadyFuture and Via.
MakeReadyFuture(k) ==
    /\ Making(k, "ready") /\ Made(k)
    /\ f' = [f EXCEPT ![k].local = TRUE, ![k].executor = Desc(k).executor,
                      ![k].result = IF Desc(k).ok THEN Value(k, <<>>) ELSE Exception(k, <<>>)]

\* Wrong variant: the new future does not inherit the executor.
ThenSharedNoExecutor(k) ==
    /\ Making(k, "then") /\ Made(k)
    /\ ~f[Input(k)].local
    /\ f' = SetContinuation(f, Input(k), k, 0, FALSE, "outside")

\* ThenImpl on a FutureState: a new state with the executor of the old one.
ThenShared(k) ==
    /\ Making(k, "then") /\ Made(k)
    /\ ~f[Input(k)].local
    /\ f' = SetContinuation([f EXCEPT ![k].executor = f[Input(k)].executor],
                            Input(k), k, 0, FALSE, "outside")

\* ThenImpl on a LocalState, with a callback that returns a plain value.
ThenLocalValue(k) ==
    /\ Making(k, "then") /\ Made(k)
    /\ f[Input(k)].local /\ Desc(k).inner = 0
    /\ f' = [f EXCEPT ![k].local = TRUE, ![k].executor = f[Input(k)].executor,
                      ![k].result = MakeTryCall(k, f[Input(k)].result)]

\* ThenImpl on a LocalState, with a callback that returns a future: that future,
\* with an executor if it has none, or the exception, without executor.
ThenLocalFuture(k) ==
    /\ Making(k, "then") /\ Made(k)
    /\ f[Input(k)].local /\ Desc(k).inner # 0
    /\ LET t     == f[Input(k)].result
           inner == f[Desc(k).inner].alias
       IN f' = IF FailsFirst(k, t)
                 THEN [f EXCEPT ![k].local = TRUE, ![k].result = MakeTryCall(k, t)]
                 ELSE [f EXCEPT ![k].alias = inner, ![k].local = f[inner].local,
                                ![inner].executor = IF @ = "none" THEN f[Input(k)].executor
                                                    ELSE @]

\* CollectAll: a ready future, or a context shared with the continuations.
CollectAll(k) ==
    /\ Making(k, "collect") /\ i = 0
    /\ LET from == Desc(k).from IN
        IF \A j \in DOMAIN from : HasResult(f, from[j])
          THEN /\ f' = [f EXCEPT ![k].local = TRUE,
                                 ![k].result = Value(k, [j \in DOMAIN from |->
                                                           f[f[from[j]].alias].result])]
               /\ Made(k)
          ELSE /\ f' = [f EXCEPT ![k].results = [j \in DOMAIN from |-> Nothing],
                                 ![k].ctx = {0}]
               /\ i' = 1
               /\ UNCHANGED <<program, made, checked>>

CollectCheck(k) ==
    /\ Making(k, "collect") /\ i \in DOMAIN Desc(k).from /\ ~checked
    /\ IF HasResult(f, Desc(k).from[i])
         THEN /\ f' = [f EXCEPT ![k].results[i] = f[f[Desc(k).from[i]].alias].result]
              /\ i' = i + 1 /\ UNCHANGED checked
         ELSE checked' = TRUE /\ UNCHANGED <<f, i>>
    /\ UNCHANGED <<program, made>>

\* The future may have become ready since.
CollectSetContinuation(k) ==
    /\ Making(k, "collect") /\ checked
    /\ LET n == f[Desc(k).from[i]].alias IN
        f' = SetContinuation([f EXCEPT ![k].ctx = @ \union {i}], n, k, i, FALSE, "outside")
    /\ i' = i + 1 /\ checked' = FALSE
    /\ UNCHANGED <<program, made>>

-----------------------------------------------------------------------------
(* The context of CollectAll and the closures of Then, as they are destroyed. *)

\* Wrong variant: every owner that goes fulfils the promise, not only the last.
ReleaseEach(s, k, owner, th) ==
    SetResult([s EXCEPT ![k].ctx = @ \ {owner}], k, Value(k, s[k].results), th)

\* One shared_ptr to the context is gone; ~Context fulfils the promise.
Release(s, k, owner, th) ==
    IF s[k].ctx = {owner}
      THEN SetResult([s EXCEPT ![k].ctx = {}], k, Value(k, s[k].results), th)
      ELSE [s EXCEPT ![k].ctx = @ \ {owner}]

\* Wrong variant: a closure that never ran leaves its promise alone.
DestroyClosureSilently(s, n, th) ==
    IF s[n].slot # 0 THEN Release([s EXCEPT ![n].handler = "gone"], s[n].to, s[n].slot, th)
    ELSE [s EXCEPT ![n].handler = "gone"]

\* ~Continuation: the last promise of a Then that never ran breaks.
DestroyClosure(s, n, th) ==
    LET gone == [s EXCEPT ![n].handler = "gone"] IN
    IF s[n].slot # 0 THEN Release(gone, s[n].to, s[n].slot, th)
    ELSE IF s[n].how = "dropped" THEN SetResult(gone, s[n].to, Broken(s[n].to), th)
    ELSE gone

CollectReturn(k) ==
    /\ Making(k, "collect") /\ i = Len(Desc(k).from) + 1
    /\ f' = Release(f, k, 0, "outside")
    /\ i' = 0 /\ made' = k
    /\ UNCHANGED <<program, checked>>

-----------------------------------------------------------------------------
(* Promises are set, or destroyed, on any thread.                           *)
Settle(k, th) ==
    /\ k <= made /\ Desc(k).kind = "source" /\ f[k].result = Nothing
    /\ \E t \in {Value(k, <<>>), Exception(k, <<>>), Broken(k)} :
        f' = SetResult(f, k, t, th)
    /\ UNCHANGED <<program, made, i, checked>>

\* ScheduleContinuation, then the executor.
Schedule(n) ==
    /\ f[n].handler = "due"
    /\ IF f[n].executor = "none" \/ f[n].caller = "worker"
         THEN f' = [f EXCEPT ![n].handler = "run", ![n].how = "inline", ![n].on = f[n].caller,
                             ![n].guards = {"caller"}]
         ELSE \/ f' = [f EXCEPT ![n].handler = "queued", ![n].how = "scheduled",
                                ![n].guards = {"caller", "closure"}]
              \/ f' = [f EXCEPT ![n].handler = "run", ![n].how = "refused",
                                ![n].guards = {"caller"}]
    /\ UNCHANGED <<program, made, i, checked>>

RunQueued(n) ==
    /\ f[n].handler = "queued"
    /\ f' = [f EXCEPT ![n].handler = "run", ![n].on = "worker"]
    /\ UNCHANGED <<program, made, i, checked>>

\* An accepted closure dies with its queue, on the thread that destroys the pool.
DropQueued(n) ==
    /\ program.drops /\ f[n].handler = "queued"
    /\ f' = [f EXCEPT ![n].handler = "dropped", ![n].how = "dropped"]
    /\ UNCHANGED <<program, made, i, checked>>

\* The continuation: a callback, the forwarder of a callback's future, or the
\* closure of CollectAll.
Continue(s, n, th) ==
    LET k     == s[n].to
        t     == s[n].result
        inner == s[Desc(k).inner].alias
    IN IF s[n].slot # 0 THEN [s EXCEPT ![k].results[s[n].slot] = t]
       ELSE IF s[n].forwards THEN SetResult(s, k, t, th)
       ELSE IF Desc(k).inner = 0 \/ FailsFirst(k, t) THEN SetResult(s, k, MakeTryCall(k, t), th)
       ELSE SetContinuation(s, inner, k, 0, TRUE, th)

Run(n) ==
    /\ f[n].handler = "run"
    /\ f' = Continue([f EXCEPT ![n].handler = "ran"], n, f[n].on)
    /\ UNCHANGED <<program, made, i, checked>>

\* ~ContinuationReference: the last one destroys the continuation, on its thread.
\* The caller may be done before the closure, or last.
GuardDone(n, g) ==
    /\ g \in f[n].guards
    /\ f[n].handler \in {"ran", "dropped"} \/ (g = "caller" /\ "closure" \in f[n].guards)
    /\ LET s  == [f EXCEPT ![n].guards = @ \ {g}]
           th == IF g = "closure" /\ f[n].how # "dropped" THEN "worker" ELSE f[n].caller
       IN f' = IF s[n].guards = {} THEN DestroyClosure(s, n, th) ELSE s
    /\ UNCHANGED <<program, made, i, checked>>

-----------------------------------------------------------------------------
MakeStep ==
    \E k \in Nodes :
        \/ MakeSource(k) \/ MakeReadyFuture(k)
        \/ ThenShared(k) \/ ThenLocalValue(k) \/ ThenLocalFuture(k)
        \/ CollectAll(k) \/ CollectCheck(k) \/ CollectSetContinuation(k) \/ CollectReturn(k)

ContinuationStep ==
    \E n \in Nodes :
        \/ Schedule(n) \/ RunQueued(n) \/ DropQueued(n) \/ Run(n)
        \/ \E g \in {"caller", "closure"} : GuardDone(n, g)

Step ==
    \/ MakeStep
    \/ \E k \in Nodes, th \in {"worker", "outside"} : Settle(k, th)
    \/ ContinuationStep

\* Every future has its result and every closure is gone.
Terminated ==
    /\ made = Len(program.nodes)
    /\ \A k \in Nodes : HasResult(f, k) /\ f[k].handler \in {"none", "gone"}
    /\ UNCHANGED vars

Next == Step \/ Terminated

Spec == Init /\ [][Next]_vars

\* Threads run and every promise is set or destroyed.  No step is ever undone, so
\* it is enough that some thread that can move does.
FairSpec == Spec /\ WF_vars(Step)

-----------------------------------------------------------------------------
(* Properties.                                                              *)

\* What each future means, with no word about threads, states or closures: a
\* dropped closure breaks the promise it holds and leaves its slot empty.
Dropped(n) == f[n].how = "dropped"

Meaning ==
    LET M[k \in Nodes] ==
          LET d     == Desc(k)
              input == d.from[1]
          IN IF d.kind = "source" THEN f[k].result
             ELSE IF d.kind = "ready" THEN IF d.ok THEN Value(k, <<>>) ELSE Exception(k, <<>>)
             ELSE IF d.kind = "collect"
               THEN Value(k, [j \in DOMAIN d.from |->
                       IF Dropped(f[d.from[j]].alias) THEN Nothing ELSE M[d.from[j]]])
             ELSE IF Dropped(f[input].alias) THEN Broken(k)
             ELSE IF Throws(M[input]) /\ ~d.is_try THEN M[input]
             ELSE IF d.throws THEN Exception(k, <<M[input]>>)
             ELSE IF d.inner = 0 THEN Value(k, <<M[input]>>)
             ELSE IF ~f[f[input].alias].local /\ Dropped(f[d.inner].alias) THEN Broken(k)
             ELSE M[d.inner]
    IN M

\* Every future ends up with what its program means, whichever thread is first.
ResultsAgree ==
    \A k \in Nodes : k <= made /\ HasResult(f, k) => f[f[k].alias].result = Meaning[k]

\* No promise is fulfilled twice and no future continued twice (both would throw,
\* out of a destructor even), and the variables keep their types.
NoFault == TypeOK /\ \A k \in Nodes : ~f[k].twice

\* A ready future's callback that should return a future and does not: ThenImpl
\* catches the exception into a new Future and sets no executor.
LosesExecutor(k) ==
    Desc(k).inner # 0 /\ f[Input(k)].local /\ FailsFirst(k, f[Input(k)].result)

\* The executor a future was given by Via, or inherits from the one it was made from.
InheritedExecutor ==
    LET E[k \in Nodes] ==
          LET d == Desc(k) IN
          IF d.kind = "collect" THEN "none"
          ELSE IF d.kind # "then" THEN d.executor
          ELSE IF LosesExecutor(k) THEN "none"
          ELSE E[d.from[1]]
    IN E

\* A callback on a chain with an executor runs on one of its workers, unless the
\* result was there before the callback or the executor refused it.
CallbackOnExecutor ==
    \A n \in Nodes :
        /\ f[n].handler \in {"run", "ran"} /\ f[n].on = "outside"
        /\ ~f[n].forwards /\ f[n].slot = 0
        /\ InheritedExecutor[Desc(f[n].to).from[1]] = "ex"
        => f[n].how \in {"trigger", "refused"}

\* Every future of the program gets a result, even from an executor that refuses
\* closures or destroys those it accepted.
AllFulfilled == <>(made = Len(program.nodes) /\ \A k \in Nodes : HasResult(f, k))
=============================================================================
