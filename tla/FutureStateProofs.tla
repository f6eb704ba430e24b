-------------------------- MODULE FutureStateProofs --------------------------
(***************************************************************************)
(* Theorems about FutureState.                                             *)
(*                                                                         *)
(* First, for every set of handles and every client: types, counts, who    *)
(* calls the continuation, what leaks.  Then as its users see it: with one *)
(* setter and one continuer, whatever the executor does and however the    *)
(* handles are copied, moved and destroyed, it is the one-shot channel of  *)
(* OneShot.                                                                *)
(***************************************************************************)
EXTENDS FutureState, FiniteSetTheorems, TLAPS

USE DEF Actors, Handles

-----------------------------------------------------------------------------
(* Types.                                                                   *)
LEMMA RefCounterTypes ==
    ASSUME NEW n \in 0 .. RefMod - 1
    PROVE  IncRef(n) \in 0 .. RefMod - 1 /\ DecRef(n) \in 0 .. RefMod - 1
BY RefModAssumption DEF IncRef, DecRef

LEMMA TypeInit == Init => TypeOK
<1> SUFFICES ASSUME NEW p0 \in Promises, Init!(p0) PROVE TypeOK
  BY DEF Init
<1>1. Cardinality(Handles) \in Nat
  BY ActorsAssumption, FS_Union, FS_CardinalityType
<1>2. RefMod \in Nat /\ 1 < RefMod
  BY <1>1, RefModAssumption
<1>3. /\ pc \in [Actors -> Places]
      /\ ret \in [Actors -> {"idle", "dp_detach", "w_sem", "done"}]
  BY DEF Places
<1>4. /\ attached_ \in 0 .. RefMod - 1
      /\ continuation_ref_ \in 0 .. RefMod - 1
      /\ promise_ref_ \in Nat
  BY <1>2
<1>5. delivered \in
         Seq((Futures \union {Nothing, Destroyed}) \X (Values \union {Broken, Nothing, MovedOut}))
  OBVIOUS
<1>6. /\ has_future_ \in [Promises -> BOOLEAN]
      /\ expected \in [Handles -> States]
      /\ arg \in [Promises -> Values \union {Broken, Nothing}]
  BY DEF States
<1> QED
  BY <1>3, <1>4, <1>5, <1>6 DEF TypeOK, States, Contexts, Faults

LEMMA TypeStep == TypeOK /\ [Next]_vars => TypeOK'
<1> SUFFICES ASSUME TypeOK, [Next]_vars PROVE TypeOK'
  OBVIOUS
<1> USE DEF Goto, At
<1>1. ASSUME NEW p \in Promises, NEW q \in Promises, CopyPromise(p, q) PROVE TypeOK'
  <2>1. has_future_' \in [Promises -> BOOLEAN]
    BY <1>1 DEF CopyPromise, TypeOK
  <2>2. pc' \in [Actors -> Places]
    BY <1>1 DEF CopyPromise, TypeOK, Places
  <2>3. attached_' \in 0 .. RefMod - 1 /\ promise_ref_' \in Nat
    BY <1>1, RefCounterTypes DEF CopyPromise, AttachOne, TypeOK
  <2> QED
    BY <1>1, <2>1, <2>2, <2>3 DEF CopyPromise, TypeOK, content
<1>2. ASSUME NEW p \in Promises, NEW f \in Futures, GetFuture(p, f) PROVE TypeOK'
  BY <1>2, RefCounterTypes
     DEF GetFuture, AttachOne, TypeOK, Places, content
<1>3. ASSUME NEW p \in Promises, ForceScheduled(p) \/ Checkout(p) PROVE TypeOK'
  BY <1>3, ClientAssumption
     DEF ForceScheduled, Checkout, TypeOK, counts, content, local, Contexts
<1>4. ASSUME NEW p \in Promises, SetValue(p) PROVE TypeOK'
  BY <1>4 DEF SetValue, TypeOK, Places, SetPlaces, counts, content, config
<1>5. ASSUME NEW p \in Promises, DestroyPromise(p) PROVE TypeOK'
  BY <1>5 DEF DestroyPromise, TypeOK, Places, Faults, content, config
<1>6. ASSUME NEW p \in Promises, PromiseStep(p) PROVE TypeOK'
  BY <1>6, RefCounterTypes
     DEF PromiseStep, DetachPromiseCheck, DetachPromiseDetach, SetResultCheck,
         SetResultStore, Throw, DetachOne, TypeOK, Places, SetPlaces, Faults, counts,
         content, config
<1>7. ASSUME NEW f \in Futures, FutureCall(f) PROVE TypeOK'
  <2>1. CASE SetExecutor(f)
    BY <2>1, ClientAssumption DEF SetExecutor, TypeOK, counts, content, local
  <2>2. CASE SetContinuation(f) \/ Wait(f)
    BY <2>2 DEF SetContinuation, Wait, TypeOK, Places, SetPlaces, counts, content, config
  <2>3. CASE DestroyFuture(f)
    BY <2>3, RefCounterTypes
       DEF DestroyFuture, DetachOne, TypeOK, Places, Faults, content, config
  <2> QED
    BY <1>7, <2>1, <2>2, <2>3 DEF FutureCall
<1>8. ASSUME NEW f \in Futures, FutureStep(f) PROVE TypeOK'
  BY <1>8
     DEF FutureStep, WaitSetExecutor, WaitReturn, SetContinuationCheck, SetContinuationStore,
         Throw, TypeOK, Places, SetPlaces, Faults, counts, content, config
<1>9. ASSUME NEW h \in Handles, MoveAssign(h) PROVE TypeOK'
  BY <1>9 DEF MoveAssign, TypeOK, Places, counts, content, config
<1>10. ASSUME NEW h \in Handles, LoadState(h) PROVE TypeOK'
  BY <1>10 DEF LoadState, Throw, TypeOK, Places, SetPlaces, Faults, counts, content, config
<1>11. ASSUME NEW h \in Handles, CasHalf(h) PROVE TypeOK'
  BY <1>11
     DEF CasHalf, Half, Publish, TypeOK, Places, SetPlaces, States, counts, config
<1>12. ASSUME NEW h \in Handles, AssertOtherHalf(h) PROVE TypeOK'
  BY <1>12 DEF AssertOtherHalf, TypeOK, Places, SetPlaces, Faults, counts, content, config
<1>13. ASSUME NEW h \in Handles, CasDone(h) PROVE TypeOK'
  BY <1>13
     DEF CasDone, Throw, Publish, TypeOK, Places, SetPlaces, States, Faults, counts, config
<1>14. ASSUME NEW h \in Handles, ScheduleContinuation(h) PROVE TypeOK'
  <2>1. /\ attached_' \in {IncRef(attached_), IncRef(IncRef(attached_))}
        /\ continuation_ref_' \in {IncRef(continuation_ref_), IncRef(IncRef(continuation_ref_))}
        /\ pc' \in {[pc EXCEPT ![h] = "run"], [pc EXCEPT ![h] = "enqueue"]}
    BY <1>14 DEF ScheduleContinuation
  <2>2. /\ attached_' \in 0 .. RefMod - 1
        /\ continuation_ref_' \in 0 .. RefMod - 1
    <3>1. /\ attached_ \in 0 .. RefMod - 1
          /\ continuation_ref_ \in 0 .. RefMod - 1
      BY DEF TypeOK
    <3>2. /\ IncRef(attached_) \in 0 .. RefMod - 1
          /\ IncRef(continuation_ref_) \in 0 .. RefMod - 1
      BY <3>1, RefCounterTypes
    <3>3. /\ IncRef(IncRef(attached_)) \in 0 .. RefMod - 1
          /\ IncRef(IncRef(continuation_ref_)) \in 0 .. RefMod - 1
      BY <3>2, RefCounterTypes
    <3> QED
      BY <2>1, <3>2, <3>3
  <2>3. pc' \in [Actors -> Places]
    BY <2>1 DEF TypeOK, Places, GuardPlaces
  <2> QED
    BY <1>14, <2>2, <2>3 DEF ScheduleContinuation, TypeOK, content, config
<1>15. ASSUME NEW h \in Handles, EnqueueAccepted(h) PROVE TypeOK'
  BY <1>15
     DEF EnqueueAccepted, TypeOK, Places, GuardPlaces, Faults, counts, content, config
<1>16. ASSUME NEW h \in Handles, EnqueueRefused(h) PROVE TypeOK'
  BY <1>16, RefCounterTypes
     DEF EnqueueRefused, TypeOK, Places, GuardPlaces, Faults, content, config
<1>17. ASSUME NEW a \in Actors, Invoke(a) PROVE TypeOK'
  BY <1>17 DEF Invoke, LeftOf, TypeOK, Places, GuardPlaces, counts, config
<1>18. ASSUME NEW a \in Actors, DerefContinuation(a) PROVE TypeOK'
  BY <1>18, RefCounterTypes
     DEF DerefContinuation, TypeOK, Places, GuardPlaces, Faults, config
<1>19. ASSUME NEW a \in Actors, DetachGuard(a) PROVE TypeOK'
  BY <1>19, RefCounterTypes
     DEF DetachGuard, DetachOne, TypeOK, Places, Faults, content, config
<1>20. ASSUME NEW f \in Futures, TakeResult(f) PROVE TypeOK'
  BY <1>20 DEF TakeResult, LeftOf, TypeOK, Places, counts, config
<1>21. CASE UNCHANGED vars
  BY <1>21 DEF TypeOK, vars, counts, content, config, local
<1> QED
  BY <1>1, <1>2, <1>3, <1>4, <1>5, <1>6, <1>7, <1>8, <1>9, <1>10, <1>11, <1>12, <1>13,
     <1>14, <1>15, <1>16, <1>17, <1>18, <1>19, <1>20, <1>21
     DEF Next, Step, PromiseCall, TransferStep, GuardStep, Terminated

\* Every variable keeps its type: in particular the two counters stay in one byte.
THEOREM TypeCorrect == Spec => []TypeOK
BY TypeInit, TypeStep, PTL DEF Spec

-----------------------------------------------------------------------------
(* The sets that the counters count.                                        *)
LEMMA CountedSetsFinite ==
    /\ IsFiniteSet(Handles) /\ Cardinality(Handles) \in Nat
    /\ IsFiniteSet(Refs) /\ Cardinality(Refs) \in Nat
    /\ Cardinality(Refs) <= Cardinality(Handles)
    /\ IsFiniteSet(Guards) /\ Cardinality(Guards) \in Nat
    /\ IsFiniteSet(Enqueuing) /\ Cardinality(Enqueuing) \in Nat
    /\ IsFiniteSet(LiveGuards) /\ Cardinality(LiveGuards) \in Nat
    /\ IsFiniteSet(PromiseRefs) /\ Cardinality(PromiseRefs) \in Nat
<1>1. IsFiniteSet(Handles) /\ IsFiniteSet(Actors)
  BY ActorsAssumption, FS_Union, FS_AddElement
<1>2. /\ Refs \subseteq Handles /\ Enqueuing \subseteq Handles
      /\ Guards \subseteq Actors /\ LiveGuards \subseteq Actors
      /\ PromiseRefs \subseteq Handles
  BY DEF Refs, Enqueuing, Guards, LiveGuards, PromiseRefs
<1>3. Cardinality(Refs) <= Cardinality(Handles)
  BY <1>1, <1>2, FS_Subset
<1>4. /\ IsFiniteSet(Refs) /\ IsFiniteSet(Enqueuing) /\ IsFiniteSet(Guards)
      /\ IsFiniteSet(LiveGuards) /\ IsFiniteSet(PromiseRefs)
  BY <1>1, <1>2, FS_Subset
<1> QED
  BY <1>1, <1>3, <1>4, FS_CardinalityType

LEMMA CardinalityAdd ==
    ASSUME NEW S, IsFiniteSet(S), NEW x, x \notin S
    PROVE  Cardinality(S \union {x}) = Cardinality(S) + 1
BY FS_AddElement

LEMMA CardinalityRemove ==
    ASSUME NEW S, IsFiniteSet(S), NEW x \in S
    PROVE  Cardinality(S \ {x}) = Cardinality(S) - 1 /\ Cardinality(S) >= 1
<1>1. Cardinality(S \ {x}) = Cardinality(S) - 1
  BY FS_RemoveElement
<1>2. Cardinality(S \ {x}) \in Nat /\ Cardinality(S) \in Nat
  BY FS_RemoveElement, FS_CardinalityType
<1> QED
  BY <1>1, <1>2

\* One handle schedules and one closure is handed out, so there are never more
\* than two guards besides the handles' own references.
LEMMA AtMostTwoGuards ==
    ASSUME PlacesOK, OneScheduler
    PROVE  Cardinality(Guards) + Cardinality(Enqueuing) <= 2
<1>1. CASE \A h \in Handles : pc[h] \notin GuardPlaces
  <2>1. Enqueuing = {} /\ (Guards = {} \/ Guards = {Task})
    BY <1>1 DEF Enqueuing, Guards, GuardPlaces
  <2>2. Cardinality({}) = 0 /\ Cardinality({Task}) = 1
    BY FS_EmptySet, FS_Singleton
  <2> QED
    BY <2>1, <2>2
<1>2. ASSUME NEW g \in Handles, pc[g] = "enqueue"
      PROVE  Cardinality(Guards) + Cardinality(Enqueuing) <= 2
  <2>1. \A h \in Handles : pc[h] \in GuardPlaces => h = g
    BY <1>2 DEF OneScheduler, Scheduling, GuardPlaces
  <2>2. pc[Task] = "none"
    BY <1>2 DEF OneScheduler
  <2>3. Guards = {g} /\ Enqueuing = {g}
    BY <1>2, <2>1, <2>2 DEF Guards, Enqueuing, GuardPlaces
  <2> QED
    BY <2>3, FS_Singleton
<1>3. ASSUME NEW g \in Handles, pc[g] \in GuardPlaces, pc[g] # "enqueue"
      PROVE  Cardinality(Guards) + Cardinality(Enqueuing) <= 2
  <2>1. \A h \in Handles : pc[h] \in GuardPlaces => h = g
    BY <1>3 DEF OneScheduler, Scheduling, GuardPlaces
  <2>2. Enqueuing = {} /\ (Guards = {g} \/ Guards = {g} \union {Task})
    BY <1>3, <2>1 DEF Guards, Enqueuing, GuardPlaces
  <2>3. Task \notin {g}
    BY ActorsAssumption
  <2>4. IsFiniteSet({g}) /\ Cardinality({g}) = 1 /\ Cardinality({}) = 0
    BY FS_EmptySet, FS_Singleton
  <2>5. Cardinality({g} \union {Task}) = 2
    BY <2>3, <2>4, CardinalityAdd
  <2> QED
    BY <2>2, <2>4, <2>5
<1> QED
  BY <1>1, <1>2, <1>3

\* The room that the counters have before a step that increments them.
LEMMA RoomInCounters ==
    ASSUME TypeOK, PlacesOK, OneScheduler, RefCountExact
    PROVE  attached_ <= Cardinality(Refs) + 2 /\ Cardinality(Handles) + 2 < RefMod
BY AtMostTwoGuards, CountedSetsFinite, RefModAssumption DEF RefCountExact

\* A step of a handle that neither takes nor drops anything that is counted.
LEMMA QuietMove ==
    ASSUME TypeOK, RefCountExact, DeletedAtZero, UNCHANGED counts,
           NEW h \in Handles, NEW x,
           pc' = [pc EXCEPT ![h] = x],
           {pc[h], x} \intersect (GuardPlaces \union {"unborn", "dead"}) = {},
           \A p \in Promises : ret'[p] = "dp_detach" <=> ret[p] = "dp_detach"
    PROVE  RefCountExact' /\ DeletedAtZero'
<1>1. /\ Refs' = Refs /\ Guards' = Guards /\ Enqueuing' = Enqueuing
      /\ LiveGuards' = LiveGuards
  BY DEF TypeOK, Refs, Guards, Enqueuing, LiveGuards, GuardPlaces
<1>2. PromiseRefs' = PromiseRefs
  BY DEF TypeOK, PromiseRefs
<1> QED
  BY <1>1, <1>2 DEF RefCountExact, DeletedAtZero, counts

-----------------------------------------------------------------------------
(* The counters follow every step that takes or drops a reference.          *)
LEMMA NewHandle ==
    ASSUME TypeOK, PlacesOK, OneScheduler, RefCountExact, DeletedAtZero,
           NEW p \in Promises, NEW h \in Handles,
           \/ h \in Promises /\ CopyPromise(p, h)
           \/ h \in Futures /\ GetFuture(p, h)
    PROVE  RefCountExact' /\ DeletedAtZero'
<1>1. /\ pc[p] = "idle" /\ pc[h] = "unborn" /\ pc' = [pc EXCEPT ![h] = "idle"]
      /\ attached_' = IncRef(attached_)
      /\ UNCHANGED <<continuation_ref_, deleted, ret>>
  BY DEF CopyPromise, GetFuture, At, Goto, AttachOne
<1>2. /\ Refs' = Refs \union {h} /\ h \notin Refs /\ p \in Refs
      /\ Guards' = Guards /\ Enqueuing' = Enqueuing /\ LiveGuards' = LiveGuards
  BY <1>1 DEF TypeOK, Refs, Guards, Enqueuing, LiveGuards, GuardPlaces
<1>3. /\ Cardinality(Refs') = Cardinality(Refs) + 1
      /\ Cardinality(Refs') <= Cardinality(Handles)
  <2>1. Refs' \subseteq Handles
    BY DEF Refs
  <2> QED
    BY <1>2, <2>1, CountedSetsFinite, CardinalityAdd, FS_Subset
<1>4. attached_' = attached_ + 1
  <2>1. attached_ = Cardinality(Refs) + Cardinality(Guards) + Cardinality(Enqueuing)
    BY DEF RefCountExact
  <2>2. attached_ + 1 < RefMod
    BY <2>1, <1>3, AtMostTwoGuards, CountedSetsFinite, RefModAssumption
  <2>3. attached_ \in Nat /\ RefMod \in Nat
    BY <2>1, CountedSetsFinite, RefModAssumption
  <2> QED
    BY <1>1, <2>2, <2>3 DEF IncRef
<1>5. promise_ref_' = Cardinality(PromiseRefs')
  <2>1. CASE h \in Promises
    <3>1. CopyPromise(p, h)
      BY <2>1, ActorsAssumption
    <3>2. PromiseRefs' = PromiseRefs \union {h} /\ h \notin PromiseRefs
      BY <2>1, <1>1 DEF PromiseRefs, PlacesOK, TypeOK
    <3> QED
      BY <3>1, <3>2, CardinalityAdd, CountedSetsFinite DEF CopyPromise, RefCountExact
  <2>2. CASE h \in Futures
    <3>1. GetFuture(p, h)
      BY <2>2, ActorsAssumption
    <3>2. PromiseRefs' = PromiseRefs
      BY <2>2, <1>1, ActorsAssumption DEF PromiseRefs, TypeOK
    <3> QED
      BY <3>1, <3>2 DEF GetFuture, RefCountExact
  <2> QED
    BY <2>1, <2>2
<1>6. attached_ # 0 /\ ~deleted
  <2>1. Cardinality(Refs) >= 1
    BY <1>2, CountedSetsFinite, CardinalityRemove
  <2> QED
    BY <2>1, CountedSetsFinite DEF RefCountExact, DeletedAtZero
<1>7. RefCountExact'
  BY <1>1, <1>2, <1>3, <1>4, <1>5, CountedSetsFinite DEF RefCountExact
<1>8. attached_ \in Nat
  BY CountedSetsFinite DEF RefCountExact
<1> QED
  BY <1>1, <1>4, <1>6, <1>7, <1>8 DEF DeletedAtZero

LEMMA ReleasePromise ==
    ASSUME TypeOK, PlacesOK, RefCountExact, DeletedAtZero,
           NEW p \in Promises, DestroyPromise(p)
    PROVE  RefCountExact' /\ DeletedAtZero'
<1>1. /\ pc[p] = "idle" /\ ret[p] = "idle"
      /\ pc' \in {[pc EXCEPT ![p] = "dp_check"], [pc EXCEPT ![p] = "dp_detach"]}
      /\ ret' = [ret EXCEPT ![p] = "dp_detach"]
      /\ UNCHANGED <<attached_, continuation_ref_, deleted>>
  BY DEF DestroyPromise, At, Goto, PlacesOK
<1>2. /\ Refs' = Refs /\ Guards' = Guards /\ Enqueuing' = Enqueuing
      /\ LiveGuards' = LiveGuards
  BY <1>1 DEF TypeOK, Refs, Guards, Enqueuing, LiveGuards, GuardPlaces
<1>3. PromiseRefs' = PromiseRefs \ {p} /\ p \in PromiseRefs
  BY <1>1 DEF TypeOK, PromiseRefs
<1>4. /\ Cardinality(PromiseRefs') = Cardinality(PromiseRefs) - 1
      /\ Cardinality(PromiseRefs) >= 1
  BY <1>3, CardinalityRemove, CountedSetsFinite
<1>5. promise_ref_' = Cardinality(PromiseRefs')
  <2>1. promise_ref_ = Cardinality(PromiseRefs) /\ promise_ref_ # 0
    BY <1>4, CountedSetsFinite DEF RefCountExact
  <2> QED
    BY <2>1, <1>4 DEF DestroyPromise
<1> QED
  BY <1>1, <1>2, <1>5 DEF RefCountExact, DeletedAtZero

LEMMA DropHandle ==
    ASSUME TypeOK, PlacesOK, RefCountExact, DeletedAtZero,
           NEW h \in Handles,
           \/ h \in Promises /\ DetachPromiseDetach(h)
           \/ h \in Futures /\ DestroyFuture(h)
    PROVE  RefCountExact' /\ DeletedAtZero'
<1>1. /\ pc[h] \in {"idle", "taken", "dp_detach"} /\ pc' = [pc EXCEPT ![h] = "dead"]
      /\ DetachOne
      /\ UNCHANGED <<continuation_ref_, promise_ref_, ret>>
  BY DEF DetachPromiseDetach, DestroyFuture, At, Goto
<1>2. h \in Promises => pc[h] = "dp_detach" /\ ret[h] = "dp_detach"
  BY ActorsAssumption DEF DetachPromiseDetach, At, PlacesOK
<1>3. /\ Guards' = Guards /\ Enqueuing' = Enqueuing /\ LiveGuards' = LiveGuards
      /\ Refs' = Refs \ {h} /\ h \in Refs
  BY <1>1 DEF TypeOK, Refs, Guards, Enqueuing, LiveGuards, GuardPlaces
<1>4. PromiseRefs' = PromiseRefs
  BY <1>1, <1>2 DEF TypeOK, PromiseRefs
<1>5. Cardinality(Refs') = Cardinality(Refs) - 1 /\ Cardinality(Refs) >= 1
  BY <1>3, CardinalityRemove, CountedSetsFinite
<1>6. attached_ \in Nat /\ attached_ >= 1 /\ attached_' = attached_ - 1
  <2>1. attached_ \in Nat /\ attached_ >= 1
    BY <1>5, CountedSetsFinite DEF RefCountExact
  <2> QED
    BY <2>1, <1>1 DEF DetachOne, DecRef
<1>7. RefCountExact'
  BY <1>1, <1>3, <1>4, <1>5, <1>6, CountedSetsFinite DEF RefCountExact
<1>8. deleted' <=> (deleted \/ attached_ = 1)
  BY <1>1 DEF DetachOne
<1>9. ~deleted
  BY <1>6 DEF DeletedAtZero
<1> QED
  BY <1>6, <1>7, <1>8, <1>9 DEF DeletedAtZero

LEMMA TakeGuards ==
    ASSUME TypeOK, PlacesOK, OneScheduler, RefCountExact, DeletedAtZero,
           NEW h \in Handles, ScheduleContinuation(h)
    PROVE  RefCountExact' /\ DeletedAtZero'
<1>1. /\ pc[h] = "sched"
      /\ UNCHANGED <<promise_ref_, deleted, ret>>
  BY DEF ScheduleContinuation, At
<1>2. Guards = {} /\ Enqueuing = {} /\ LiveGuards = {} /\ h \in Refs
  <2>1. \A g \in Handles : pc[g] \in GuardPlaces => g = h
    BY <1>1 DEF OneScheduler, Scheduling
  <2>2. \A g \in Handles : pc[g] \notin GuardPlaces
    BY <1>1, <2>1 DEF GuardPlaces
  <2>3. pc[Task] = "none"
    BY <1>1 DEF OneScheduler
  <2> QED
    BY <1>1, <2>2, <2>3 DEF Guards, Enqueuing, LiveGuards, Refs, GuardPlaces
<1>3. /\ attached_ = Cardinality(Refs) /\ continuation_ref_ = 0
      /\ attached_ \in Nat /\ 1 <= attached_ /\ attached_ + 2 < RefMod
      /\ RefMod \in Nat
  <2>1. Cardinality({}) = 0 /\ Cardinality(Refs) >= 1
    BY <1>2, FS_EmptySet, CardinalityRemove, CountedSetsFinite
  <2> QED
    BY <1>2, <2>1, CountedSetsFinite, RefModAssumption DEF RefCountExact
<1>4. ASSUME NEW x \in {"run", "enqueue"}, pc' = [pc EXCEPT ![h] = x]
      PROVE  /\ Refs' = Refs /\ Guards' = {h} /\ LiveGuards' = {h}
             /\ Enqueuing' = IF x = "enqueue" THEN {h} ELSE {}
             /\ PromiseRefs' = PromiseRefs
  <2>1. /\ Refs' = Refs
        /\ PromiseRefs' = PromiseRefs
    BY <1>1, <1>4 DEF TypeOK, Refs, PromiseRefs
  <2>2. Guards' = Guards \union {h} /\ LiveGuards' = LiveGuards \union {h}
    BY <1>1, <1>4 DEF TypeOK, Guards, LiveGuards, GuardPlaces
  <2>3. Enqueuing' = Enqueuing \union (IF x = "enqueue" THEN {h} ELSE {})
    BY <1>1, <1>4 DEF TypeOK, Enqueuing
  <2> QED
    BY <1>2, <2>1, <2>2, <2>3
<1>5. Cardinality({h}) = 1 /\ Cardinality({}) = 0
  BY FS_EmptySet, FS_Singleton
<1>6. CASE /\ pc' = [pc EXCEPT ![h] = "run"]
           /\ attached_' = IncRef(attached_)
           /\ continuation_ref_' = IncRef(continuation_ref_)
  <2>1. attached_' = attached_ + 1 /\ continuation_ref_' = 1
    BY <1>3, <1>6 DEF IncRef
  <2>2. /\ Refs' = Refs /\ Guards' = {h} /\ LiveGuards' = {h} /\ Enqueuing' = {}
        /\ PromiseRefs' = PromiseRefs
    BY <1>4, <1>6
  <2> QED
    BY <1>1, <1>3, <1>5, <2>1, <2>2 DEF RefCountExact, DeletedAtZero
<1>7. CASE /\ pc' = [pc EXCEPT ![h] = "enqueue"]
           /\ attached_' = IncRef(IncRef(attached_))
           /\ continuation_ref_' = IncRef(IncRef(continuation_ref_))
  <2>1. attached_' = attached_ + 2 /\ continuation_ref_' = 2
    BY <1>3, <1>7 DEF IncRef
  <2>2. /\ Refs' = Refs /\ Guards' = {h} /\ LiveGuards' = {h} /\ Enqueuing' = {h}
        /\ PromiseRefs' = PromiseRefs
    BY <1>4, <1>7
  <2> QED
    BY <1>1, <1>3, <1>5, <2>1, <2>2 DEF RefCountExact, DeletedAtZero
<1> QED
  BY <1>6, <1>7 DEF ScheduleContinuation, Goto

LEMMA HandOutClosure ==
    ASSUME TypeOK, PlacesOK, OneScheduler, RefCountExact, DeletedAtZero,
           NEW h \in Handles, EnqueueAccepted(h)
    PROVE  RefCountExact' /\ DeletedAtZero'
<1>1. /\ pc[h] = "enqueue" /\ pc[Task] = "none"
      /\ pc' = [pc EXCEPT ![h] = "deref", ![Task] = "run"]
      /\ UNCHANGED <<attached_, continuation_ref_, promise_ref_, deleted, ret>>
  BY DEF EnqueueAccepted, At, OneScheduler, counts
<1>2. /\ Refs' = Refs /\ PromiseRefs' = PromiseRefs
      /\ Guards' = Guards \union {Task} /\ Task \notin Guards
      /\ LiveGuards' = LiveGuards \union {Task} /\ Task \notin LiveGuards
      /\ Enqueuing' = Enqueuing \ {h} /\ h \in Enqueuing
  BY <1>1, ActorsAssumption
     DEF TypeOK, Refs, PromiseRefs, Guards, LiveGuards, Enqueuing, GuardPlaces
<1>3. /\ Cardinality(Guards') = Cardinality(Guards) + 1
      /\ Cardinality(LiveGuards') = Cardinality(LiveGuards) + 1
      /\ Cardinality(Enqueuing') = Cardinality(Enqueuing) - 1
  BY <1>2, CardinalityAdd, CardinalityRemove, CountedSetsFinite
<1> QED
  BY <1>1, <1>2, <1>3, CountedSetsFinite DEF RefCountExact, DeletedAtZero

LEMMA RefuseClosure ==
    ASSUME TypeOK, PlacesOK, OneScheduler, RefCountExact, DeletedAtZero,
           NEW h \in Handles, EnqueueRefused(h)
    PROVE  RefCountExact' /\ DeletedAtZero'
<1>1. /\ pc[h] = "enqueue" /\ pc' = [pc EXCEPT ![h] = "run"]
      /\ attached_' = DecRef(attached_) /\ continuation_ref_' = DecRef(continuation_ref_)
      /\ UNCHANGED <<promise_ref_, deleted, ret>>
  BY DEF EnqueueRefused, At, Goto
<1>2. /\ Refs' = Refs /\ PromiseRefs' = PromiseRefs
      /\ Guards' = Guards /\ LiveGuards' = LiveGuards
      /\ h \in Refs
      /\ Enqueuing' = Enqueuing \ {h} /\ h \in Enqueuing
  BY <1>1 DEF TypeOK, Refs, PromiseRefs, Guards, LiveGuards, Enqueuing, GuardPlaces
<1>3. /\ Cardinality(Enqueuing') = Cardinality(Enqueuing) - 1
      /\ Cardinality(Enqueuing) >= 1 /\ Cardinality(Refs) >= 1
  BY <1>2, CardinalityRemove, CountedSetsFinite
<1>4. /\ attached_ \in Nat /\ attached_ >= 2 /\ continuation_ref_ \in Nat
      /\ continuation_ref_ >= 1
  BY <1>3, CountedSetsFinite DEF RefCountExact
<1>5. attached_' = attached_ - 1 /\ continuation_ref_' = continuation_ref_ - 1
  BY <1>1, <1>4 DEF DecRef
<1>6. RefCountExact'
  BY <1>1, <1>2, <1>3, <1>5, CountedSetsFinite DEF RefCountExact
<1> QED
  BY <1>1, <1>4, <1>5, <1>6 DEF DeletedAtZero

LEMMA DropGuard ==
    ASSUME TypeOK, PlacesOK, RefCountExact, DeletedAtZero,
           NEW a \in Actors, GuardStep(a)
    PROVE  RefCountExact' /\ DeletedAtZero'
<1>1. CASE Invoke(a)
  <2>1. /\ pc[a] = "run" /\ pc' = [pc EXCEPT ![a] = "deref"]
        /\ UNCHANGED <<attached_, continuation_ref_, promise_ref_, deleted, ret>>
    BY <1>1 DEF Invoke, At, Goto, counts
  <2>2. /\ Refs' = Refs /\ PromiseRefs' = PromiseRefs /\ Guards' = Guards
        /\ LiveGuards' = LiveGuards /\ Enqueuing' = Enqueuing
    BY <2>1 DEF TypeOK, Refs, PromiseRefs, Guards, LiveGuards, Enqueuing, GuardPlaces
  <2> QED
    BY <2>1, <2>2 DEF RefCountExact, DeletedAtZero
<1>2. CASE DerefContinuation(a)
  <2>1. /\ pc[a] = "deref" /\ pc' = [pc EXCEPT ![a] = "detach"]
        /\ continuation_ref_' = DecRef(continuation_ref_)
        /\ UNCHANGED <<attached_, promise_ref_, deleted, ret>>
    BY <1>2 DEF DerefContinuation, At, Goto
  <2>2. /\ Refs' = Refs /\ PromiseRefs' = PromiseRefs /\ Guards' = Guards
        /\ LiveGuards' = LiveGuards \ {a} /\ a \in LiveGuards
        /\ Enqueuing' = Enqueuing
    BY <2>1 DEF TypeOK, Refs, PromiseRefs, Guards, LiveGuards, Enqueuing, GuardPlaces
  <2>3. /\ Cardinality(LiveGuards') = Cardinality(LiveGuards) - 1
        /\ Cardinality(LiveGuards) >= 1
    BY <2>2, CardinalityRemove, CountedSetsFinite
  <2>4. continuation_ref_' = continuation_ref_ - 1
    BY <2>1, <2>3, CountedSetsFinite DEF RefCountExact, DecRef
  <2> QED
    BY <2>1, <2>2, <2>3, <2>4, CountedSetsFinite DEF RefCountExact, DeletedAtZero
<1>3. CASE DetachGuard(a)
  <2>1. /\ pc[a] = "detach" /\ pc' = [pc EXCEPT ![a] = ret[a]]
        /\ DetachOne
        /\ ret' = [ret EXCEPT ![a] = IF @ = "w_sem" THEN "idle" ELSE @]
        /\ UNCHANGED <<continuation_ref_, promise_ref_>>
    BY <1>3 DEF DetachGuard, At, Goto
  <2>2. ret[a] \in {"idle", "dp_detach", "w_sem", "done"}
    BY DEF TypeOK
  <2>3. Guards' = Guards \ {a} /\ a \in Guards
    BY <2>1, <2>2 DEF TypeOK, Guards, GuardPlaces
  <2>4. Refs' = Refs /\ LiveGuards' = LiveGuards /\ Enqueuing' = Enqueuing
    BY <2>1, <2>2 DEF TypeOK, Refs, LiveGuards, Enqueuing, GuardPlaces
  <2>5. PromiseRefs' = PromiseRefs
    BY <2>1, <2>2 DEF TypeOK, PromiseRefs
  <2>6. Cardinality(Guards') = Cardinality(Guards) - 1 /\ Cardinality(Guards) >= 1
    BY <2>3, CardinalityRemove, CountedSetsFinite
  <2>7. attached_ \in Nat /\ attached_ >= 1
    BY <2>6, CountedSetsFinite DEF RefCountExact
  <2>8. attached_' = attached_ - 1
    BY <2>1, <2>7 DEF DetachOne, DecRef
  <2>9. RefCountExact'
    BY <2>1, <2>3, <2>4, <2>5, <2>6, <2>8, CountedSetsFinite DEF RefCountExact
  <2>10. deleted' <=> (deleted \/ attached_ = 1)
    BY <2>1 DEF DetachOne
  <2>11. ~deleted
    BY <2>7 DEF DeletedAtZero
  <2> QED
    BY <2>7, <2>8, <2>9, <2>10, <2>11 DEF DeletedAtZero
<1> QED
  BY <1>1, <1>2, <1>3 DEF GuardStep

LEMMA CountsStep ==
    ASSUME TypeOK, PlacesOK, CasOK, OneScheduler, RefCountExact, DeletedAtZero, Step
    PROVE  RefCountExact' /\ DeletedAtZero'
<1> USE DEF At, Goto
<1>1. ASSUME UNCHANGED <<counts, pc, ret>> PROVE RefCountExact' /\ DeletedAtZero'
  BY <1>1 DEF RefCountExact, DeletedAtZero, counts, Refs, Guards, Enqueuing, LiveGuards,
              PromiseRefs
<1>2. ASSUME NEW p \in Promises, PromiseCall(p) PROVE RefCountExact' /\ DeletedAtZero'
  <2>1. CASE ForceScheduled(p) \/ Checkout(p)
    BY <1>1, <2>1 DEF ForceScheduled, Checkout, local
  <2>2. CASE SetValue(p)
    BY <2>2, QuietMove DEF SetValue, GuardPlaces
  <2>3. ASSUME NEW q \in Promises, CopyPromise(p, q) PROVE RefCountExact' /\ DeletedAtZero'
    BY <2>3, NewHandle
  <2>4. ASSUME NEW f \in Futures, GetFuture(p, f) PROVE RefCountExact' /\ DeletedAtZero'
    BY <2>4, NewHandle
  <2>5. CASE DestroyPromise(p)
    BY <2>5, ReleasePromise
  <2> QED
    BY <1>2, <2>1, <2>2, <2>3, <2>4, <2>5 DEF PromiseCall
<1>3. ASSUME NEW p \in Promises, PromiseStep(p) PROVE RefCountExact' /\ DeletedAtZero'
  <2>1. CASE DetachPromiseCheck(p)
    <3>1. UNCHANGED <<counts, ret>> /\ pc[p] = "dp_check"
      BY <2>1 DEF DetachPromiseCheck
    <3>2. CASE pc' = [pc EXCEPT ![p] = "dp_detach"]
      BY <3>1, <3>2, QuietMove DEF GuardPlaces
    <3>3. CASE pc' = [pc EXCEPT ![p] = "check"]
      BY <3>1, <3>3, QuietMove DEF GuardPlaces
    <3> QED
      BY <2>1, <3>2, <3>3 DEF DetachPromiseCheck
  <2>2. CASE SetResultCheck(p) /\ HasResult
    BY <1>1, <2>2, QuietMove DEF SetResultCheck, Throw, GuardPlaces, TypeOK
  <2>3. CASE SetResultCheck(p) /\ ~HasResult
    BY <2>3, QuietMove DEF SetResultCheck, GuardPlaces
  <2>4. CASE SetResultStore(p)
    BY <2>4, QuietMove DEF SetResultStore, GuardPlaces
  <2>5. CASE DetachPromiseDetach(p)
    BY <2>5, DropHandle
  <2> QED
    BY <1>3, <2>1, <2>2, <2>3, <2>4, <2>5 DEF PromiseStep
<1>4. ASSUME NEW f \in Futures, FutureCall(f) PROVE RefCountExact' /\ DeletedAtZero'
  <2>1. CASE SetExecutor(f)
    BY <1>1, <2>1 DEF SetExecutor, local
  <2>2. CASE SetContinuation(f)
    BY <2>2, QuietMove DEF SetContinuation, GuardPlaces
  <2>3. CASE Wait(f)
    BY <2>3, QuietMove, ActorsAssumption DEF Wait, GuardPlaces, TypeOK
  <2> QED
    BY <1>4, <2>1, <2>2, <2>3, DropHandle DEF FutureCall
<1>5. ASSUME NEW f \in Futures, FutureStep(f) PROVE RefCountExact' /\ DeletedAtZero'
  <2>1. CASE WaitSetExecutor(f)
    BY <2>1, QuietMove DEF WaitSetExecutor, GuardPlaces
  <2>2. CASE WaitReturn(f)
    BY <2>2, QuietMove DEF WaitReturn, GuardPlaces
  <2>3. CASE SetContinuationCheck(f) /\ HasContinuation
    BY <1>1, <2>3, QuietMove DEF SetContinuationCheck, Throw, GuardPlaces, TypeOK
  <2>4. CASE SetContinuationCheck(f) /\ ~HasContinuation
    BY <2>4, QuietMove DEF SetContinuationCheck, GuardPlaces
  <2>5. CASE SetContinuationStore(f)
    BY <2>5, QuietMove DEF SetContinuationStore, GuardPlaces
  <2> QED
    BY <1>5, <2>1, <2>2, <2>3, <2>4, <2>5 DEF FutureStep
<1>6. ASSUME NEW h \in Handles, MoveAssign(h) PROVE RefCountExact' /\ DeletedAtZero'
  BY <1>6, QuietMove DEF MoveAssign, GuardPlaces
<1>7. ASSUME NEW h \in Handles, TransferStep(h) PROVE RefCountExact' /\ DeletedAtZero'
  <2>1. CASE LoadState(h)
    <3>1. UNCHANGED counts /\ pc[h] = "load"
      BY <2>1 DEF LoadState
    <3>2. CASE UNCHANGED <<pc, ret>>
      BY <1>1, <3>1, <3>2
    <3>3. CASE pc' = [pc EXCEPT ![h] = "cas"] /\ ret' = ret
      BY <3>1, <3>3, QuietMove DEF GuardPlaces
    <3>4. CASE pc' = [pc EXCEPT ![h] = "casdone"] /\ ret' = ret
      BY <3>1, <3>4, QuietMove DEF GuardPlaces
    <3>5. CASE /\ pc' = [pc EXCEPT ![h] = "idle"]
               /\ ret[h] # "dp_detach" /\ ret' = [ret EXCEPT ![h] = "idle"]
      BY <3>1, <3>5, QuietMove DEF GuardPlaces, TypeOK
    <3> QED
      BY <2>1, <3>2, <3>3, <3>4, <3>5 DEF LoadState, Throw
  <2>2. CASE CasHalf(h)
    <3>1. UNCHANGED counts /\ pc[h] = "cas"
      BY <2>2 DEF CasHalf
    <3>2. CASE pc' = [pc EXCEPT ![h] = "assert"] /\ ret' = ret
      BY <3>1, <3>2, QuietMove DEF GuardPlaces
    <3>3. CASE /\ pc' = [pc EXCEPT ![h] = ret[h]]
               /\ ret' = [ret EXCEPT ![h] = IF @ = "dp_detach" THEN @ ELSE "idle"]
      BY <3>1, <3>3, QuietMove DEF GuardPlaces, TypeOK
    <3> QED
      BY <2>2, <3>2, <3>3 DEF CasHalf
  <2>3. CASE AssertOtherHalf(h)
    BY <2>3, QuietMove DEF AssertOtherHalf, GuardPlaces
  <2>4. CASE CasDone(h)
    <3>1. UNCHANGED counts /\ pc[h] = "casdone"
      BY <2>4 DEF CasDone
    <3>2. CASE UNCHANGED <<pc, ret>>
      BY <1>1, <3>1, <3>2
    <3>3. CASE pc' = [pc EXCEPT ![h] = "sched"] /\ ret' = ret
      BY <3>1, <3>3, QuietMove DEF GuardPlaces
    <3>4. CASE /\ pc' = [pc EXCEPT ![h] = "idle"]
               /\ ret[h] # "dp_detach" /\ ret' = [ret EXCEPT ![h] = "idle"]
      BY <3>1, <3>4, QuietMove DEF GuardPlaces, TypeOK
    <3> QED
      BY <2>4, <3>2, <3>3, <3>4 DEF CasDone, Throw
  <2> QED
    BY <1>7, <2>1, <2>2, <2>3, <2>4, TakeGuards, HandOutClosure, RefuseClosure DEF TransferStep
<1>8. ASSUME NEW a \in Actors, GuardStep(a) PROVE RefCountExact' /\ DeletedAtZero'
  BY <1>8, DropGuard
<1>9. ASSUME NEW f \in Futures, TakeResult(f) PROVE RefCountExact' /\ DeletedAtZero'
  BY <1>9, QuietMove DEF TakeResult, GuardPlaces
<1> QED
  BY <1>2, <1>3, <1>4, <1>5, <1>6, <1>7, <1>8, <1>9 DEF Step

-----------------------------------------------------------------------------
(* Control: where actors are, and who wins the compare-exchanges.           *)
LEMMA PlacesStep ==
    ASSUME TypeOK, PlacesOK, CasOK, OneScheduler, Step
    PROVE  PlacesOK'
<1> USE ActorsAssumption DEF At, Goto, TypeOK, PlacesOK
<1>1. ASSUME UNCHANGED <<pc, ret>> PROVE PlacesOK'
  BY <1>1
<1>2. ASSUME NEW p \in Promises, PromiseCall(p) PROVE PlacesOK'
  <2>1. CASE ForceScheduled(p) \/ Checkout(p)
    BY <1>1, <2>1 DEF ForceScheduled, Checkout, local
  <2>2. CASE SetValue(p)
    BY <2>2 DEF SetValue
  <2>3. ASSUME NEW q \in Promises, CopyPromise(p, q) PROVE PlacesOK'
    BY <2>3 DEF CopyPromise
  <2>4. ASSUME NEW f \in Futures, GetFuture(p, f) PROVE PlacesOK'
    BY <2>4 DEF GetFuture
  <2>5. CASE DestroyPromise(p)
    BY <2>5 DEF DestroyPromise
  <2> QED
    BY <1>2, <2>1, <2>2, <2>3, <2>4, <2>5 DEF PromiseCall
<1>3. ASSUME NEW p \in Promises, PromiseStep(p) PROVE PlacesOK'
  BY <1>3
     DEF PromiseStep, DetachPromiseCheck, DetachPromiseDetach, SetResultCheck, SetResultStore,
         Throw
<1>4. ASSUME NEW f \in Futures, FutureCall(f) PROVE PlacesOK'
  BY <1>4 DEF FutureCall, SetExecutor, SetContinuation, Wait, DestroyFuture, local
<1>5. ASSUME NEW f \in Futures, FutureStep(f) PROVE PlacesOK'
  BY <1>5
     DEF FutureStep, WaitSetExecutor, WaitReturn, SetContinuationCheck, SetContinuationStore,
         Throw
<1>6. ASSUME NEW h \in Handles, MoveAssign(h) PROVE PlacesOK'
  BY <1>6 DEF MoveAssign
<1>7. ASSUME NEW h \in Handles, TransferStep(h) PROVE PlacesOK'
  <2>1. CASE LoadState(h)
    BY <2>1 DEF LoadState, Throw
  <2>2. CASE CasHalf(h)
    BY <2>2 DEF CasHalf
  <2>3. CASE AssertOtherHalf(h)
    BY <2>3 DEF AssertOtherHalf
  <2>4. CASE CasDone(h)
    BY <2>4 DEF CasDone, Throw
  <2>5. CASE ScheduleContinuation(h)
    BY <2>5 DEF ScheduleContinuation
  <2>6. CASE EnqueueAccepted(h)
    BY <2>6 DEF EnqueueAccepted
  <2>7. CASE EnqueueRefused(h)
    BY <2>7 DEF EnqueueRefused
  <2> QED
    BY <1>7, <2>1, <2>2, <2>3, <2>4, <2>5, <2>6, <2>7 DEF TransferStep
<1>8. ASSUME NEW a \in Actors, GuardStep(a) PROVE PlacesOK'
  BY <1>8 DEF GuardStep, Invoke, DerefContinuation, DetachGuard
<1>9. ASSUME NEW f \in Futures, TakeResult(f) PROVE PlacesOK'
  BY <1>9 DEF TakeResult
<1> QED
  BY <1>2, <1>3, <1>4, <1>5, <1>6, <1>7, <1>8, <1>9 DEF Step

\* What every step that is not a compare-exchange leaves alone.
LEMMA StateUnchanged ==
    ASSUME Step, ~ \E h \in Handles : CasHalf(h) \/ CasDone(h)
    PROVE  UNCHANGED <<state_, published>>
BY DEF Step, TakeResult, PromiseCall, PromiseStep, FutureCall, FutureStep, TransferStep, GuardStep,
       CopyPromise, GetFuture, ForceScheduled, Checkout, SetValue, DestroyPromise,
       DetachPromiseCheck, DetachPromiseDetach, SetResultCheck, SetResultStore,
       SetExecutor, SetContinuation, Wait, DestroyFuture, WaitSetExecutor, WaitReturn,
       SetContinuationCheck, SetContinuationStore, MoveAssign, LoadState, AssertOtherHalf,
       ScheduleContinuation, EnqueueAccepted, EnqueueRefused, Invoke, DerefContinuation,
       DetachGuard, content

LEMMA CasStep ==
    ASSUME TypeOK, PlacesOK, CasOK, OneScheduler, fault = "none", Step
    PROVE  CasOK'
<1> USE ActorsAssumption DEF At, Goto, TypeOK, PlacesOK, CasOK, OtherHalf, Half
<1>1. ASSUME NEW p \in Promises, PromiseCall(p) PROVE CasOK'
  BY <1>1
     DEF PromiseCall, ForceScheduled, Checkout, SetValue, CopyPromise, GetFuture,
         DestroyPromise, content, local
<1>2. ASSUME NEW p \in Promises, PromiseStep(p) PROVE CasOK'
  BY <1>2
     DEF PromiseStep, DetachPromiseCheck, DetachPromiseDetach, SetResultCheck, SetResultStore,
         Throw, content
<1>3. ASSUME NEW f \in Futures, FutureCall(f) PROVE CasOK'
  BY <1>3 DEF FutureCall, SetExecutor, SetContinuation, Wait, DestroyFuture, content, local
<1>4. ASSUME NEW f \in Futures, FutureStep(f) PROVE CasOK'
  BY <1>4
     DEF FutureStep, WaitSetExecutor, WaitReturn, SetContinuationCheck, SetContinuationStore,
         Throw, content
<1>5. ASSUME NEW h \in Handles, MoveAssign(h) PROVE CasOK'
  BY <1>5 DEF MoveAssign, content
<1>6. ASSUME NEW h \in Handles, TransferStep(h) PROVE CasOK'
  <2>1. CASE LoadState(h)
    BY <2>1 DEF LoadState, Throw, content
  <2>2. CASE CasHalf(h)
    BY <2>2 DEF CasHalf
  <2>3. CASE AssertOtherHalf(h)
    BY <2>3 DEF AssertOtherHalf, content
  <2>4. CASE CasDone(h)
    BY <2>4 DEF CasDone, Throw
  <2>5. CASE ScheduleContinuation(h)
    BY <2>5 DEF ScheduleContinuation, content
  <2>6. CASE EnqueueAccepted(h)
    BY <2>6 DEF EnqueueAccepted, content
  <2>7. CASE EnqueueRefused(h)
    BY <2>7 DEF EnqueueRefused, content
  <2> QED
    BY <1>6, <2>1, <2>2, <2>3, <2>4, <2>5, <2>6, <2>7 DEF TransferStep
<1>7. ASSUME NEW a \in Actors, GuardStep(a) PROVE CasOK'
  BY <1>7 DEF GuardStep, Invoke, DerefContinuation, DetachGuard, content
<1>8. ASSUME NEW f \in Futures, TakeResult(f) PROVE CasOK'
  BY <1>8 DEF TakeResult
<1> QED
  BY <1>1, <1>2, <1>3, <1>4, <1>5, <1>6, <1>7, <1>8 DEF Step

LEMMA OneSchedulerStep ==
    ASSUME TypeOK, PlacesOK, CasOK, OneScheduler, fault = "none", Step
    PROVE  OneScheduler'
<1> USE ActorsAssumption DEF At, Goto, TypeOK, PlacesOK, CasOK, OneScheduler, Scheduling, GuardPlaces, OtherHalf, Half
<1>1. ASSUME NEW p \in Promises, PromiseCall(p) PROVE OneScheduler'
  BY <1>1
     DEF PromiseCall, ForceScheduled, Checkout, SetValue, CopyPromise, GetFuture,
         DestroyPromise, content, local
<1>2. ASSUME NEW p \in Promises, PromiseStep(p) PROVE OneScheduler'
  BY <1>2
     DEF PromiseStep, DetachPromiseCheck, DetachPromiseDetach, SetResultCheck, SetResultStore,
         Throw, content
<1>3. ASSUME NEW f \in Futures, FutureCall(f) PROVE OneScheduler'
  BY <1>3 DEF FutureCall, SetExecutor, SetContinuation, Wait, DestroyFuture, content, local
<1>4. ASSUME NEW f \in Futures, FutureStep(f) PROVE OneScheduler'
  BY <1>4
     DEF FutureStep, WaitSetExecutor, WaitReturn, SetContinuationCheck, SetContinuationStore,
         Throw, content
<1>5. ASSUME NEW h \in Handles, MoveAssign(h) PROVE OneScheduler'
  BY <1>5 DEF MoveAssign, content
<1>6. ASSUME NEW h \in Handles, TransferStep(h) PROVE OneScheduler'
  <2>1. CASE LoadState(h)
    BY <2>1 DEF LoadState, Throw, content
  <2>2. CASE CasHalf(h)
    BY <2>2 DEF CasHalf
  <2>3. CASE AssertOtherHalf(h)
    BY <2>3 DEF AssertOtherHalf, content
  <2>4. CASE CasDone(h)
    BY <2>4 DEF CasDone, Throw
  <2>5. CASE ScheduleContinuation(h)
    BY <2>5 DEF ScheduleContinuation, content
  <2>6. CASE EnqueueAccepted(h)
    BY <2>6 DEF EnqueueAccepted, content
  <2>7. CASE EnqueueRefused(h)
    BY <2>7 DEF EnqueueRefused, content
  <2> QED
    BY <1>6, <2>1, <2>2, <2>3, <2>4, <2>5, <2>6, <2>7 DEF TransferStep
<1>7. ASSUME NEW a \in Actors, GuardStep(a) PROVE OneScheduler'
  BY <1>7 DEF GuardStep, Invoke, DerefContinuation, DetachGuard, content
<1>8. ASSUME NEW f \in Futures, TakeResult(f) PROVE OneScheduler'
  BY <1>8 DEF TakeResult
<1> QED
  BY <1>1, <1>2, <1>3, <1>4, <1>5, <1>6, <1>7, <1>8 DEF Step

\* Only Invoke touches the history of calls, and it is run by an actor in "run".
LEMMA DeliveredUnchanged ==
    ASSUME Step, ~ \E a \in Actors : Invoke(a)
    PROVE  delivered' = delivered
BY DEF Step, TakeResult, PromiseCall, PromiseStep, FutureCall, FutureStep, TransferStep, GuardStep,
       CopyPromise, GetFuture, ForceScheduled, Checkout, SetValue, DestroyPromise,
       DetachPromiseCheck, DetachPromiseDetach, SetResultCheck, SetResultStore,
       SetExecutor, SetContinuation, Wait, DestroyFuture, WaitSetExecutor, WaitReturn,
       SetContinuationCheck, SetContinuationStore, MoveAssign, LoadState, CasHalf,
       AssertOtherHalf, CasDone, ScheduleContinuation, EnqueueAccepted, EnqueueRefused,
       DerefContinuation, DetachGuard, content

\* Nobody is on the way to the call.
NoCaller ==
    /\ pc[Task] # "run"
    /\ \A h \in Handles : pc[h] \notin {"sched", "enqueue", "run"}

\* Once the state is kDone no compare-exchange succeeds, so nobody gets there again.
LEMMA NoCallerStep ==
    ASSUME TypeOK, PlacesOK, CasOK, OneScheduler, fault = "none", state_ = "Done",
           NoCaller, Step
    PROVE  NoCaller'
<1> USE ActorsAssumption DEF At, Goto, TypeOK, PlacesOK, CasOK, NoCaller, OtherHalf
<1>1. ASSUME NEW p \in Promises, PromiseCall(p) PROVE NoCaller'
  BY <1>1
     DEF PromiseCall, ForceScheduled, Checkout, SetValue, CopyPromise, GetFuture,
         DestroyPromise, content, local
<1>2. ASSUME NEW p \in Promises, PromiseStep(p) PROVE NoCaller'
  BY <1>2
     DEF PromiseStep, DetachPromiseCheck, DetachPromiseDetach, SetResultCheck, SetResultStore,
         Throw, content
<1>3. ASSUME NEW f \in Futures, FutureCall(f) PROVE NoCaller'
  BY <1>3 DEF FutureCall, SetExecutor, SetContinuation, Wait, DestroyFuture, content, local
<1>4. ASSUME NEW f \in Futures, FutureStep(f) PROVE NoCaller'
  BY <1>4
     DEF FutureStep, WaitSetExecutor, WaitReturn, SetContinuationCheck, SetContinuationStore,
         Throw, content
<1>5. ASSUME NEW h \in Handles, MoveAssign(h) PROVE NoCaller'
  BY <1>5 DEF MoveAssign, content
<1>6. ASSUME NEW h \in Handles, TransferStep(h) PROVE NoCaller'
  <2>1. CASE LoadState(h)
    BY <2>1 DEF LoadState, Throw, content
  <2>2. CASE CasHalf(h)
    BY <2>2 DEF CasHalf
  <2>3. CASE AssertOtherHalf(h)
    BY <2>3 DEF AssertOtherHalf, content
  <2>4. CASE CasDone(h)
    BY <2>4 DEF CasDone, Throw
  <2>5. CASE ScheduleContinuation(h)
    BY <2>5 DEF ScheduleContinuation, content
  <2>6. CASE EnqueueAccepted(h)
    BY <2>6 DEF EnqueueAccepted, content
  <2>7. CASE EnqueueRefused(h)
    BY <2>7 DEF EnqueueRefused, content
  <2> QED
    BY <1>6, <2>1, <2>2, <2>3, <2>4, <2>5, <2>6, <2>7 DEF TransferStep
<1>7. ASSUME NEW a \in Actors, GuardStep(a) PROVE NoCaller'
  BY <1>7 DEF GuardStep, Invoke, DerefContinuation, DetachGuard, content
<1>8. ASSUME NEW f \in Futures, TakeResult(f) PROVE NoCaller'
  BY <1>8 DEF TakeResult
<1> QED
  BY <1>1, <1>2, <1>3, <1>4, <1>5, <1>6, <1>7, <1>8 DEF Step

LEMMA CalledOnceStep ==
    ASSUME TypeOK, PlacesOK, CasOK, OneScheduler, CallOwed, CalledAtMostOnce,
           fault = "none", Step
    PROVE  CallOwed' /\ CalledAtMostOnce'
<1>1. ASSUME NEW a \in Actors, Invoke(a) PROVE CallOwed' /\ CalledAtMostOnce'
  <2>1. /\ pc[a] = "run" /\ pc' = [pc EXCEPT ![a] = "deref"] /\ state_' = state_
        /\ delivered' = Append(delivered, <<continuation_, try_value_>>)
    BY <1>1 DEF Invoke, At, Goto
  <2>2. delivered = <<>> /\ state_ = "Done"
    BY <2>1 DEF CallOwed, OneScheduler, Scheduling, GuardPlaces
  <2>3. CalledAtMostOnce'
    BY <2>1, <2>2 DEF CalledAtMostOnce
  <2>4. \A h \in Handles : pc'[h] \notin {"sched", "enqueue", "run"}
    <3>1. SUFFICES ASSUME NEW h \in Handles, h # a, pc[h] \in {"sched", "enqueue", "run"}
                   PROVE  FALSE
      BY <2>1 DEF TypeOK
    <3>2. pc[Task] = "none"
      BY <3>1 DEF OneScheduler
    <3>3. a \in Handles
      BY <2>1, <3>2
    <3> QED
      BY <2>1, <3>1, <3>3 DEF OneScheduler, Scheduling, GuardPlaces
  <2>5. pc'[Task] # "run"
    <3>1. CASE a = Task
      BY <2>1, <3>1 DEF TypeOK
    <3>2. CASE a # Task
      <4>1. pc[Task] = "none"
        BY <2>1, <3>2 DEF OneScheduler
      <4> QED
        BY <2>1, <3>2, <4>1 DEF TypeOK
    <3> QED
      BY <3>1, <3>2
  <2> QED
    BY <2>1, <2>2, <2>3, <2>4, <2>5 DEF CallOwed
<1>2. CASE ~ \E a \in Actors : Invoke(a)
  <2>1. delivered' = delivered
    BY <1>2, DeliveredUnchanged
  <2>3. state_ = "Done" => state_' = "Done"
    <3>1. ASSUME NEW h \in Handles, CasHalf(h) \/ CasDone(h)
          PROVE  state_ = "Done" => state_' = "Done"
      BY <3>1 DEF CasHalf, CasDone
    <3> QED
      BY <3>1, StateUnchanged
  <2>4. CASE delivered = <<>>
    BY <2>1, <2>4 DEF CallOwed, CalledAtMostOnce
  <2>5. CASE delivered # <<>>
    <3>1. /\ state_ = "Done" /\ pc[Task] # "run"
          /\ \A h \in Handles : pc[h] \notin {"sched", "enqueue", "run"}
      BY <2>5 DEF CallOwed
    <3>2. state_' = "Done"
      BY <2>3, <3>1
    <3>3. NoCaller'
      BY <3>1, NoCallerStep DEF NoCaller
    <3> QED
      BY <2>1, <3>2, <3>3 DEF CallOwed, CalledAtMostOnce, NoCaller
  <2> QED
    BY <2>4, <2>5
<1> QED
  BY <1>1, <1>2

-----------------------------------------------------------------------------
(* The inductive invariant and what follows from it.                        *)
LEMMA IndInvInit == Init => IndInv
<1> SUFFICES ASSUME NEW p0 \in Promises, Init!(p0) PROVE IndInv
  BY DEF Init
<1>1. TypeOK
  BY TypeInit DEF Init
<1>2. /\ Refs = {p0} /\ Guards = {} /\ Enqueuing = {} /\ LiveGuards = {}
      /\ PromiseRefs = {p0}
  BY ActorsAssumption DEF Refs, Guards, Enqueuing, LiveGuards, PromiseRefs, GuardPlaces
<1>3. Cardinality({p0}) = 1 /\ Cardinality({}) = 0
  BY FS_EmptySet, FS_Singleton
<1>4. RefCountExact /\ DeletedAtZero
  BY <1>2, <1>3 DEF RefCountExact, DeletedAtZero
<1>5. PlacesOK
  BY ActorsAssumption DEF PlacesOK
<1>6. CasOK /\ OneScheduler
  BY ActorsAssumption DEF CasOK, OneScheduler, Scheduling, GuardPlaces
<1>7. CallOwed /\ CalledAtMostOnce
  BY DEF CallOwed, CalledAtMostOnce
<1> QED
  BY <1>1, <1>4, <1>5, <1>6, <1>7 DEF IndInv

LEMMA IndInvStep == IndInv /\ [Next]_vars => IndInv'
<1> SUFFICES ASSUME IndInv, [Next]_vars PROVE IndInv'
  OBVIOUS
<1>1. CASE fault = "none" /\ Step
  <2>1. TypeOK'
    BY TypeStep DEF IndInv
  <2>2. PlacesOK'
    BY <1>1, PlacesStep DEF IndInv
  <2>3. CasOK'
    BY <1>1, CasStep DEF IndInv
  <2>4. OneScheduler'
    BY <1>1, OneSchedulerStep DEF IndInv
  <2>5. CallOwed' /\ CalledAtMostOnce'
    BY <1>1, CalledOnceStep DEF IndInv
  <2>6. RefCountExact' /\ DeletedAtZero'
    BY <1>1, CountsStep DEF IndInv
  <2> QED
    BY <2>1, <2>2, <2>3, <2>4, <2>5, <2>6 DEF IndInv
<1>2. CASE UNCHANGED vars
  BY <1>2
     DEF IndInv, TypeOK, PlacesOK, CasOK, OneScheduler, CallOwed, RefCountExact,
         DeletedAtZero, CalledAtMostOnce, Refs, Guards, Enqueuing, LiveGuards, PromiseRefs,
         vars, counts, content, config, local
<1> QED
  BY <1>1, <1>2 DEF Next, Terminated

THEOREM Inductive == Spec => []IndInv
BY IndInvInit, IndInvStep, PTL DEF Spec

\* attached_, continuation_ref_ and promise_ref_ count exactly the handles, guards
\* and promises that exist, for any number of handles a byte can count.
THEOREM ReferenceCountsAreExact == Spec => []RefCountExact
<1>1. IndInv => RefCountExact
  BY DEF IndInv
<1> QED
  BY <1>1, Inductive, PTL

\* delete this runs only when no handle, guard or closure refers to the object.
THEOREM NeverUsedAfterFree == Spec => []NoUseAfterFree
<1>1. IndInv => NoUseAfterFree
  <2>1. SUFFICES ASSUME IndInv, deleted PROVE Refs = {} /\ Guards = {}
    BY DEF NoUseAfterFree
  <2>2. Cardinality(Refs) + Cardinality(Guards) + Cardinality(Enqueuing) = 0
    BY <2>1 DEF IndInv, RefCountExact, DeletedAtZero
  <2>3. Cardinality(Refs) = 0 /\ Cardinality(Guards) = 0
    BY <2>2, CountedSetsFinite
  <2> QED
    BY <2>3, FS_EmptySet, CountedSetsFinite
<1> QED
  BY <1>1, Inductive, PTL

\* However many threads race to set results and continuations, the continuation is
\* handed out once.
THEOREM ContinuationCalledAtMostOnce == Spec => []CalledAtMostOnce
<1>1. IndInv => CalledAtMostOnce
  BY DEF IndInv
<1> QED
  BY <1>1, Inductive, PTL

-----------------------------------------------------------------------------
(* No leak, for clients that neither Wait nor move-assign over a handle.    *)
NoOrphan ==
    /\ \A h \in Handles : pc[h] \notin {"orphan", "w_exec", "w_sem"}
    /\ \A a \in Actors : ret[a] # "w_sem"

LEMMA NoOrphanStep ==
    ASSUME Waiters = {}, MoveAssigned = {}, TypeOK, PlacesOK, NoOrphan, Step
    PROVE  NoOrphan'
<1> USE ActorsAssumption DEF At, Goto, TypeOK, PlacesOK, NoOrphan
<1>1. ASSUME NEW p \in Promises, PromiseCall(p) PROVE NoOrphan'
  BY <1>1
     DEF PromiseCall, ForceScheduled, Checkout, SetValue, CopyPromise, GetFuture,
         DestroyPromise, local
<1>2. ASSUME NEW p \in Promises, PromiseStep(p) PROVE NoOrphan'
  BY <1>2
     DEF PromiseStep, DetachPromiseCheck, DetachPromiseDetach, SetResultCheck, SetResultStore,
         Throw
<1>3. ASSUME NEW f \in Futures, FutureCall(f) PROVE NoOrphan'
  BY <1>3 DEF FutureCall, SetExecutor, SetContinuation, Wait, DestroyFuture, local
<1>4. ASSUME NEW f \in Futures, FutureStep(f) PROVE NoOrphan'
  BY <1>4
     DEF FutureStep, WaitSetExecutor, WaitReturn, SetContinuationCheck, SetContinuationStore,
         Throw
<1>5. ASSUME NEW h \in Handles, MoveAssign(h) PROVE NoOrphan'
  BY <1>5 DEF MoveAssign
<1>6. ASSUME NEW h \in Handles, TransferStep(h) PROVE NoOrphan'
  BY <1>6
     DEF TransferStep, LoadState, CasHalf, AssertOtherHalf, CasDone, ScheduleContinuation,
         EnqueueAccepted, EnqueueRefused, Throw
<1>7. ASSUME NEW a \in Actors, GuardStep(a) PROVE NoOrphan'
  BY <1>7 DEF GuardStep, Invoke, DerefContinuation, DetachGuard
<1>8. ASSUME NEW f \in Futures, TakeResult(f) PROVE NoOrphan'
  BY <1>8 DEF TakeResult
<1> QED
  BY <1>1, <1>2, <1>3, <1>4, <1>5, <1>6, <1>7, <1>8 DEF Step

\* When the last reference goes the object goes with it: no FutureState is leaked
\* by a client that neither calls Wait nor move-assigns over a live handle.
THEOREM NothingLeaks ==
    ASSUME Waiters = {}, MoveAssigned = {}
    PROVE  Spec => []FreedWhenUnreferenced
<1>1. Init => NoOrphan
  BY ActorsAssumption DEF Init, NoOrphan
<1>2. IndInv /\ NoOrphan /\ [Next]_vars => NoOrphan'
  <2>1. ASSUME IndInv, NoOrphan, Step PROVE NoOrphan'
    BY <2>1, NoOrphanStep DEF IndInv
  <2>2. ASSUME NoOrphan, UNCHANGED vars PROVE NoOrphan'
    BY <2>2 DEF NoOrphan, vars, local
  <2> QED
    BY <2>1, <2>2 DEF Next, Terminated
<1>3. IndInv /\ NoOrphan => FreedWhenUnreferenced
  <2>1. SUFFICES ASSUME IndInv, NoOrphan,
                        \A h \in Handles : pc[h] \in {"unborn", "dead", "orphan"},
                        pc[Task] \in {"none", "done"}
                 PROVE  deleted
    BY DEF FreedWhenUnreferenced
  <2>2. Refs = {} /\ Guards = {} /\ Enqueuing = {}
    BY <2>1 DEF Refs, Guards, Enqueuing, GuardPlaces, NoOrphan
  <2>3. attached_ = 0
    BY <2>1, <2>2, FS_EmptySet DEF IndInv, RefCountExact
  <2> QED
    BY <2>1, <2>3 DEF IndInv, DeletedAtZero
<1> QED
  BY <1>1, <1>2, <1>3, Inductive, PTL DEF Spec

-----------------------------------------------------------------------------
(* One setter and one continuer, the rule of promise.hpp and future.hpp: the *)
(* contents of the object, and what users see of it.                         *)

\* The places of SetResult and SetContinuation: up to the compare-exchange that
\* publishes, after their check, and after they have stored.
Setting == SetPlaces \ {"sched"}
Storing == Setting \ {"check"}
Stored  == Storing \ {"store"}

\* SetResult runs in one promise at a time: in the setter, or in the last promise,
\* which is destroyed without a result, and then it stores Broken.
ProducerOK ==
    /\ \A p \in Promises : pc[p] \in Setting /\ ret[p] = "idle" =>
          p \in Setters /\ arg[p] \in Values
    /\ \A p \in Promises : pc[p] \in Setting /\ ret[p] = "dp_detach" =>
          arg[p] = Broken /\ ~HasResult
    /\ \A p \in Promises : pc[p] \in Setting \union {"dp_check"} /\ ret[p] = "dp_detach" =>
          promise_ref_ = 0
    /\ \A p, q \in Promises :
          {pc[p], pc[q]} \subseteq Setting \union {"dp_check"} => p = q
    /\ \A p \in Promises : pc[p] \in Storing => ~HasResult
    /\ \A p \in Promises : pc[p] \in Stored => try_value_ = arg[p]

\* SetContinuation runs in the continuer, which may wait instead.
ConsumerOK ==
    /\ \A f \in Futures : pc[f] \in Setting \union {"w_exec"} => f \in Continuers \union Waiters
    /\ \A f \in Futures : pc[f] \in Storing => ~HasContinuation
    /\ \A f \in Futures : pc[f] \in Stored => continuation_ = f

\* The continuation behind state_, and what the call was made on.
ContentOK ==
    /\ HasContinuation => continuation_ # Nothing
    /\ continuation_ = Destroyed => delivered # <<>>
    /\ delivered # <<>> => delivered[1][1] \in Futures
    /\ delivered # <<>> /\ continuation_ # Destroyed => delivered[1][1] = continuation_
    /\ \A h \in Handles : pc[h] = "casdone" => state_ # "Start"

\* Whoever drops the last guard knows that the call was made.
GuardsOK ==
    /\ \A h \in Handles : pc[h] = "deref" => delivered # <<>> \/ pc[Task] = "run"
    /\ pc[Task] = "deref" => delivered # <<>>

HandOff == ProducerOK /\ ConsumerOK /\ ContentOK /\ GuardsOK

\* What the call was made with, unless another future took the result before it.
DeliversPublished == delivered # <<>> => delivered[1][2] = published

\* The client's part: one promise is set, one future continued or waited for, and no
\* other future of a copied promise takes the result that the continuation is to get.
OneSetter    == \A p, q \in Setters : p = q
OneContinuer == \A f, g \in Continuers \union Waiters : f = g
NobodyTakes  == Takers = {}

-----------------------------------------------------------------------------
LEMMA HandOffInit == Init => HandOff
<1> SUFFICES ASSUME NEW p0 \in Promises, Init!(p0) PROVE HandOff
  BY DEF Init
<1>1. \A h \in Handles : pc[h] \in {"idle", "unborn"}
  BY ActorsAssumption
<1>2. pc[Task] = "none"
  BY ActorsAssumption
<1>3. \A x \in Setting \union {"dp_check", "w_exec"} : x \notin {"idle", "unborn"}
  BY DEF Setting, SetPlaces
<1>4. ProducerOK
  BY <1>1, <1>3 DEF ProducerOK, Storing, Stored
<1>5. ConsumerOK
  BY <1>1, <1>3 DEF ConsumerOK, Storing, Stored
<1>6. ContentOK /\ GuardsOK
  BY <1>1, <1>2, ValuesAssumption DEF ContentOK, GuardsOK, HasResult, HasContinuation
<1> QED
  BY <1>4, <1>5, <1>6 DEF HandOff

-----------------------------------------------------------------------------
(* SetResult, in the promises.                                              *)
LEMMA ProducerFrame ==
    ASSUME ProducerOK,
           \A p \in Promises : pc'[p] \in Setting \union {"dp_check"} =>
              pc'[p] = pc[p] /\ ret'[p] = ret[p] /\ arg'[p] = arg[p],
           HasResult' <=> HasResult, HasResult \/ try_value_' = try_value_,
           promise_ref_ = 0 => promise_ref_' = 0
    PROVE  ProducerOK'
<1>1. Storing \subseteq Setting /\ Stored \subseteq Storing
  BY DEF Storing, Stored
<1> HIDE DEF Setting, Storing, Stored
<1>2. \A p, q \in Promises : {pc'[p], pc'[q]} \subseteq Setting \union {"dp_check"} => p = q
  BY DEF ProducerOK
<1>3. \A p \in Promises : pc'[p] \in Stored => try_value_' = arg'[p]
  BY <1>1 DEF ProducerOK
<1>4. \A p \in Promises : pc'[p] \in Storing => ~HasResult'
  BY <1>1 DEF ProducerOK
<1> QED
  BY <1>1, <1>2, <1>3, <1>4 DEF ProducerOK

\* The one promise that is inside SetResult, or about to enter it, goes on there.
LEMMA ProducerMoves ==
    ASSUME TypeOK, ProducerOK, NEW p \in Promises, NEW x \in Setting,
           pc[p] \in Setting \union {"dp_check"}, pc' = [pc EXCEPT ![p] = x],
           UNCHANGED <<ret, promise_ref_>>, HasResult' <=> HasResult,
           ret[p] = "idle" => p \in Setters /\ arg'[p] \in Values,
           ret[p] = "dp_detach" => arg'[p] = Broken /\ ~HasResult,
           x \in Storing => ~HasResult,
           x \in Stored => try_value_' = arg'[p]
    PROVE  ProducerOK'
<1>1. Storing \subseteq Setting /\ Stored \subseteq Setting
  BY DEF Storing, Stored
<1>2. \A q \in Promises : pc'[q] = IF q = p THEN x ELSE pc[q]
  BY DEF TypeOK
<1> HIDE DEF Setting, Storing, Stored
<1>3. \A q \in Promises : q # p => pc'[q] \notin Setting \union {"dp_check"}
  BY <1>2 DEF ProducerOK
<1> QED
  BY <1>1, <1>2, <1>3 DEF ProducerOK

\* A promise whose producing end is counted is not in the way of the last one.
LEMMA CountedPromise ==
    ASSUME TypeOK, RefCountExact, NEW p \in Promises,
           pc[p] \notin {"unborn", "dead"}, ret[p] # "dp_detach"
    PROVE  promise_ref_ # 0
<1>1. p \in PromiseRefs
  BY DEF PromiseRefs
<1>2. Cardinality(PromiseRefs) # 0
  BY <1>1, CountedSetsFinite, FS_EmptySet
<1> QED
  BY <1>2 DEF RefCountExact

LEMMA LastPromise ==
    ASSUME TypeOK, RefCountExact, promise_ref_ = 1,
           NEW p \in Promises, NEW q \in Promises,
           pc[p] \notin {"unborn", "dead"}, ret[p] # "dp_detach",
           pc[q] \notin {"unborn", "dead"}, ret[q] # "dp_detach"
    PROVE  p = q
<1>1. p \in PromiseRefs /\ q \in PromiseRefs
  BY DEF PromiseRefs
<1>2. \E x : PromiseRefs = {x}
  BY CountedSetsFinite, FS_Singleton DEF RefCountExact
<1> QED
  BY <1>1, <1>2

\* What a futures' step, or a guard's, leaves alone.
LEMMA ResultKept ==
    ASSUME CasOK, fault = "none", NEW f \in Futures, CasHalf(f) \/ CasDone(f)
    PROVE  (HasResult' <=> HasResult) /\ published' = published
<1>1. f \notin Promises
  BY ActorsAssumption
<1>2. CASE CasHalf(f)
  BY <1>1, <1>2 DEF CasHalf, Half, Publish, HasResult
<1>3. CASE CasDone(f)
  <2>1. expected[f] = "OnlyResult"
    BY <1>1, <1>3 DEF CasOK, CasDone, At, OtherHalf
  <2> QED
    BY <1>1, <1>3, <2>1 DEF CasDone, Publish, HasResult
<1> QED
  BY <1>2, <1>3

LEMMA ContinuationKept ==
    ASSUME CasOK, fault = "none", NEW p \in Promises, CasHalf(p) \/ CasDone(p)
    PROVE  HasContinuation' <=> HasContinuation
<1>1. CASE CasHalf(p)
  BY <1>1 DEF CasHalf, Half, HasContinuation
<1>2. CASE CasDone(p)
  <2>1. expected[p] = "OnlyContinuation"
    BY <1>2 DEF CasOK, CasDone, At, OtherHalf
  <2> QED
    BY <1>2, <2>1 DEF CasDone, HasContinuation
<1> QED
  BY <1>1, <1>2

\* Every step that leaves the state alone, does not store a value, and sends no promise
\* into SetResult.
LEMMA ProducerQuietStep ==
    ASSUME TypeOK, PlacesOK, CasOK, OneScheduler, RefCountExact, ProducerOK, fault = "none",
           \/ \E p \in Promises :
                 \/ \E q \in Promises : CopyPromise(p, q)
                 \/ \E f \in Futures : GetFuture(p, f)
                 \/ ForceScheduled(p) \/ Checkout(p) \/ DetachPromiseDetach(p)
           \/ \E f \in Futures : FutureCall(f) \/ FutureStep(f) \/ TakeResult(f)
           \/ \E h \in Handles :
                 \/ MoveAssign(h)
                 \/ ScheduleContinuation(h) \/ EnqueueAccepted(h) \/ EnqueueRefused(h)
           \/ \E a \in Actors : GuardStep(a)
    PROVE  ProducerOK'
<1> USE ActorsAssumption
<1>0. /\ \A x \in {"idle", "unborn", "dead", "orphan", "run", "enqueue", "deref", "detach",
                   "dp_detach"} : x \notin Setting \union {"dp_check"}
      /\ pc \in [Actors -> Places] /\ ret \in [Actors -> {"idle", "dp_detach", "w_sem", "done"}]
      /\ \A p \in Promises : ret[p] \in {"idle", "dp_detach"}
  BY DEF Setting, SetPlaces, TypeOK, PlacesOK
<1> HIDE DEF Setting
<1>1. ASSUME NEW p \in Promises, NEW q \in Promises, CopyPromise(p, q) PROVE ProducerOK'
  <2>1. promise_ref_ # 0
    BY <1>0, <1>1, CountedPromise DEF CopyPromise, At, PlacesOK
  <2>2. \A r \in Promises : r # q => pc'[r] = pc[r]
    BY <1>0, <1>1 DEF CopyPromise, Goto
  <2>3. pc'[q] = "idle"
    BY <1>0, <1>1 DEF CopyPromise, Goto
  <2>4. UNCHANGED <<ret, arg, state_, try_value_>>
    BY <1>1 DEF CopyPromise, content
  <2> QED
    BY <1>0, <2>1, <2>2, <2>3, <2>4, ProducerFrame DEF HasResult
<1>2. ASSUME NEW p \in Promises, NEW f \in Futures, GetFuture(p, f) PROVE ProducerOK'
  <2>1. \A r \in Promises : pc'[r] = pc[r]
    BY <1>0, <1>2 DEF GetFuture, Goto
  <2>2. UNCHANGED <<ret, arg, state_, try_value_, promise_ref_>>
    BY <1>2 DEF GetFuture, content
  <2> QED
    BY <2>1, <2>2, ProducerFrame DEF HasResult
<1>3. ASSUME NEW p \in Promises, ForceScheduled(p) \/ Checkout(p) PROVE ProducerOK'
  <2>1. UNCHANGED <<pc, ret, arg, state_, try_value_, promise_ref_>>
    BY <1>3 DEF ForceScheduled, Checkout, content, local, counts
  <2> QED
    BY <2>1, ProducerFrame DEF HasResult
<1>4. ASSUME NEW p \in Promises, DetachPromiseDetach(p) PROVE ProducerOK'
  <2>1. /\ \A r \in Promises : r # p => pc'[r] = pc[r]
        /\ pc'[p] = "dead"
    BY <1>0, <1>4 DEF DetachPromiseDetach, Goto
  <2>2. UNCHANGED <<ret, arg, state_, try_value_, promise_ref_>>
    BY <1>4 DEF DetachPromiseDetach, content
  <2> QED
    BY <1>0, <2>1, <2>2, ProducerFrame DEF HasResult
<1>5. ASSUME NEW f \in Futures, FutureCall(f) \/ FutureStep(f) PROVE ProducerOK'
  <2>1. \A r \in Promises : pc'[r] = pc[r] /\ ret'[r] = ret[r]
    BY <1>0, <1>5
       DEF FutureCall, FutureStep, SetExecutor, SetContinuation, Wait, DestroyFuture,
           WaitSetExecutor, WaitReturn, SetContinuationCheck, SetContinuationStore, Throw, Goto,
           local
  <2>2. UNCHANGED <<arg, state_, try_value_, promise_ref_>>
    BY <1>5
       DEF FutureCall, FutureStep, SetExecutor, SetContinuation, Wait, DestroyFuture,
           WaitSetExecutor, WaitReturn, SetContinuationCheck, SetContinuationStore, local,
           content, counts
  <2> QED
    BY <2>1, <2>2, ProducerFrame DEF HasResult
<1>6. ASSUME NEW h \in Handles,
             \/ MoveAssign(h)
             \/ ScheduleContinuation(h) \/ EnqueueAccepted(h) \/ EnqueueRefused(h)
      PROVE  ProducerOK'
  <2>1. \A r \in Promises : r # h => pc'[r] = pc[r]
    BY <1>0, <1>6
       DEF MoveAssign, ScheduleContinuation, EnqueueAccepted, EnqueueRefused, Goto
  <2>2. h \in Promises => pc'[h] \in {"orphan", "run", "enqueue", "deref"}
    BY <1>0, <1>6
       DEF MoveAssign, ScheduleContinuation, EnqueueAccepted, EnqueueRefused, Goto
  <2>3. UNCHANGED <<ret, arg, state_, try_value_, promise_ref_>>
    BY <1>6
       DEF MoveAssign, ScheduleContinuation, EnqueueAccepted, EnqueueRefused, content, counts
  <2> QED
    BY <1>0, <2>1, <2>2, <2>3, ProducerFrame DEF HasResult
<1>7. ASSUME NEW a \in Actors, GuardStep(a) PROVE ProducerOK'
  <2>1. \A r \in Promises : r # a => pc'[r] = pc[r] /\ ret'[r] = ret[r]
    BY <1>0, <1>7 DEF GuardStep, Invoke, DerefContinuation, DetachGuard, Goto
  <2>2. a \in Promises => pc'[a] \in {"deref", "detach", "idle", "dp_detach"}
    BY <1>0, <1>7 DEF GuardStep, Invoke, DerefContinuation, DetachGuard, Goto
  <2>3. UNCHANGED <<arg, state_, promise_ref_>>
    BY <1>7 DEF GuardStep, Invoke, DerefContinuation, DetachGuard, content, counts
  <2>4. HasResult
    <3>1. pc[a] \in {"run", "deref", "detach"}
      BY <1>7 DEF GuardStep, Invoke, DerefContinuation, DetachGuard, At
    <3> QED
      BY <3>1 DEF OneScheduler, Scheduling, GuardPlaces, HasResult
  <2> QED
    BY <1>0, <2>1, <2>2, <2>3, <2>4, ProducerFrame DEF HasResult
<1>8. ASSUME NEW f \in Futures, TakeResult(f) PROVE ProducerOK'
  <2>1. \A r \in Promises : pc'[r] = pc[r]
    BY <1>0, <1>8 DEF TakeResult, Goto
  <2>2. UNCHANGED <<ret, arg, state_, promise_ref_>> /\ HasResult
    BY <1>8 DEF TakeResult, counts
  <2> QED
    BY <2>1, <2>2, ProducerFrame DEF HasResult
<1> QED
  BY <1>1, <1>2, <1>3, <1>4, <1>5, <1>6, <1>7, <1>8

\* The steps of SetResult itself, and those that lead a promise into it.
LEMMA ProducerSetStep ==
    ASSUME OneSetter, TypeOK, PlacesOK, CasOK, RefCountExact, ProducerOK,
           fault = "none", NEW p \in Promises,
           \/ SetValue(p) \/ DestroyPromise(p) \/ DetachPromiseCheck(p)
           \/ SetResultCheck(p) \/ SetResultStore(p)
           \/ LoadState(p) \/ CasHalf(p) \/ AssertOtherHalf(p) \/ CasDone(p)
    PROVE  ProducerOK'
<1> USE ActorsAssumption
<1>0. /\ Setting = {"check", "store", "load", "cas", "assert", "casdone"}
      /\ Storing = {"store", "load", "cas", "assert", "casdone"}
      /\ Stored = {"load", "cas", "assert", "casdone"}
      /\ pc \in [Actors -> Places] /\ ret \in [Actors -> {"idle", "dp_detach", "w_sem", "done"}]
      /\ ret[p] \in {"idle", "dp_detach"}
      /\ arg \in [Promises -> Values \union {Broken, Nothing}]
      /\ \A q \in Promises : ret[q] \in {"idle", "dp_detach"}
  BY DEF Setting, Storing, Stored, SetPlaces, TypeOK, PlacesOK
\* A promise that leaves SetResult, or never entered it.
<1>1. ASSUME NEW x \in {"dp_detach", "idle", "sched"}, pc' = [pc EXCEPT ![p] = x],
             \A q \in Promises : q # p => ret'[q] = ret[q] /\ arg'[q] = arg[q],
             try_value_' = try_value_, promise_ref_ = 0 => promise_ref_' = 0,
             \/ HasResult' <=> HasResult
             \/ pc[p] \in Setting
      PROVE  ProducerOK'
  <2>1. \A q \in Promises : pc'[q] = IF q = p THEN x ELSE pc[q]
    BY <1>0, <1>1
  <2>2. CASE HasResult' <=> HasResult
    BY <1>0, <1>1, <2>1, <2>2, ProducerFrame
  <2>3. CASE pc[p] \in Setting
    <3>1. \A q \in Promises : pc'[q] \notin Setting \union {"dp_check"}
      BY <1>0, <2>1, <2>3 DEF ProducerOK
    <3> QED
      BY <1>0, <3>1 DEF ProducerOK
  <2> QED
    BY <1>1, <2>2, <2>3
<1>2. CASE SetValue(p)
  <2>1. /\ pc[p] = "idle" /\ p \in Setters /\ pc' = [pc EXCEPT ![p] = "check"]
        /\ arg'[p] \in Values /\ \A q \in Promises : q # p => arg'[q] = arg[q]
        /\ UNCHANGED <<ret, state_, try_value_, promise_ref_>>
    BY <1>0, <1>2 DEF SetValue, At, Goto, counts, content
  <2>2. ret[p] = "idle"
    BY <2>1 DEF PlacesOK
  <2>3. promise_ref_ # 0
    BY <2>1, <2>2, CountedPromise
  <2>4. \A q \in Promises : pc[q] \notin Setting \union {"dp_check"}
    <3>1. \A q \in Promises : pc[q] \in Setting => ret[q] = "dp_detach" \/ q = p
      BY <1>0, <2>1 DEF OneSetter, ProducerOK
    <3>2. \A q \in Promises : pc[q] = "dp_check" => ret[q] = "dp_detach"
      BY DEF PlacesOK
    <3> QED
      BY <1>0, <2>1, <2>3, <3>1, <3>2 DEF ProducerOK
  <2>5. \A q \in Promises : pc'[q] = IF q = p THEN "check" ELSE pc[q]
    BY <1>0, <2>1
  <2> QED
    BY <1>0, <2>1, <2>2, <2>4, <2>5 DEF ProducerOK, HasResult
<1>3. CASE DestroyPromise(p)
  <2>1. /\ pc[p] = "idle" /\ ret' = [ret EXCEPT ![p] = "dp_detach"]
        /\ UNCHANGED <<arg, state_, try_value_>>
    BY <1>3 DEF DestroyPromise, At, content
  <2>2. ret[p] = "idle"
    BY <2>1 DEF PlacesOK
  <2>3. promise_ref_ # 0
    BY <2>1, <2>2, CountedPromise
  <2>4. promise_ref_' = promise_ref_ - 1
    BY <1>3, <2>3 DEF DestroyPromise
  <2>5. \A q \in Promises : ret'[q] = IF q = p THEN "dp_detach" ELSE ret[q]
    BY <1>0, <2>1
  <2>6. CASE promise_ref_ # 1
    <3>1. pc' = [pc EXCEPT ![p] = "dp_detach"]
      BY <1>3, <2>6 DEF DestroyPromise, Goto
    <3> QED
      BY <1>1, <2>1, <2>3, <2>5, <3>1 DEF HasResult
  <2>7. CASE promise_ref_ = 1
    <3>1. pc' = [pc EXCEPT ![p] = "dp_check"] /\ promise_ref_' = 0
      BY <1>3, <2>4, <2>7 DEF DestroyPromise, Goto
    <3>2. \A q \in Promises : pc'[q] = IF q = p THEN "dp_check" ELSE pc[q]
      BY <1>0, <3>1
    <3>3. \A q \in Promises : pc[q] \in Setting \union {"dp_check"} => ret[q] # "dp_detach"
      BY <2>3 DEF ProducerOK
    <3>4. \A q \in Promises : pc[q] \notin Setting \union {"dp_check"}
      BY <1>0, <2>1, <2>2, <2>7, <3>3, LastPromise
    <3> QED
      BY <1>0, <2>1, <2>5, <3>1, <3>2, <3>4 DEF ProducerOK, HasResult
  <2> QED
    BY <2>6, <2>7
<1>4. CASE DetachPromiseCheck(p)
  <2>1. /\ pc[p] = "dp_check" /\ arg' = [arg EXCEPT ![p] = Broken]
        /\ UNCHANGED <<ret, state_, try_value_, promise_ref_>>
        /\ pc' = [pc EXCEPT ![p] = IF HasResult THEN "dp_detach" ELSE "check"]
    BY <1>4 DEF DetachPromiseCheck, At, Goto, counts, content
  <2>2. ret[p] = "dp_detach"
    BY <2>1 DEF PlacesOK
  <2>3. /\ arg'[p] = Broken
        /\ \A q \in Promises : q # p => arg'[q] = arg[q]
    BY <1>0, <2>1
  <2>4. CASE HasResult
    BY <1>1, <2>1, <2>3, <2>4 DEF HasResult
  <2>5. CASE ~HasResult
    BY <1>0, <2>1, <2>2, <2>3, <2>5, ProducerMoves DEF HasResult
  <2> QED
    BY <2>4, <2>5
<1>5. CASE SetResultCheck(p)
  <2>1. /\ pc[p] = "check"
        /\ UNCHANGED <<arg, state_, try_value_, promise_ref_>>
    BY <1>5 DEF SetResultCheck, At, counts, content
  <2>2. CASE HasResult
    <3>1. ret[p] = "idle"
      BY <1>0, <2>1, <2>2 DEF ProducerOK
    <3>2. pc' = [pc EXCEPT ![p] = "idle"] /\ ret' = [ret EXCEPT ![p] = "idle"]
      BY <1>5, <2>2, <3>1 DEF SetResultCheck, Throw, Goto
    <3> QED
      BY <1>0, <1>1, <2>1, <3>2 DEF HasResult
  <2>3. CASE ~HasResult
    <3>1. pc' = [pc EXCEPT ![p] = "store"] /\ ret' = ret
      BY <1>5, <2>3 DEF SetResultCheck, Goto
    <3> QED
      BY <1>0, <2>1, <2>3, <3>1, ProducerMoves DEF HasResult, ProducerOK
  <2> QED
    BY <2>2, <2>3
<1>6. CASE SetResultStore(p)
  <2>1. /\ pc[p] = "store" /\ pc' = [pc EXCEPT ![p] = "load"] /\ try_value_' = arg[p]
        /\ UNCHANGED <<ret, arg, state_, promise_ref_>>
    BY <1>6 DEF SetResultStore, At, Goto, counts
  <2> QED
    BY <1>0, <2>1, ProducerMoves DEF HasResult, ProducerOK
\* From here on the promise has stored, and nobody has published.
<1>7. ASSUME pc[p] \in Stored
      PROVE  /\ ~HasResult /\ try_value_ = arg[p]
             /\ ret[p] = "idle" => p \in Setters /\ arg[p] \in Values
             /\ ret[p] = "dp_detach" => arg[p] = Broken
             /\ state_ \in {"Start", "OnlyContinuation"}
  BY <1>0, <1>7 DEF ProducerOK, HasResult, TypeOK, States
<1>8. ASSUME NEW x \in Stored, pc[p] \in Stored, pc' = [pc EXCEPT ![p] = x],
             UNCHANGED <<ret, arg, state_, try_value_, promise_ref_>>
      PROVE  ProducerOK'
  BY <1>0, <1>7, <1>8, ProducerMoves DEF HasResult
<1>9. CASE LoadState(p)
  <2>1. pc[p] = "load" /\ UNCHANGED <<arg, state_, try_value_, promise_ref_>>
    BY <1>9 DEF LoadState, At, counts, content
  <2>2. ret' = ret /\ pc' = [pc EXCEPT ![p] = IF state_ = "Start" THEN "cas" ELSE "casdone"]
    BY <1>0, <1>7, <1>9, <2>1 DEF LoadState, Goto, OtherHalf
  <2> QED
    BY <1>0, <1>8, <2>1, <2>2
<1>10. CASE CasHalf(p)
  <2>1. pc[p] = "cas" /\ UNCHANGED <<arg, try_value_, promise_ref_>>
    BY <1>10 DEF CasHalf, At, counts
  <2>2. CASE state_ = "Start"
    <3>1. /\ pc' = [pc EXCEPT ![p] = ret[p]]
          /\ ret' = [ret EXCEPT ![p] = IF @ = "dp_detach" THEN @ ELSE "idle"]
      BY <1>10, <2>2 DEF CasHalf, Goto
    <3> QED
      BY <1>0, <1>1, <2>1, <3>1
  <2>3. CASE state_ # "Start"
    BY <1>0, <1>8, <1>10, <2>1, <2>3 DEF CasHalf, Goto
  <2> QED
    BY <2>2, <2>3
<1>11. CASE AssertOtherHalf(p)
  <2>1. /\ pc[p] = "assert" /\ pc' = [pc EXCEPT ![p] = "casdone"]
        /\ UNCHANGED <<ret, arg, state_, try_value_, promise_ref_>>
    BY <1>11 DEF AssertOtherHalf, At, Goto, counts, content
  <2> QED
    BY <1>0, <1>8, <2>1
<1>12. CASE CasDone(p)
  <2>1. /\ pc[p] = "casdone" /\ UNCHANGED <<arg, try_value_, promise_ref_>>
    BY <1>12 DEF CasDone, At, counts
  <2>2. CASE state_ = expected[p]
    <3>1. pc' = [pc EXCEPT ![p] = "sched"] /\ ret' = ret
      BY <1>12, <2>2 DEF CasDone, Goto
    <3> QED
      BY <1>0, <1>1, <2>1, <3>1
  <2>3. CASE state_ # expected[p]
    <3>1. Throw(p) /\ state_' = state_
      BY <1>12, <2>3 DEF CasDone
    <3>2. CASE ret[p] = "dp_detach"
      <4>1. UNCHANGED <<pc, ret>>
        BY <3>1, <3>2 DEF Throw
      <4> QED
        BY <2>1, <3>1, <4>1, ProducerFrame DEF HasResult
    <3>3. CASE ret[p] # "dp_detach"
      <4>1. pc' = [pc EXCEPT ![p] = "idle"] /\ ret' = [ret EXCEPT ![p] = "idle"]
        BY <3>1, <3>3 DEF Throw, Goto
      <4> QED
        BY <1>0, <1>1, <2>1, <3>1, <4>1 DEF HasResult
    <3> QED
      BY <3>2, <3>3
  <2> QED
    BY <2>2, <2>3
<1> QED
  BY <1>2, <1>3, <1>4, <1>5, <1>6, <1>9, <1>10, <1>11, <1>12

LEMMA ProducerStep ==
    ASSUME OneSetter, TypeOK, PlacesOK, CasOK, OneScheduler, RefCountExact, ProducerOK,
           fault = "none", Step
    PROVE  ProducerOK'
<1> USE ActorsAssumption
<1>1. ASSUME NEW f \in Futures,
             LoadState(f) \/ CasHalf(f) \/ AssertOtherHalf(f) \/ CasDone(f)
      PROVE  ProducerOK'
  <2>1. pc \in [Actors -> Places] /\ ret \in [Actors -> {"idle", "dp_detach", "w_sem", "done"}]
    BY DEF TypeOK
  <2>2. \A r \in Promises : pc'[r] = pc[r] /\ ret'[r] = ret[r]
    BY <1>1, <2>1 DEF LoadState, CasHalf, AssertOtherHalf, CasDone, Throw, Goto
  <2>3. UNCHANGED <<arg, try_value_, promise_ref_>>
    BY <1>1 DEF LoadState, CasHalf, AssertOtherHalf, CasDone, counts, content
  <2>4. HasResult' <=> HasResult
    <3>1. CASE LoadState(f) \/ AssertOtherHalf(f)
      BY <3>1 DEF LoadState, AssertOtherHalf, content, HasResult
    <3> QED
      BY <1>1, <3>1, ResultKept
  <2> QED
    BY <2>2, <2>3, <2>4, ProducerFrame
<1>2. ASSUME NEW p \in Promises, PromiseCall(p) \/ PromiseStep(p) PROVE ProducerOK'
  BY <1>2, ProducerQuietStep, ProducerSetStep DEF PromiseCall, PromiseStep
<1>3. ASSUME NEW h \in Handles, TransferStep(h) PROVE ProducerOK'
  BY <1>1, <1>3, ProducerQuietStep, ProducerSetStep DEF TransferStep
<1> QED
  BY <1>2, <1>3, ProducerQuietStep DEF Step

-----------------------------------------------------------------------------
(* SetContinuation, in the futures.                                         *)
LEMMA ConsumerFrame ==
    ASSUME ConsumerOK,
           \A f \in Futures : pc'[f] \in Setting \union {"w_exec"} => pc'[f] = pc[f],
           HasContinuation' <=> HasContinuation,
           \A f \in Futures : pc[f] \in Stored => continuation_' = continuation_
    PROVE  ConsumerOK'
<1>1. Storing \subseteq Setting /\ Stored \subseteq Setting
  BY DEF Storing, Stored
<1> HIDE DEF Setting, Storing, Stored
<1> QED
  BY <1>1 DEF ConsumerOK

LEMMA ConsumerMoves ==
    ASSUME OneContinuer, TypeOK, ConsumerOK,
           NEW f \in Futures, f \in Continuers \union Waiters, NEW x,
           pc' = [pc EXCEPT ![f] = x],
           HasContinuation' <=> HasContinuation,
           x \in Storing => ~HasContinuation,
           x \in Stored => continuation_' = f
    PROVE  ConsumerOK'
<1>1. Storing \subseteq Setting /\ Stored \subseteq Setting
  BY DEF Storing, Stored
<1>2. \A g \in Futures : pc'[g] = IF g = f THEN x ELSE pc[g]
  BY DEF TypeOK
<1> HIDE DEF Setting, Storing, Stored
<1>3. \A g \in Futures : g # f => pc'[g] \notin Setting \union {"w_exec"}
  BY <1>2 DEF ConsumerOK, OneContinuer
<1> QED
  BY <1>1, <1>2, <1>3 DEF ConsumerOK

\* Every step that leaves the state alone and sends no future into SetContinuation.
LEMMA ConsumerQuietStep ==
    ASSUME TypeOK, PlacesOK, CasOK, OneScheduler, ConsumerOK, fault = "none",
           \/ \E p \in Promises :
                 \/ PromiseCall(p) \/ PromiseStep(p)
                 \/ LoadState(p) \/ CasHalf(p) \/ AssertOtherHalf(p) \/ CasDone(p)
           \/ \E f \in Futures :
                 SetExecutor(f) \/ DestroyFuture(f) \/ WaitReturn(f) \/ TakeResult(f)
           \/ \E h \in Handles :
                 \/ MoveAssign(h)
                 \/ ScheduleContinuation(h) \/ EnqueueAccepted(h) \/ EnqueueRefused(h)
           \/ \E a \in Actors : GuardStep(a)
    PROVE  ConsumerOK'
<1> USE ActorsAssumption
<1>0. /\ \A x \in {"idle", "unborn", "dead", "taken", "orphan", "run", "enqueue", "deref",
                   "detach", "w_sem"} : x \notin Setting \union {"w_exec"}
      /\ pc \in [Actors -> Places] /\ ret \in [Actors -> {"idle", "dp_detach", "w_sem", "done"}]
      /\ \A f \in Futures : ret[f] \in {"idle", "w_sem"}
  BY DEF Setting, SetPlaces, TypeOK, PlacesOK
<1> HIDE DEF Setting
<1>1. ASSUME NEW p \in Promises,
             \/ PromiseCall(p) \/ PromiseStep(p)
             \/ LoadState(p) \/ CasHalf(p) \/ AssertOtherHalf(p) \/ CasDone(p)
      PROVE  ConsumerOK'
  <2>1. \A g \in Futures : pc'[g] \in {pc[g], "idle"}
    <3>1. CASE PromiseCall(p)
      BY <1>0, <3>1
         DEF PromiseCall, CopyPromise, GetFuture, ForceScheduled, Checkout, SetValue,
             DestroyPromise, Goto, local
    <3>2. CASE PromiseStep(p)
      BY <1>0, <3>2
         DEF PromiseStep, DetachPromiseCheck, DetachPromiseDetach, SetResultCheck,
             SetResultStore, Throw, Goto
    <3>3. CASE LoadState(p) \/ CasHalf(p) \/ AssertOtherHalf(p) \/ CasDone(p)
      BY <1>0, <3>3 DEF LoadState, CasHalf, AssertOtherHalf, CasDone, Throw, Goto
    <3> QED
      BY <1>1, <3>1, <3>2, <3>3
  <2>2. continuation_' = continuation_
    BY <1>1
       DEF PromiseCall, CopyPromise, GetFuture, ForceScheduled, Checkout, SetValue,
           DestroyPromise, PromiseStep, DetachPromiseCheck, DetachPromiseDetach,
           SetResultCheck, SetResultStore, LoadState, CasHalf, AssertOtherHalf, CasDone,
           content
  <2>3. HasContinuation' <=> HasContinuation
    <3>1. CASE \/ PromiseCall(p) \/ PromiseStep(p)
               \/ LoadState(p) \/ AssertOtherHalf(p)
      BY <3>1
         DEF PromiseCall, CopyPromise, GetFuture, ForceScheduled, Checkout, SetValue,
             DestroyPromise, PromiseStep, DetachPromiseCheck, DetachPromiseDetach,
             SetResultCheck, SetResultStore, LoadState, AssertOtherHalf, content,
             HasContinuation
    <3> QED
      BY <1>1, <3>1, ContinuationKept
  <2> QED
    BY <1>0, <2>1, <2>2, <2>3, ConsumerFrame
<1>2. ASSUME NEW f \in Futures,
             SetExecutor(f) \/ DestroyFuture(f) \/ WaitReturn(f) \/ TakeResult(f)
      PROVE  ConsumerOK'
  <2>1. \A g \in Futures : pc'[g] \in {pc[g], "dead", "taken", "orphan"}
    BY <1>0, <1>2 DEF SetExecutor, DestroyFuture, WaitReturn, TakeResult, Goto, local
  <2>2. UNCHANGED <<state_, continuation_>>
    BY <1>2 DEF SetExecutor, DestroyFuture, WaitReturn, TakeResult, content
  <2> QED
    BY <1>0, <2>1, <2>2, ConsumerFrame DEF HasContinuation
<1>3. ASSUME NEW h \in Handles,
             \/ MoveAssign(h)
             \/ ScheduleContinuation(h) \/ EnqueueAccepted(h) \/ EnqueueRefused(h)
      PROVE  ConsumerOK'
  <2>1. \A g \in Futures : pc'[g] \in {pc[g], "orphan", "run", "enqueue", "deref"}
    BY <1>0, <1>3
       DEF MoveAssign, ScheduleContinuation, EnqueueAccepted, EnqueueRefused, Goto
  <2>2. UNCHANGED <<state_, continuation_>>
    BY <1>3
       DEF MoveAssign, ScheduleContinuation, EnqueueAccepted, EnqueueRefused, content
  <2> QED
    BY <1>0, <2>1, <2>2, ConsumerFrame DEF HasContinuation
<1>4. ASSUME NEW a \in Actors, GuardStep(a) PROVE ConsumerOK'
  <2>1. \A g \in Futures : pc'[g] \in {pc[g], "deref", "detach", "idle", "w_sem"}
    BY <1>0, <1>4 DEF GuardStep, Invoke, DerefContinuation, DetachGuard, Goto
  <2>2. state_' = state_
    BY <1>4 DEF GuardStep, Invoke, DerefContinuation, DetachGuard, content
  <2>3. HasContinuation
    <3>1. pc[a] \in {"run", "deref", "detach"}
      BY <1>4 DEF GuardStep, Invoke, DerefContinuation, DetachGuard, At
    <3>2. state_ = "Done"
      BY <3>1 DEF OneScheduler, Scheduling, GuardPlaces
    <3> QED
      BY <3>2 DEF HasContinuation
  <2>4. \A g \in Futures : pc[g] \notin Stored
    BY <2>3 DEF ConsumerOK, Stored
  <2> QED
    BY <1>0, <2>1, <2>2, <2>4, ConsumerFrame DEF HasContinuation
<1> QED
  BY <1>1, <1>2, <1>3, <1>4

LEMMA ConsumerSetStep ==
    ASSUME OneContinuer, TypeOK, PlacesOK, CasOK, ConsumerOK, fault = "none",
           NEW f \in Futures,
           \/ SetContinuation(f) \/ Wait(f) \/ WaitSetExecutor(f)
           \/ SetContinuationCheck(f) \/ SetContinuationStore(f)
           \/ LoadState(f) \/ CasHalf(f) \/ AssertOtherHalf(f) \/ CasDone(f)
    PROVE  ConsumerOK'
<1> USE ActorsAssumption
<1>0. /\ Setting = {"check", "store", "load", "cas", "assert", "casdone"}
      /\ Storing = {"store", "load", "cas", "assert", "casdone"}
      /\ Stored = {"load", "cas", "assert", "casdone"}
      /\ pc \in [Actors -> Places]
      /\ ret[f] \in {"idle", "w_sem"}
  BY DEF Setting, Storing, Stored, SetPlaces, TypeOK, PlacesOK
<1>1. ASSUME NEW x \in {"w_sem", "idle", "sched"}, pc' = [pc EXCEPT ![f] = x],
             continuation_' = continuation_,
             \/ HasContinuation' <=> HasContinuation
             \/ pc[f] \in Setting
      PROVE  ConsumerOK'
  <2>1. \A g \in Futures : pc'[g] = IF g = f THEN x ELSE pc[g]
    BY <1>0, <1>1
  <2>2. CASE HasContinuation' <=> HasContinuation
    BY <1>0, <1>1, <2>1, <2>2, ConsumerFrame
  <2>3. CASE pc[f] \in Setting
    <3>1. \A g \in Futures : pc'[g] \notin Setting \union {"w_exec"}
      BY <1>0, <2>1, <2>3 DEF ConsumerOK, OneContinuer
    <3> QED
      BY <1>0, <3>1 DEF ConsumerOK
  <2> QED
    BY <1>1, <2>2, <2>3
<1>2. CASE SetContinuation(f) \/ Wait(f) \/ WaitSetExecutor(f)
  <2>1. PICK x \in {"check", "w_exec"} : pc' = [pc EXCEPT ![f] = x]
    BY <1>2 DEF SetContinuation, Wait, WaitSetExecutor, Goto
  <2>2. UNCHANGED <<state_, continuation_>>
    BY <1>2 DEF SetContinuation, Wait, WaitSetExecutor, content
  <2>3. f \in Continuers \union Waiters
    BY <1>2 DEF SetContinuation, Wait, WaitSetExecutor, At, ConsumerOK
  <2> QED
    BY <1>0, <2>1, <2>2, <2>3, ConsumerMoves DEF HasContinuation
<1>3. CASE SetContinuationCheck(f)
  <2>1. pc[f] = "check" /\ UNCHANGED <<state_, continuation_>>
    BY <1>3 DEF SetContinuationCheck, At, content
  <2>2. CASE HasContinuation
    <3>1. pc' = [pc EXCEPT ![f] = "idle"]
      BY <1>0, <1>3, <2>2 DEF SetContinuationCheck, Throw, Goto
    <3> QED
      BY <1>1, <2>1, <3>1 DEF HasContinuation
  <2>3. CASE ~HasContinuation
    <3>1. pc' = [pc EXCEPT ![f] = "store"]
      BY <1>3, <2>3 DEF SetContinuationCheck, Goto
    <3> QED
      BY <1>0, <2>1, <2>3, <3>1, ConsumerMoves DEF HasContinuation, ConsumerOK
  <2> QED
    BY <2>2, <2>3
<1>4. CASE SetContinuationStore(f)
  <2>1. /\ pc[f] = "store" /\ pc' = [pc EXCEPT ![f] = "load"] /\ continuation_' = f
        /\ state_' = state_
    BY <1>4 DEF SetContinuationStore, At, Goto
  <2> QED
    BY <1>0, <2>1, ConsumerMoves DEF HasContinuation, ConsumerOK
<1>5. ASSUME NEW x \in Stored, pc[f] \in Stored, pc' = [pc EXCEPT ![f] = x],
             UNCHANGED <<state_, continuation_>>
      PROVE  ConsumerOK'
  BY <1>0, <1>5, ConsumerMoves DEF HasContinuation, ConsumerOK
<1>6. CASE LoadState(f)
  <2>1. pc[f] = "load" /\ UNCHANGED <<state_, continuation_>>
    BY <1>6 DEF LoadState, At, content
  <2>2. PICK x \in {"cas", "casdone", "idle"} : pc' = [pc EXCEPT ![f] = x]
    BY <1>0, <1>6 DEF LoadState, Throw, Goto
  <2> QED
    BY <1>0, <1>1, <1>5, <2>1, <2>2
<1>7. CASE CasHalf(f)
  <2>1. pc[f] = "cas" /\ continuation_' = continuation_
    BY <1>7 DEF CasHalf, At
  <2>2. CASE state_ = "Start"
    <3>1. pc' = [pc EXCEPT ![f] = ret[f]]
      BY <1>7, <2>2 DEF CasHalf, Goto
    <3> QED
      BY <1>0, <1>1, <2>1, <3>1
  <2>3. CASE state_ # "Start"
    BY <1>0, <1>5, <1>7, <2>1, <2>3 DEF CasHalf, Goto
  <2> QED
    BY <2>2, <2>3
<1>8. CASE AssertOtherHalf(f)
  <2>1. /\ pc[f] = "assert" /\ pc' = [pc EXCEPT ![f] = "casdone"]
        /\ UNCHANGED <<state_, continuation_>>
    BY <1>8 DEF AssertOtherHalf, At, Goto, content
  <2> QED
    BY <1>0, <1>5, <2>1
<1>9. CASE CasDone(f)
  <2>1. pc[f] = "casdone" /\ continuation_' = continuation_
    BY <1>9 DEF CasDone, At
  <2>2. PICK x \in {"sched", "idle"} : pc' = [pc EXCEPT ![f] = x]
    BY <1>0, <1>9 DEF CasDone, Throw, Goto
  <2> QED
    BY <1>0, <1>1, <2>1, <2>2
<1> QED
  BY <1>2, <1>3, <1>4, <1>6, <1>7, <1>8, <1>9

LEMMA ConsumerStep ==
    ASSUME OneContinuer, TypeOK, PlacesOK, CasOK, OneScheduler, ConsumerOK,
           fault = "none", Step
    PROVE  ConsumerOK'
<1>1. ASSUME NEW f \in Futures, FutureCall(f) \/ FutureStep(f) PROVE ConsumerOK'
  BY <1>1, ConsumerQuietStep, ConsumerSetStep DEF FutureCall, FutureStep
<1>2. ASSUME NEW h \in Handles, TransferStep(h) PROVE ConsumerOK'
  BY <1>2, ConsumerQuietStep, ConsumerSetStep DEF TransferStep
<1> QED
  BY <1>1, <1>2, ConsumerQuietStep DEF Step

-----------------------------------------------------------------------------
(* The contents, and the guards that keep the continuation alive.           *)

\* A step that neither touches the contents nor sends a handle to its second
\* compare-exchange.
LEMMA ContentFrame ==
    ASSUME ContentOK, UNCHANGED <<state_, continuation_, delivered>>,
           \A h \in Handles : pc'[h] = "casdone" => pc[h] = "casdone"
    PROVE  ContentOK'
BY DEF ContentOK, HasContinuation

LEMMA ContentQuietStep ==
    ASSUME TypeOK, PlacesOK, ContentOK,
           \/ \E p \in Promises :
                 \/ PromiseCall(p) \/ DetachPromiseCheck(p) \/ DetachPromiseDetach(p)
                 \/ SetResultCheck(p)
           \/ \E f \in Futures :
                 \/ FutureCall(f) \/ WaitSetExecutor(f) \/ WaitReturn(f) \/ TakeResult(f)
                 \/ SetContinuationCheck(f)
           \/ \E h \in Handles :
                 \/ MoveAssign(h)
                 \/ ScheduleContinuation(h) \/ EnqueueAccepted(h) \/ EnqueueRefused(h)
           \/ \E a \in Actors : DetachGuard(a)
    PROVE  ContentOK'
<1> USE ActorsAssumption
<1>0. /\ pc \in [Actors -> Places]
      /\ \A a \in Actors : ret[a] \in {"idle", "dp_detach", "w_sem", "done"}
  BY DEF TypeOK
<1>1. ASSUME NEW p \in Promises,
             \/ PromiseCall(p) \/ DetachPromiseCheck(p) \/ DetachPromiseDetach(p)
             \/ SetResultCheck(p)
      PROVE  ContentOK'
  <2>1. UNCHANGED <<state_, continuation_, delivered>>
    BY <1>1
       DEF PromiseCall, CopyPromise, GetFuture, ForceScheduled, Checkout, SetValue,
           DestroyPromise, DetachPromiseCheck, DetachPromiseDetach, SetResultCheck,
           content
  <2>2. \A h \in Handles : pc'[h] = "casdone" => pc[h] = "casdone"
    BY <1>0, <1>1
       DEF PromiseCall, CopyPromise, GetFuture, ForceScheduled, Checkout, SetValue,
           DestroyPromise, DetachPromiseCheck, DetachPromiseDetach, SetResultCheck, Throw,
           Goto, local
  <2> QED
    BY <2>1, <2>2, ContentFrame
<1>2. ASSUME NEW f \in Futures,
             \/ FutureCall(f) \/ WaitSetExecutor(f) \/ WaitReturn(f) \/ TakeResult(f)
             \/ SetContinuationCheck(f)
      PROVE  ContentOK'
  <2>1. UNCHANGED <<state_, continuation_, delivered>>
    BY <1>2
       DEF FutureCall, SetExecutor, SetContinuation, Wait, DestroyFuture, WaitSetExecutor,
           WaitReturn, TakeResult, SetContinuationCheck, content
  <2>2. \A h \in Handles : pc'[h] = "casdone" => pc[h] = "casdone"
    BY <1>0, <1>2
       DEF FutureCall, SetExecutor, SetContinuation, Wait, DestroyFuture, WaitSetExecutor,
           WaitReturn, TakeResult, SetContinuationCheck, Throw, Goto, local
  <2> QED
    BY <2>1, <2>2, ContentFrame
<1>3. ASSUME NEW h \in Handles,
             \/ MoveAssign(h)
             \/ ScheduleContinuation(h) \/ EnqueueAccepted(h) \/ EnqueueRefused(h)
      PROVE  ContentOK'
  <2>1. UNCHANGED <<state_, continuation_, delivered>>
    BY <1>3 DEF MoveAssign, ScheduleContinuation, EnqueueAccepted, EnqueueRefused, content
  <2>2. \A g \in Handles : pc'[g] = "casdone" => pc[g] = "casdone"
    BY <1>0, <1>3
       DEF MoveAssign, ScheduleContinuation, EnqueueAccepted, EnqueueRefused, Goto
  <2> QED
    BY <2>1, <2>2, ContentFrame
<1>4. ASSUME NEW a \in Actors, DetachGuard(a) PROVE ContentOK'
  <2>1. UNCHANGED <<state_, continuation_, delivered>>
    BY <1>4 DEF DetachGuard, content
  <2>2. \A g \in Handles : pc'[g] = "casdone" => pc[g] = "casdone"
    BY <1>0, <1>4 DEF DetachGuard, Goto
  <2> QED
    BY <2>1, <2>2, ContentFrame
<1> QED
  BY <1>1, <1>2, <1>3, <1>4

LEMMA ContentStep ==
    ASSUME TypeOK, PlacesOK, CasOK, OneScheduler, CallOwed, RefCountExact,
           CalledAtMostOnce, ConsumerOK, ContentOK, GuardsOK, fault = "none", Step
    PROVE  ContentOK'
<1> USE ActorsAssumption
<1>0. /\ pc \in [Actors -> Places] /\ state_ \in States
      /\ continuation_ \in Futures \union {Nothing, Destroyed}
      /\ \A x \in {"cas", "casdone"} : x \in Stored /\ x \in Storing
      /\ "store" \in Storing
  BY DEF TypeOK, Setting, SetPlaces, Storing, Stored
<1>1. ASSUME NEW p \in Promises, SetResultStore(p) PROVE ContentOK'
  <2>1. UNCHANGED <<state_, continuation_, delivered>>
    BY <1>1 DEF SetResultStore
  <2>2. \A h \in Handles : pc'[h] = "casdone" => pc[h] = "casdone"
    BY <1>0, <1>1 DEF SetResultStore, Goto
  <2> QED
    BY <2>1, <2>2, ContentFrame
<1>2. ASSUME NEW f \in Futures, SetContinuationStore(f) PROVE ContentOK'
  <2>1. ~HasContinuation
    BY <1>0, <1>2 DEF SetContinuationStore, At, ConsumerOK
  <2>2. delivered = <<>>
    BY <2>1 DEF HasContinuation, CallOwed
  <2>3. continuation_' = f /\ UNCHANGED <<state_, delivered>>
    BY <1>2 DEF SetContinuationStore
  <2>4. \A h \in Handles : pc'[h] = "casdone" => pc[h] = "casdone"
    BY <1>0, <1>2 DEF SetContinuationStore, Goto
  <2>5. f # Destroyed
    BY ValuesAssumption
  <2> QED
    BY <2>1, <2>2, <2>3, <2>4, <2>5 DEF ContentOK, HasContinuation
<1>3. ASSUME NEW h \in Handles, LoadState(h) PROVE ContentOK'
  <2>1. UNCHANGED content
    BY <1>3 DEF LoadState
  <2>2. \A g \in Handles : pc'[g] = "casdone" => pc[g] = "casdone" \/ state_ # "Start"
    BY <1>0, <1>3 DEF LoadState, Throw, Goto
  <2> QED
    BY <2>1, <2>2 DEF ContentOK, content, HasContinuation
<1>4. ASSUME NEW h \in Handles, AssertOtherHalf(h) PROVE ContentOK'
  <2>1. UNCHANGED content /\ state_ # "Start"
    BY <1>4 DEF AssertOtherHalf, At, CasOK
  <2> QED
    BY <2>1 DEF ContentOK, content, HasContinuation
<1>5. ASSUME NEW h \in Handles, CasHalf(h) PROVE ContentOK'
  <2>1. pc[h] = "cas" /\ UNCHANGED <<continuation_, delivered>>
    BY <1>5 DEF CasHalf, At
  <2>2. CASE state_ # "Start"
    <3>1. state_' = state_
      BY <1>5, <2>2 DEF CasHalf
    <3>2. \A g \in Handles : pc'[g] = "casdone" => pc[g] = "casdone"
      BY <1>0, <1>5, <2>2 DEF CasHalf, Goto
    <3> QED
      BY <2>1, <3>1, <3>2, ContentFrame
  <2>3. CASE state_ = "Start"
    <3>1. state_' = Half(h) /\ delivered = <<>>
      BY <1>5, <2>3 DEF CasHalf, CallOwed
    <3>2. CASE h \in Promises
      <4>1. state_' = "OnlyResult"
        BY <3>1, <3>2 DEF Half
      <4> QED
        BY <2>1, <3>1, <4>1 DEF ContentOK, HasContinuation
    <3>3. CASE h \in Futures
      <4>1. state_' = "OnlyContinuation"
        BY <3>1, <3>3 DEF Half
      <4>2. continuation_ # Nothing
        BY <1>0, <2>1, <3>3, ValuesAssumption DEF ConsumerOK
      <4> QED
        BY <2>1, <3>1, <4>1, <4>2 DEF ContentOK
    <3> QED
      BY <3>2, <3>3
  <2> QED
    BY <2>2, <2>3
<1>6. ASSUME NEW h \in Handles, CasDone(h) PROVE ContentOK'
  <2>1. pc[h] = "casdone" /\ UNCHANGED <<continuation_, delivered>>
    BY <1>6 DEF CasDone, At
  <2>2. CASE state_ # expected[h]
    <3>1. state_' = state_ /\ Throw(h)
      BY <1>6, <2>2 DEF CasDone
    <3>2. \A g \in Handles : pc'[g] = "casdone" => pc[g] = "casdone"
      BY <1>0, <3>1 DEF Throw, Goto
    <3> QED
      BY <2>1, <3>1, <3>2, ContentFrame
  <2>3. CASE state_ = expected[h]
    <3>1. state_' = "Done"
      BY <1>6, <2>3 DEF CasDone
    <3>2. state_ = OtherHalf(h)
      BY <2>1, <2>3 DEF CasOK
    <3>3. delivered = <<>>
      BY <3>2 DEF CallOwed, OtherHalf
    <3>4. continuation_ # Nothing
      <4>1. CASE h \in Promises
        BY <3>2, <4>1 DEF OtherHalf, ContentOK, HasContinuation
      <4>2. CASE h \in Futures
        BY <1>0, <2>1, <4>2, ValuesAssumption DEF ConsumerOK
      <4> QED
        BY <4>1, <4>2
    <3> QED
      BY <2>1, <3>1, <3>3, <3>4 DEF ContentOK
  <2> QED
    BY <2>2, <2>3
<1>7. ASSUME NEW a \in Actors, Invoke(a) PROVE ContentOK'
  <2>1. /\ pc[a] = "run" /\ delivered' = Append(delivered, <<continuation_, try_value_>>)
        /\ UNCHANGED <<state_, continuation_>>
    BY <1>7 DEF Invoke, At
  <2>2. state_ = "Done" /\ delivered = <<>>
    BY <2>1 DEF OneScheduler, Scheduling, GuardPlaces, CallOwed
  <2>3. continuation_ \in Futures
    BY <1>0, <2>2 DEF ContentOK, HasContinuation
  <2>4. delivered' = <<<<continuation_, try_value_>>>>
    BY <2>1, <2>2
  <2>5. \A g \in Handles : pc'[g] = "casdone" => pc[g] = "casdone"
    BY <1>0, <1>7 DEF Invoke, Goto
  <2> QED
    BY <2>1, <2>2, <2>3, <2>4, <2>5 DEF ContentOK, HasContinuation
<1>8. ASSUME NEW a \in Actors, DerefContinuation(a) PROVE ContentOK'
  <2>1. /\ pc[a] = "deref"
        /\ continuation_' = IF continuation_ref_ = 1 THEN Destroyed ELSE continuation_
        /\ UNCHANGED <<state_, delivered>>
    BY <1>8 DEF DerefContinuation, At
  <2>2. continuation_ref_ = 1 => delivered # <<>>
    <3>1. CASE delivered = <<>>
      <4>1. a \in Handles /\ pc[Task] = "run"
        BY <2>1, <3>1 DEF GuardsOK
      <4>2. a \in LiveGuards /\ Task \in LiveGuards /\ a # Task
        BY <2>1, <4>1 DEF LiveGuards, GuardPlaces
      <4>3. Cardinality(LiveGuards) # 1
        BY <4>2, CountedSetsFinite, FS_Singleton
      <4>4. Cardinality(LiveGuards) # 0
        BY <4>2, CountedSetsFinite, FS_EmptySet
      <4>5. /\ continuation_ref_ = Cardinality(LiveGuards) + Cardinality(Enqueuing)
            /\ Cardinality(LiveGuards) \in Nat /\ Cardinality(Enqueuing) \in Nat
        BY CountedSetsFinite DEF RefCountExact
      <4> QED
        BY <4>3, <4>4, <4>5
    <3> QED
      BY <3>1
  <2>3. \A g \in Handles : pc'[g] = "casdone" => pc[g] = "casdone"
    BY <1>0, <1>8 DEF DerefContinuation, Goto
  <2>4. HasContinuation /\ Destroyed # Nothing
    BY <2>1, ValuesAssumption DEF HasContinuation, OneScheduler, Scheduling, GuardPlaces
  <2> QED
    BY <2>1, <2>2, <2>3, <2>4 DEF ContentOK, HasContinuation
<1> QED
  BY <1>1, <1>2, <1>3, <1>4, <1>5, <1>6, <1>7, <1>8, ContentQuietStep
     DEF Step, PromiseStep, FutureStep, TransferStep, GuardStep

LEMMA GuardsFrame ==
    ASSUME GuardsOK, delivered' = delivered, pc'[Task] = pc[Task],
           \A h \in Handles : pc'[h] = "deref" => pc[h] = "deref"
    PROVE  GuardsOK'
BY DEF GuardsOK

LEMMA GuardsStep ==
    ASSUME TypeOK, PlacesOK, OneScheduler, GuardsOK, Step
    PROVE  GuardsOK'
<1> USE ActorsAssumption
<1>0. /\ pc \in [Actors -> Places]
      /\ \A a \in Actors : ret[a] \in {"idle", "dp_detach", "w_sem", "done"}
  BY DEF TypeOK
<1>1. ASSUME NEW p \in Promises, PromiseCall(p) \/ PromiseStep(p) PROVE GuardsOK'
  <2>1. /\ pc'[Task] = pc[Task]
        /\ \A h \in Handles : pc'[h] = "deref" => pc[h] = "deref"
    <3>1. CASE PromiseCall(p)
      BY <1>0, <3>1
         DEF PromiseCall, CopyPromise, GetFuture, ForceScheduled, Checkout, SetValue,
             DestroyPromise, Goto, local
    <3>2. CASE PromiseStep(p)
      BY <1>0, <3>2
         DEF PromiseStep, DetachPromiseCheck, DetachPromiseDetach, SetResultCheck,
             SetResultStore, Throw, Goto
    <3> QED
      BY <1>1, <3>1, <3>2
  <2>2. delivered' = delivered
    BY <1>1
       DEF PromiseCall, CopyPromise, GetFuture, ForceScheduled, Checkout, SetValue,
           DestroyPromise, PromiseStep, DetachPromiseCheck, DetachPromiseDetach,
           SetResultCheck, SetResultStore, content
  <2> QED
    BY <2>1, <2>2, GuardsFrame
<1>2. ASSUME NEW f \in Futures, FutureCall(f) \/ FutureStep(f) \/ TakeResult(f)
      PROVE  GuardsOK'
  <2>1. /\ pc'[Task] = pc[Task]
        /\ \A h \in Handles : pc'[h] = "deref" => pc[h] = "deref"
    BY <1>0, <1>2
       DEF FutureCall, FutureStep, SetExecutor, SetContinuation, Wait, DestroyFuture,
           WaitSetExecutor, WaitReturn, SetContinuationCheck, SetContinuationStore,
           TakeResult, Throw, Goto, local
  <2>2. delivered' = delivered
    BY <1>2
       DEF FutureCall, FutureStep, SetExecutor, SetContinuation, Wait, DestroyFuture,
           WaitSetExecutor, WaitReturn, SetContinuationCheck, SetContinuationStore,
           TakeResult, content
  <2> QED
    BY <2>1, <2>2, GuardsFrame
<1>3. ASSUME NEW h \in Handles,
             \/ MoveAssign(h) \/ LoadState(h) \/ CasHalf(h) \/ AssertOtherHalf(h)
             \/ CasDone(h) \/ ScheduleContinuation(h) \/ EnqueueRefused(h)
      PROVE  GuardsOK'
  <2>1. /\ pc'[Task] = pc[Task]
        /\ \A g \in Handles : pc'[g] = "deref" => pc[g] = "deref"
    BY <1>0, <1>3
       DEF MoveAssign, LoadState, CasHalf, AssertOtherHalf, CasDone, ScheduleContinuation,
           EnqueueRefused, Throw, Goto
  <2>2. delivered' = delivered
    BY <1>3
       DEF MoveAssign, LoadState, CasHalf, AssertOtherHalf, CasDone, ScheduleContinuation,
           EnqueueRefused, content
  <2> QED
    BY <2>1, <2>2, GuardsFrame
<1>4. ASSUME NEW h \in Handles, EnqueueAccepted(h) PROVE GuardsOK'
  BY <1>0, <1>4 DEF EnqueueAccepted, GuardsOK
<1>5. ASSUME NEW a \in Actors, Invoke(a) PROVE GuardsOK'
  <2>1. delivered' # <<>>
    <3>1. delivered' = Append(delivered, <<continuation_, try_value_>>)
      BY <1>5 DEF Invoke
    <3>2. Len(delivered') = Len(delivered) + 1 /\ Len(delivered) \in Nat
      BY <3>1 DEF TypeOK
    <3> QED
      BY <3>2
  <2> QED
    BY <2>1 DEF GuardsOK
<1>6. ASSUME NEW a \in Actors, DerefContinuation(a) \/ DetachGuard(a) PROVE GuardsOK'
  <2>1. pc[a] \in {"deref", "detach"} /\ delivered' = delivered
    BY <1>6 DEF DerefContinuation, DetachGuard, At, content
  <2>2. /\ \A b \in Actors : b # a => pc'[b] = pc[b]
        /\ pc'[a] \notin {"run", "deref"}
    BY <1>0, <1>6 DEF DerefContinuation, DetachGuard, Goto
  <2> QED
    BY <2>1, <2>2 DEF GuardsOK
<1> QED
  BY <1>1, <1>2, <1>3, <1>4, <1>5, <1>6 DEF Step, TransferStep, GuardStep

LEMMA HandOffStep ==
    ASSUME OneSetter, OneContinuer, IndInv, HandOff, [Next]_vars
    PROVE  HandOff'
<1>1. CASE fault = "none" /\ Step
  BY <1>1, ProducerStep, ConsumerStep, ContentStep, GuardsStep DEF IndInv, HandOff
<1>2. CASE UNCHANGED vars
  <2>1. UNCHANGED <<state_, try_value_, continuation_, delivered, promise_ref_>>
    BY <1>2 DEF vars, counts, content
  <2>2. UNCHANGED <<pc, ret, arg>>
    BY <1>2 DEF vars, local
  <2> QED
    BY <2>1, <2>2, ProducerFrame, ConsumerFrame, ContentFrame, GuardsFrame
       DEF HandOff, HasResult, HasContinuation
<1> QED
  BY <1>1, <1>2 DEF Next, Terminated

-----------------------------------------------------------------------------
(* What a reader finds in try_value_, and what the call is made with.       *)
\* The step that publishes a result publishes what the promise has stored.
LEMMA Publishes ==
    ASSUME TypeOK, PlacesOK, ProducerOK, NEW p \in Promises, pc[p] \in Stored,
           Publish(p), try_value_' = try_value_
    PROVE  try_value_' = published' /\ published' # Nothing
<1>1. ret[p] \in {"idle", "dp_detach"} /\ Stored \subseteq Setting
  BY DEF PlacesOK, Stored, Storing
<1>2. arg[p] \in Values \union {Broken} /\ try_value_ = arg[p]
  BY <1>1 DEF ProducerOK
<1>3. published' = arg[p]
  BY DEF Publish
<1> QED
  BY <1>2, <1>3, ValuesAssumption

\* A value that may have been moved out stays so.
LEMMA EmptiedStays ==
    ASSUME TypeOK, Step, MayBeEmptied
    PROVE  MayBeEmptied'
<1> USE ActorsAssumption
<1>1. CASE delivered # <<>>
  <2>1. ASSUME NEW a \in Actors, Invoke(a) PROVE delivered' # <<>>
    <3>1. delivered' = Append(delivered, <<continuation_, try_value_>>)
      BY <2>1 DEF Invoke
    <3>2. Len(delivered') = Len(delivered) + 1 /\ Len(delivered) \in Nat
      BY <3>1 DEF TypeOK
    <3> QED
      BY <3>2
  <2> QED
    BY <1>1, <2>1, DeliveredUnchanged DEF MayBeEmptied
<1>2. ASSUME NEW f \in Futures, pc[f] \in {"taken", "dead", "orphan"}
      PROVE  pc'[f] \in {"taken", "dead", "orphan"}
  <2>0. pc \in [Actors -> Places]
    BY DEF TypeOK
  <2>1. ASSUME NEW p \in Promises, PromiseCall(p) \/ PromiseStep(p) PROVE pc'[f] = pc[f]
    BY <2>0, <1>2, <2>1
       DEF PromiseCall, PromiseStep, CopyPromise, GetFuture, ForceScheduled, Checkout,
           SetValue, DestroyPromise, DetachPromiseCheck, DetachPromiseDetach,
           SetResultCheck, SetResultStore, Throw, At, Goto, local
  <2>2. ASSUME NEW g \in Futures, FutureCall(g) \/ FutureStep(g) \/ TakeResult(g)
        PROVE  pc'[f] \in {pc[f], "dead"}
    BY <2>0, <1>2, <2>2
       DEF FutureCall, FutureStep, TakeResult, SetExecutor, SetContinuation, Wait,
           DestroyFuture, WaitSetExecutor, WaitReturn, SetContinuationCheck,
           SetContinuationStore, Throw, At, Goto, local
  <2>3. ASSUME NEW h \in Handles, MoveAssign(h) \/ TransferStep(h)
        PROVE  pc'[f] \in {pc[f], "orphan"}
    BY <2>0, <1>2, <2>3
       DEF MoveAssign, TransferStep, LoadState, CasHalf, AssertOtherHalf, CasDone,
           ScheduleContinuation, EnqueueAccepted, EnqueueRefused, Throw, At, Goto
  <2>4. ASSUME NEW a \in Actors, GuardStep(a) PROVE pc'[f] = pc[f]
    BY <2>0, <1>2, <2>4 DEF GuardStep, Invoke, DerefContinuation, DetachGuard, At, Goto
  <2> QED
    BY <1>2, <2>1, <2>2, <2>3, <2>4 DEF Step
<1> QED
  BY <1>1, <1>2, ClientAssumption DEF MayBeEmptied

\* The steps that change what a reader can see: they store, publish, call or take.
LEMMA ValueUnchanged ==
    ASSUME Step,
           ~ \E p \in Promises : SetResultStore(p),
           ~ \E h \in Handles : CasHalf(h) \/ CasDone(h),
           ~ \E a \in Actors : Invoke(a),
           ~ \E f \in Futures : TakeResult(f)
    PROVE  UNCHANGED <<state_, try_value_, published>>
BY DEF Step, PromiseCall, PromiseStep, FutureCall, FutureStep, TransferStep, GuardStep,
       CopyPromise, GetFuture, ForceScheduled, Checkout, SetValue, DestroyPromise,
       DetachPromiseCheck, DetachPromiseDetach, SetResultCheck, SetExecutor,
       SetContinuation, Wait, DestroyFuture, WaitSetExecutor, WaitReturn,
       SetContinuationCheck, SetContinuationStore, MoveAssign, LoadState, AssertOtherHalf,
       ScheduleContinuation, EnqueueAccepted, EnqueueRefused, DerefContinuation,
       DetachGuard, content

LEMMA ReaderStep ==
    ASSUME TypeOK, PlacesOK, CasOK, OneScheduler, ProducerOK, PublishedUntilTaken,
           fault = "none", Step
    PROVE  PublishedUntilTaken'
<1> USE ActorsAssumption
<1>1. MayBeEmptied => MayBeEmptied'
  BY EmptiedStays
\* A step that leaves alone, or empties, what is there.
<1>2. ASSUME HasResult' => HasResult, published' = published,
             \/ try_value_' = try_value_
             \/ HasResult /\ MayBeEmptied' /\ try_value_' \in LeftOf(try_value_)
      PROVE  PublishedUntilTaken'
  <2>1. SUFFICES ASSUME HasResult'
                 PROVE  /\ published # Nothing
                        /\ \/ try_value_' = published
                           \/ try_value_' = MovedOut /\ published \in Values /\ MayBeEmptied'
    BY <1>2 DEF PublishedUntilTaken
  <2>2. /\ published # Nothing
        /\ \/ try_value_ = published
           \/ try_value_ = MovedOut /\ published \in Values /\ MayBeEmptied
    BY <1>2, <2>1 DEF PublishedUntilTaken
  <2> QED
    BY <1>1, <1>2, <2>2, ValuesAssumption DEF LeftOf
<1>3. ASSUME NEW p \in Promises, SetResultStore(p) PROVE PublishedUntilTaken'
  <2>1. ~HasResult /\ state_' = state_
    BY <1>3 DEF SetResultStore, At, ProducerOK, Storing, Setting, SetPlaces
  <2> QED
    BY <2>1 DEF PublishedUntilTaken, HasResult
<1>4. ASSUME NEW h \in Handles, CasHalf(h) \/ CasDone(h) PROVE PublishedUntilTaken'
  <2>1. try_value_' = try_value_
    BY <1>4 DEF CasHalf, CasDone
  <2>2. CASE h \in Promises
    <3>1. pc[h] \in Stored /\ pc[h] \in Storing
      BY <1>4 DEF CasHalf, CasDone, At, Stored, Storing, Setting, SetPlaces
    <3>2. ~HasResult
      BY <2>2, <3>1 DEF ProducerOK
    <3>3. HasResult' => Publish(h)
      BY <1>4, <3>2 DEF CasHalf, CasDone, HasResult
    <3>4. HasResult' => try_value_' = published' /\ published' # Nothing
      BY <2>1, <2>2, <3>1, <3>3, Publishes
    <3> QED
      BY <3>4 DEF PublishedUntilTaken
  <2>3. CASE h \in Futures
    BY <1>2, <1>4, <2>1, <2>3, ResultKept
  <2> QED
    BY <2>2, <2>3
<1>5. ASSUME NEW a \in Actors, Invoke(a) PROVE PublishedUntilTaken'
  <2>1. /\ pc[a] = "run" /\ UNCHANGED <<state_, published>>
        /\ try_value_' \in LeftOf(try_value_)
        /\ delivered' = Append(delivered, <<continuation_, try_value_>>)
    BY <1>5 DEF Invoke, At
  <2>2. HasResult
    BY <2>1 DEF OneScheduler, Scheduling, GuardPlaces, HasResult
  <2>3. MayBeEmptied'
    <3>1. Len(delivered') = Len(delivered) + 1 /\ Len(delivered) \in Nat
      BY <2>1 DEF TypeOK
    <3>2. delivered' # <<>>
      BY <3>1
    <3> QED
      BY <3>2 DEF MayBeEmptied
  <2> QED
    BY <1>2, <2>1, <2>2, <2>3
<1>6. ASSUME NEW f \in Futures, TakeResult(f) PROVE PublishedUntilTaken'
  <2>1. /\ f \in Takers /\ HasResult /\ UNCHANGED <<state_, published>>
        /\ try_value_' \in LeftOf(try_value_)
        /\ pc' = [pc EXCEPT ![f] = "taken"]
    BY <1>6 DEF TakeResult, Goto
  <2>2. pc'[f] = "taken"
    BY <2>1 DEF TypeOK
  <2>3. MayBeEmptied'
    BY <2>1, <2>2 DEF MayBeEmptied
  <2> QED
    BY <1>2, <2>1, <2>3
<1>7. CASE UNCHANGED <<state_, try_value_, published>>
  BY <1>2, <1>7 DEF HasResult
<1> QED
  BY <1>3, <1>4, <1>5, <1>6, <1>7, ValueUnchanged

LEMMA DeliversStep ==
    ASSUME NobodyTakes, TypeOK, CasOK, OneScheduler, CallOwed, PublishedUntilTaken,
           DeliversPublished, fault = "none", Step
    PROVE  DeliversPublished'
<1>1. ASSUME NEW a \in Actors, Invoke(a) PROVE DeliversPublished'
  <2>1. /\ pc[a] = "run" /\ published' = published
        /\ delivered' = Append(delivered, <<continuation_, try_value_>>)
    BY <1>1 DEF Invoke, At
  <2>2. HasResult /\ delivered = <<>>
    BY <2>1 DEF OneScheduler, Scheduling, GuardPlaces, CallOwed, HasResult
  <2>3. try_value_ = published
    BY <2>2 DEF PublishedUntilTaken, MayBeEmptied, NobodyTakes
  <2>4. delivered' = <<<<continuation_, try_value_>>>>
    BY <2>1, <2>2
  <2> QED
    BY <2>1, <2>3, <2>4 DEF DeliversPublished
<1>2. CASE ~ \E a \in Actors : Invoke(a)
  <2>1. delivered' = delivered
    BY <1>2, DeliveredUnchanged
  <2>2. ASSUME NEW h \in Handles, CasHalf(h) \/ CasDone(h), delivered # <<>>
        PROVE  published' = published
    <3>1. state_ = "Done"
      BY <2>2 DEF CallOwed
    <3>2. CASE CasHalf(h)
      BY <3>1, <3>2 DEF CasHalf
    <3>3. CASE CasDone(h)
      <4>1. expected[h] # "Done"
        BY <3>3 DEF CasDone, At, CasOK, OtherHalf
      <4> QED
        BY <3>1, <3>3, <4>1 DEF CasDone
    <3> QED
      BY <2>2, <3>2, <3>3
  <2> QED
    BY <2>1, <2>2, StateUnchanged DEF DeliversPublished
<1> QED
  BY <1>1, <1>2

-----------------------------------------------------------------------------
(* The theorems.                                                            *)

\* Behind the compare-exchanges one promise stores the result and one future the
\* continuation, each before it publishes, and nobody overwrites either.
THEOREM HandOffHolds ==
    ASSUME OneSetter, OneContinuer
    PROVE  Spec => []HandOff
<1>1. IndInv /\ HandOff /\ [Next]_vars => HandOff'
  BY HandOffStep
<1> QED
  BY <1>1, HandOffInit, Inductive, PTL DEF Spec

\* Future::Value may hand out a reference into try_value_: behind HasResult a reader
\* finds the result whose compare-exchange won, or that same value emptied by the call of
\* the continuation or by a future that took it, and never another one.  However many
\* futures read, take, continue and wait.
THEOREM ReadersSeePublished ==
    ASSUME OneSetter
    PROVE  Spec => []PublishedUntilTaken
<1>1. Init => ProducerOK /\ PublishedUntilTaken
  BY HandOffInit DEF HandOff, Init, PublishedUntilTaken, HasResult
<1>2. IndInv /\ ProducerOK /\ PublishedUntilTaken /\ [Next]_vars
        => (ProducerOK /\ PublishedUntilTaken)'
  <2>1. ASSUME IndInv, ProducerOK, PublishedUntilTaken, fault = "none", Step
        PROVE  (ProducerOK /\ PublishedUntilTaken)'
    BY <2>1, ProducerStep, ReaderStep DEF IndInv
  <2>2. ASSUME ProducerOK, PublishedUntilTaken, UNCHANGED vars
        PROVE  (ProducerOK /\ PublishedUntilTaken)'
    <3>1. UNCHANGED <<state_, try_value_, delivered, published, promise_ref_, pc, ret, arg>>
      BY <2>2 DEF vars, counts, content, local
    <3> QED
      BY <2>2, <3>1, ProducerFrame DEF HasResult, PublishedUntilTaken, MayBeEmptied
  <2> QED
    BY <2>1, <2>2 DEF Next, Terminated
<1> QED
  BY <1>1, <1>2, Inductive, PTL DEF Spec

\* The continuation is called at most once, with the result that was published, and not
\* after its destructor, whichever of SetResult and SetContinuation comes first, and even
\* when the client waits, moves over its handles, or takes the executor away.
THEOREM DeliveredOnceAlways ==
    ASSUME OneSetter, OneContinuer, NobodyTakes
    PROVE  Spec => []DeliveredOnce
<1>1. Init => DeliversPublished
  BY DEF Init, DeliversPublished
<1>2. IndInv /\ PublishedUntilTaken /\ DeliversPublished /\ [Next]_vars => DeliversPublished'
  <2>1. ASSUME IndInv, PublishedUntilTaken, DeliversPublished, fault = "none", Step
        PROVE  DeliversPublished'
    BY <2>1, DeliversStep DEF IndInv
  <2>2. ASSUME DeliversPublished, UNCHANGED vars PROVE DeliversPublished'
    BY <2>2 DEF vars, content, DeliversPublished
  <2> QED
    BY <2>1, <2>2 DEF Next, Terminated
<1>3. IndInv /\ HandOff /\ PublishedUntilTaken /\ DeliversPublished => DeliveredOnce
  <2> SUFFICES ASSUME IndInv, HandOff, PublishedUntilTaken, DeliversPublished,
                      NEW n \in DOMAIN delivered
               PROVE  /\ delivered[n][1] \in Futures
                      /\ delivered[n][2] = published /\ published # Nothing
    BY DEF DeliveredOnce, IndInv
  <2>1. n = 1 /\ delivered # <<>>
    BY DEF IndInv, TypeOK, CalledAtMostOnce
  <2>2. HasResult
    BY <2>1 DEF IndInv, CallOwed, HasResult
  <2> QED
    BY <2>1, <2>2 DEF HandOff, ContentOK, PublishedUntilTaken, DeliversPublished
<1> QED
  BY <1>1, <1>2, <1>3, Inductive, HandOffHolds, ReadersSeePublished, PTL DEF Spec

-----------------------------------------------------------------------------
(* The refinement: what every step is to the channel.                       *)
Result  == IF HasResult THEN published ELSE Nothing
Handler == IF HasContinuation THEN Installed ELSE Nothing

\* Only a copy and a destructor change who holds a producing end.
LEMMA OwnersKept ==
    ASSUME TypeOK, PlacesOK,
           \/ \E p \in Promises :
                 \/ \E f \in Futures : GetFuture(p, f)
                 \/ ForceScheduled(p) \/ Checkout(p) \/ SetValue(p) \/ PromiseStep(p)
           \/ \E f \in Futures : FutureCall(f) \/ FutureStep(f) \/ TakeResult(f)
           \/ \E h \in Handles : MoveAssign(h) \/ TransferStep(h)
           \/ \E a \in Actors : GuardStep(a)
    PROVE  PromiseRefs' = PromiseRefs
<1> USE ActorsAssumption
<1> DEFINE Counts(p) == pc[p] \notin {"unborn", "dead"} /\ ret[p] # "dp_detach"
<1>0. /\ pc \in [Actors -> Places] /\ ret \in [Actors -> {"idle", "dp_detach", "w_sem", "done"}]
      /\ \A p \in Promises : ret[p] \in {"idle", "dp_detach"}
  BY DEF TypeOK, PlacesOK
<1>1. ASSUME NEW p \in Promises,
             \/ \E f \in Futures : GetFuture(p, f)
             \/ ForceScheduled(p) \/ Checkout(p) \/ SetValue(p)
      PROVE  \A q \in Promises : Counts(q)' <=> Counts(q)
  <2>1. ret' = ret
    BY <1>1 DEF GetFuture, ForceScheduled, Checkout, SetValue, local
  <2>2. \A q \in Promises : pc'[q] = pc[q] \/ {pc[q], pc'[q]} \subseteq {"idle", "check"}
    BY <1>0, <1>1 DEF GetFuture, ForceScheduled, Checkout, SetValue, At, Goto, local
  <2> QED
    BY <2>1, <2>2
<1>2. ASSUME NEW p \in Promises, PromiseStep(p)
      PROVE  \A q \in Promises : Counts(q)' <=> Counts(q)
  <2>1. CASE DetachPromiseDetach(p)
    <3>1. ret[p] = "dp_detach"
      BY <2>1 DEF DetachPromiseDetach, At, PlacesOK
    <3> QED
      BY <1>0, <2>1, <3>1 DEF DetachPromiseDetach, Goto
  <2>2. CASE DetachPromiseCheck(p) \/ SetResultStore(p) \/ SetResultCheck(p)
    <3>1. pc[p] \in {"dp_check", "store", "check"}
      BY <2>2 DEF DetachPromiseCheck, SetResultStore, SetResultCheck, At
    <3>2. /\ \A q \in Promises : q # p => pc'[q] = pc[q] /\ ret'[q] = ret[q]
          /\ pc'[p] \notin {"unborn", "dead"}
          /\ ret'[p] = "dp_detach" <=> ret[p] = "dp_detach"
      BY <1>0, <2>2, <3>1
         DEF DetachPromiseCheck, SetResultStore, SetResultCheck, Throw, Goto
    <3> QED
      BY <3>1, <3>2
  <2> QED
    BY <1>2, <2>1, <2>2 DEF PromiseStep
<1>3. ASSUME NEW f \in Futures, FutureCall(f) \/ FutureStep(f) \/ TakeResult(f)
      PROVE  \A q \in Promises : Counts(q)' <=> Counts(q)
  BY <1>0, <1>3
     DEF FutureCall, FutureStep, SetExecutor, SetContinuation, Wait, DestroyFuture,
         WaitSetExecutor, WaitReturn, SetContinuationCheck, SetContinuationStore,
         TakeResult, Throw, Goto, local
<1>4. ASSUME NEW h \in Handles, MoveAssign(h) \/ TransferStep(h)
      PROVE  \A q \in Promises : Counts(q)' <=> Counts(q)
  <2>1. pc[h] \notin {"unborn", "dead"}
    BY <1>4
       DEF MoveAssign, TransferStep, LoadState, CasHalf, AssertOtherHalf, CasDone,
           ScheduleContinuation, EnqueueAccepted, EnqueueRefused, At
  <2>2. \A q \in Promises : q # h => pc'[q] = pc[q] /\ ret'[q] = ret[q]
    BY <1>0, <1>4
       DEF MoveAssign, TransferStep, LoadState, CasHalf, AssertOtherHalf, CasDone,
           ScheduleContinuation, EnqueueAccepted, EnqueueRefused, Throw, Goto
  <2>3. h \in Promises => /\ pc'[h] \notin {"unborn", "dead"}
                          /\ ret'[h] = "dp_detach" <=> ret[h] = "dp_detach"
    BY <1>0, <1>4, <2>1
       DEF MoveAssign, TransferStep, LoadState, CasHalf, AssertOtherHalf, CasDone,
           ScheduleContinuation, EnqueueAccepted, EnqueueRefused, Throw, Goto
  <2> QED
    BY <2>1, <2>2, <2>3
<1>5. ASSUME NEW a \in Actors, GuardStep(a)
      PROVE  \A q \in Promises : Counts(q)' <=> Counts(q)
  <2>1. pc[a] \notin {"unborn", "dead"}
    BY <1>5 DEF GuardStep, Invoke, DerefContinuation, DetachGuard, At
  <2>2. \A q \in Promises : q # a => pc'[q] = pc[q] /\ ret'[q] = ret[q]
    BY <1>0, <1>5 DEF GuardStep, Invoke, DerefContinuation, DetachGuard, Goto
  <2>3. a \in Promises => /\ pc'[a] \notin {"unborn", "dead"}
                          /\ ret'[a] = "dp_detach" <=> ret[a] = "dp_detach"
    BY <1>0, <1>5 DEF GuardStep, Invoke, DerefContinuation, DetachGuard, Goto
  <2> QED
    BY <2>1, <2>2, <2>3
<1>6. \A q \in Promises : Counts(q)' <=> Counts(q)
  BY <1>1, <1>2, <1>3, <1>4, <1>5
<1> QED
  BY <1>6 DEF PromiseRefs

LEMMA Stutter ==
    ASSUME PromiseRefs' = PromiseRefs, Result' = Result, Handler' = Handler,
           delivered' = delivered
    PROVE  UNCHANGED Channel!channel
BY DEF Channel!channel, Result, Handler

\* Copying and destroying promises is sharing and leaving.
LEMMA SharesOrLeaves ==
    ASSUME TypeOK, PlacesOK, NEW p \in Promises,
           (\E q \in Promises : CopyPromise(p, q)) \/ DestroyPromise(p)
    PROVE  Channel!Next
<1>0. pc \in [Actors -> Places] /\ ret \in [Actors -> {"idle", "dp_detach", "w_sem", "done"}]
  BY DEF TypeOK
<1>1. ASSUME NEW q \in Promises, CopyPromise(p, q) PROVE Channel!Share(q)
  <2>1. /\ pc[p] = "idle" /\ pc[q] = "unborn" /\ pc' = [pc EXCEPT ![q] = "idle"]
        /\ ret' = ret /\ ret[p] = "idle" /\ ret[q] = "idle"
    BY <1>1 DEF CopyPromise, At, Goto, PlacesOK
  <2>2. PromiseRefs' = PromiseRefs \union {q} /\ q \notin PromiseRefs /\ p \in PromiseRefs
    BY <1>0, <2>1 DEF PromiseRefs
  <2>3. UNCHANGED content
    BY <1>1 DEF CopyPromise
  <2> QED
    BY <2>2, <2>3 DEF Channel!Share, content, HasResult, HasContinuation, Installed
<1>2. ASSUME DestroyPromise(p) PROVE Channel!Leave(p)
  <2>1. /\ pc[p] = "idle" /\ ret[p] = "idle"
        /\ pc' \in {[pc EXCEPT ![p] = "dp_check"], [pc EXCEPT ![p] = "dp_detach"]}
        /\ ret' = [ret EXCEPT ![p] = "dp_detach"]
    BY <1>2 DEF DestroyPromise, At, Goto, PlacesOK
  <2>2. PromiseRefs' = PromiseRefs \ {p} /\ p \in PromiseRefs
    BY <1>0, <2>1 DEF PromiseRefs
  <2>3. UNCHANGED content
    BY <1>2 DEF DestroyPromise
  <2> QED
    BY <2>2, <2>3 DEF Channel!Leave, content, HasResult, HasContinuation, Installed
<1> QED
  BY <1>1, <1>2 DEF Channel!Next

\* SetResult fulfils the channel, or breaks it out of the last promise's destructor,
\* with the compare-exchange that publishes; one that fails is a stutter.
LEMMA Fulfils ==
    ASSUME IndInv, HandOff, fault = "none", NEW p \in Promises, CasHalf(p) \/ CasDone(p)
    PROVE  [Channel!Next]_(Channel!channel)
<1>1. p \in Handles /\ PromiseRefs' = PromiseRefs
  BY OwnersKept DEF IndInv, TransferStep
<1>2. Handler' = Handler /\ delivered' = delivered
  <2>1. UNCHANGED <<continuation_, delivered>>
    BY DEF CasHalf, CasDone
  <2> QED
    BY <2>1, ContinuationKept DEF IndInv, Handler, Installed
<1>3. pc[p] \in Stored /\ pc[p] \in Setting /\ pc[p] \notin {"unborn", "dead"}
  BY DEF CasHalf, CasDone, At, Stored, Storing, Setting, SetPlaces
<1>4. ~HasResult /\ (HasResult' => published' = arg[p])
  <2>1. pc[p] \in Storing
    BY <1>3 DEF Stored
  <2>2. ~HasResult
    BY <2>1 DEF HandOff, ProducerOK
  <2> QED
    BY <2>2 DEF CasHalf, CasDone, Publish, HasResult
<1>5. CASE ~HasResult'
  BY <1>1, <1>2, <1>4, <1>5, Stutter DEF Result
<1>6. CASE HasResult' /\ ret[p] = "idle"
  <2>1. arg[p] \in Values
    BY <1>3, <1>6 DEF HandOff, ProducerOK
  <2>2. p \in PromiseRefs
    BY <1>3, <1>6 DEF PromiseRefs
  <2>3. Channel!Fulfil(arg[p])
    BY <1>1, <1>2, <1>4, <1>6, <2>2 DEF Channel!Fulfil, Handler
  <2> QED
    BY <2>1, <2>3 DEF Channel!Next
<1>7. CASE HasResult' /\ ret[p] = "dp_detach"
  <2>1. arg[p] = Broken /\ promise_ref_ = 0
    BY <1>3, <1>7 DEF HandOff, ProducerOK
  <2>2. PromiseRefs = {}
    BY <2>1, CountedSetsFinite, FS_EmptySet DEF IndInv, RefCountExact
  <2>3. Channel!Break
    BY <1>1, <1>2, <1>4, <1>7, <2>1, <2>2 DEF Channel!Break, Handler
  <2> QED
    BY <2>3 DEF Channel!Next
<1> QED
  BY <1>5, <1>6, <1>7 DEF IndInv, PlacesOK

\* SetContinuation subscribes with its compare-exchange.
LEMMA Subscribes ==
    ASSUME IndInv, HandOff, fault = "none", NEW f \in Futures, CasHalf(f) \/ CasDone(f)
    PROVE  [Channel!Next]_(Channel!channel)
<1>1. f \in Handles /\ PromiseRefs' = PromiseRefs
  BY OwnersKept DEF IndInv, TransferStep
<1>2. UNCHANGED <<continuation_, delivered>>
  BY DEF CasHalf, CasDone
<1>3. Result' = Result
  BY ResultKept DEF IndInv, Result
<1>4. pc[f] \in Stored /\ pc[f] \in Storing
  BY DEF CasHalf, CasDone, At, Stored, Storing, Setting, SetPlaces
<1>5. ~HasContinuation /\ continuation_ = f /\ f # Destroyed
  BY <1>4, ValuesAssumption DEF HandOff, ConsumerOK
<1>6. CASE ~HasContinuation'
  BY <1>1, <1>2, <1>3, <1>5, <1>6, Stutter DEF Handler
<1>7. CASE HasContinuation'
  <2>1. Channel!Subscribe(f)
    BY <1>1, <1>2, <1>3, <1>5, <1>7 DEF Channel!Subscribe, Installed, Result
  <2> QED
    BY <2>1 DEF Channel!Next
<1> QED
  BY <1>6, <1>7

\* The call of the continuation delivers.
LEMMA Delivers ==
    ASSUME NobodyTakes, IndInv, HandOff, PublishedUntilTaken, NEW a \in Actors, Invoke(a)
    PROVE  Channel!Deliver
<1>1. PromiseRefs' = PromiseRefs
  BY OwnersKept DEF IndInv, GuardStep
<1>2. /\ pc[a] = "run" /\ delivered' = Append(delivered, <<continuation_, try_value_>>)
      /\ UNCHANGED <<state_, published, continuation_>>
  BY DEF Invoke, At
<1>3. state_ = "Done" /\ delivered = <<>>
  BY <1>2 DEF IndInv, OneScheduler, Scheduling, GuardPlaces, CallOwed
<1>4. continuation_ \in Futures /\ try_value_ = published /\ published # Nothing
  BY <1>3, ValuesAssumption
     DEF IndInv, TypeOK, HandOff, ContentOK, HasResult, HasContinuation,
         PublishedUntilTaken, MayBeEmptied, NobodyTakes
<1>5. delivered' = <<<<continuation_, published>>>>
  BY <1>2, <1>3, <1>4
<1> QED
  BY <1>1, <1>2, <1>3, <1>4, <1>5, ValuesAssumption
     DEF Channel!Deliver, HasResult, HasContinuation, Installed

\* No other step can be told apart by the users of the channel.
LEMMA Unseen ==
    ASSUME IndInv, HandOff, HandOff',
           \/ \E p \in Promises :
                 \/ \E f \in Futures : GetFuture(p, f)
                 \/ ForceScheduled(p) \/ Checkout(p) \/ SetValue(p) \/ PromiseStep(p)
           \/ \E f \in Futures : FutureCall(f) \/ FutureStep(f) \/ TakeResult(f)
           \/ \E h \in Handles :
                 \/ MoveAssign(h) \/ LoadState(h) \/ AssertOtherHalf(h)
                 \/ ScheduleContinuation(h) \/ EnqueueAccepted(h) \/ EnqueueRefused(h)
           \/ \E a \in Actors : DerefContinuation(a) \/ DetachGuard(a)
    PROVE  UNCHANGED Channel!channel
<1>1. PromiseRefs' = PromiseRefs
  BY OwnersKept DEF IndInv, TransferStep, GuardStep
<1>2. CASE UNCHANGED content
  BY <1>1, <1>2, Stutter DEF content, Result, Handler, HasResult, HasContinuation, Installed
<1>3. ASSUME NEW p \in Promises, SetResultStore(p) PROVE UNCHANGED Channel!channel
  <2>1. ~HasResult
    BY <1>3 DEF SetResultStore, At, HandOff, ProducerOK, Storing, Setting, SetPlaces
  <2>2. UNCHANGED <<state_, continuation_, delivered>>
    BY <1>3 DEF SetResultStore
  <2> QED
    BY <1>1, <2>1, <2>2, Stutter DEF Result, Handler, HasResult, HasContinuation, Installed
<1>4. ASSUME NEW f \in Futures, SetContinuationStore(f) PROVE UNCHANGED Channel!channel
  <2>1. ~HasContinuation
    BY <1>4 DEF SetContinuationStore, At, HandOff, ConsumerOK, Storing, Setting, SetPlaces
  <2>2. UNCHANGED <<state_, published, delivered>>
    BY <1>4 DEF SetContinuationStore
  <2> QED
    BY <1>1, <2>1, <2>2, Stutter DEF Result, Handler, HasResult, HasContinuation
<1>5. ASSUME NEW a \in Actors, DerefContinuation(a) PROVE UNCHANGED Channel!channel
  <2>1. /\ continuation_' \in {continuation_, Destroyed}
        /\ UNCHANGED <<state_, published, delivered>>
    BY <1>5 DEF DerefContinuation
  <2>2. CASE continuation_' = continuation_
    BY <1>1, <2>1, <2>2, Stutter
       DEF Result, Handler, HasResult, HasContinuation, Installed
  <2>3. CASE continuation_' # continuation_
    <3>1. delivered # <<>>
      BY <2>1, <2>3 DEF HandOff, ContentOK
    <3>2. delivered[1][1] = continuation_ /\ continuation_' = Destroyed
      BY <2>1, <2>3, <3>1 DEF HandOff, ContentOK
    <3> QED
      BY <1>1, <2>1, <2>3, <3>2, Stutter
         DEF Result, Handler, HasResult, HasContinuation, Installed
  <2> QED
    BY <2>2, <2>3
<1>6. ASSUME NEW p \in Promises,
             \/ \E f \in Futures : GetFuture(p, f)
             \/ ForceScheduled(p) \/ Checkout(p) \/ SetValue(p) \/ PromiseStep(p)
      PROVE  UNCHANGED Channel!channel
  BY <1>2, <1>3, <1>6
     DEF GetFuture, ForceScheduled, Checkout, SetValue, PromiseStep, DetachPromiseCheck,
         DetachPromiseDetach, SetResultCheck
<1>7. ASSUME NEW f \in Futures, TakeResult(f) PROVE UNCHANGED Channel!channel
  <2>1. UNCHANGED <<state_, published, continuation_, delivered>>
    BY <1>7 DEF TakeResult
  <2> QED
    BY <1>1, <2>1, Stutter DEF Result, Handler, HasResult, HasContinuation, Installed
<1>8. ASSUME NEW f \in Futures, FutureCall(f) \/ FutureStep(f) \/ TakeResult(f)
      PROVE  UNCHANGED Channel!channel
  BY <1>2, <1>4, <1>7, <1>8
     DEF FutureCall, SetExecutor, SetContinuation, Wait, DestroyFuture, FutureStep,
         WaitSetExecutor, WaitReturn, SetContinuationCheck
<1>9. ASSUME NEW h \in Handles,
             \/ MoveAssign(h) \/ LoadState(h) \/ AssertOtherHalf(h)
             \/ ScheduleContinuation(h) \/ EnqueueAccepted(h) \/ EnqueueRefused(h)
      PROVE  UNCHANGED Channel!channel
  BY <1>2, <1>9
     DEF MoveAssign, LoadState, AssertOtherHalf, ScheduleContinuation, EnqueueAccepted,
         EnqueueRefused
<1>10. ASSUME NEW a \in Actors, DerefContinuation(a) \/ DetachGuard(a)
      PROVE  UNCHANGED Channel!channel
  BY <1>2, <1>5, <1>10 DEF DetachGuard
<1> QED
  BY <1>6, <1>8, <1>9, <1>10

LEMMA ChannelStep ==
    ASSUME NobodyTakes, IndInv, HandOff, HandOff', PublishedUntilTaken, [Next]_vars
    PROVE  [Channel!Next]_(Channel!channel)
<1>1. CASE UNCHANGED vars
  <2>1. PromiseRefs' = PromiseRefs /\ UNCHANGED content
    BY <1>1 DEF vars, local, PromiseRefs
  <2> QED
    BY <2>1, Stutter DEF content, Result, Handler, HasResult, HasContinuation, Installed
<1>2. CASE fault = "none" /\ Step
  <2>1. ASSUME NEW p \in Promises, PromiseCall(p) \/ PromiseStep(p)
        PROVE  [Channel!Next]_(Channel!channel)
    BY <2>1, SharesOrLeaves, Unseen DEF IndInv, PromiseCall
  <2>2. ASSUME NEW f \in Futures, FutureCall(f) \/ FutureStep(f) \/ TakeResult(f)
        PROVE  [Channel!Next]_(Channel!channel)
    BY <2>2, Unseen
  <2>3. ASSUME NEW h \in Handles, MoveAssign(h) \/ TransferStep(h)
        PROVE  [Channel!Next]_(Channel!channel)
    BY <1>2, <2>3, Unseen, Fulfils, Subscribes DEF TransferStep
  <2>4. ASSUME NEW a \in Actors, GuardStep(a)
        PROVE  [Channel!Next]_(Channel!channel)
    BY <2>4, Unseen, Delivers DEF GuardStep, Channel!Next
  <2> QED
    BY <1>2, <2>1, <2>2, <2>3, <2>4 DEF Step
<1> QED
  BY <1>1, <1>2 DEF Next, Terminated

LEMMA ChannelInit == Init => Channel!Init
<1> SUFFICES ASSUME NEW p0 \in Promises, Init!(p0) PROVE Channel!Init
  BY DEF Init
<1>1. PromiseRefs = {p0}
  BY ActorsAssumption DEF PromiseRefs
<1>2. ~HasResult /\ ~HasContinuation /\ delivered = <<>>
  BY DEF HasResult, HasContinuation
<1> QED
  BY <1>1, <1>2 DEF Channel!Init

\* The lock-free protocol implements the one-shot channel: one result that is never
\* replaced, the broken exception exactly when the last promise leaves without one, one
\* handler, and one call of it with that result.
THEOREM Refines ==
    ASSUME OneSetter, OneContinuer, NobodyTakes
    PROVE  Spec => ImplementsOneShot
<1>1. IndInv /\ HandOff /\ HandOff' /\ PublishedUntilTaken /\ [Next]_vars
        => [Channel!Next]_(Channel!channel)
  BY ChannelStep
<1> QED
  BY <1>1, ChannelInit, Inductive, HandOffHolds, ReadersSeePublished, PTL
     DEF Spec, ImplementsOneShot, Channel!Spec

-----------------------------------------------------------------------------
(* The ASSERTs, the null executor, and the exceptions out of ~Promise.       *)
\* Nobody takes the executor away between the decision to use it and its use.
ExecutorOK ==
    /\ force_scheduled => executor_ # NullExecutor
    /\ \A h \in Handles : pc[h] = "enqueue" => executor_ # NullExecutor
    /\ \A f \in Futures : pc[f] # "w_exec"
    /\ context_ # "outside"
    /\ NoFault

\* The client's part: it does not wait on a future that has this executor, checks out on
\* its worker threads, and names an executor when it calls Via.
ExecutorKept == Waiters = {} /\ Checkouts \subseteq {"worker"} /\ ViaArgs \subseteq {Ex}

LEMMA ExecutorInit == Init => ExecutorOK
<1> SUFFICES ASSUME NEW p0 \in Promises, Init!(p0) PROVE ExecutorOK
  BY DEF Init
<1>1. \A h \in Handles : pc[h] \in {"idle", "unborn"}
  BY ActorsAssumption
<1> QED
  BY <1>1 DEF ExecutorOK, NoFault

LEMMA ExecutorFrame ==
    ASSUME ExecutorOK, UNCHANGED <<executor_, context_, force_scheduled>>, fault' = fault,
           \A h \in Handles : pc'[h] \in {"enqueue", "w_exec"} => pc'[h] = pc[h]
    PROVE  ExecutorOK'
BY DEF ExecutorOK, NoFault

LEMMA CallsKeepExecutor ==
    ASSUME ExecutorKept, IndInv, ExecutorOK,
           \/ \E p \in Promises : PromiseCall(p)
           \/ \E f \in Futures : FutureCall(f) \/ TakeResult(f)
           \/ \E h \in Handles : MoveAssign(h)
    PROVE  ExecutorOK'
<1> USE ActorsAssumption, ValuesAssumption
<1>0. pc \in [Actors -> Places]
  BY DEF IndInv, TypeOK
<1>1. ASSUME NEW p \in Promises, ForceScheduled(p) PROVE ExecutorOK'
  BY <1>1 DEF ForceScheduled, local, ExecutorOK, NoFault
<1>2. ASSUME NEW p \in Promises, Checkout(p) PROVE ExecutorOK'
  <2>1. context_' # "outside" /\ UNCHANGED <<executor_, force_scheduled, pc, fault>>
    BY <1>2 DEF Checkout, ExecutorKept, local
  <2> QED
    BY <2>1 DEF ExecutorOK, NoFault
<1>3. ASSUME NEW p \in Promises, DestroyPromise(p) PROVE ExecutorOK'
  <2>1. promise_ref_ # 0
    BY <1>3, CountedPromise DEF IndInv, PlacesOK, DestroyPromise, At
  <2>2. fault' = fault /\ UNCHANGED <<executor_, context_, force_scheduled>>
    BY <1>3, <2>1 DEF DestroyPromise, config
  <2>3. \A h \in Handles : pc'[h] \in {"enqueue", "w_exec"} => pc'[h] = pc[h]
    BY <1>0, <1>3 DEF DestroyPromise, Goto
  <2> QED
    BY <2>2, <2>3, ExecutorFrame
<1>4. ASSUME NEW p \in Promises,
             \/ \E q \in Promises : CopyPromise(p, q)
             \/ \E f \in Futures : GetFuture(p, f)
             \/ SetValue(p)
      PROVE  ExecutorOK'
  <2>1. fault' = fault /\ UNCHANGED <<executor_, context_, force_scheduled>>
    BY <1>4 DEF CopyPromise, GetFuture, SetValue, config
  <2>2. \A h \in Handles : pc'[h] \in {"enqueue", "w_exec"} => pc'[h] = pc[h]
    BY <1>0, <1>4 DEF CopyPromise, GetFuture, SetValue, Goto
  <2> QED
    BY <2>1, <2>2, ExecutorFrame
<1>5. ASSUME NEW f \in Futures, SetExecutor(f) PROVE ExecutorOK'
  <2>1. executor_' # NullExecutor /\ UNCHANGED <<context_, pc, fault>>
    BY <1>5 DEF SetExecutor, ExecutorKept, local
  <2> QED
    BY <2>1 DEF ExecutorOK, NoFault
<1>6. ASSUME NEW f \in Futures, DestroyFuture(f) PROVE ExecutorOK'
  <2>1. attached_ # 0
    <3>1. f \in Refs
      BY <1>6 DEF DestroyFuture, Refs
    <3>2. Cardinality(Refs) # 0
      BY <3>1, CountedSetsFinite, FS_EmptySet DEF IndInv
    <3> QED
      BY <3>2, CountedSetsFinite DEF IndInv, RefCountExact
  <2>2. fault' = fault /\ UNCHANGED <<executor_, context_, force_scheduled>>
    BY <1>6, <2>1 DEF DestroyFuture, DetachOne, config
  <2>3. \A h \in Handles : pc'[h] \in {"enqueue", "w_exec"} => pc'[h] = pc[h]
    BY <1>0, <1>6 DEF DestroyFuture, Goto
  <2> QED
    BY <2>2, <2>3, ExecutorFrame
<1>7. ASSUME NEW h \in Handles,
             (h \in Futures /\ (SetContinuation(h) \/ TakeResult(h))) \/ MoveAssign(h)
      PROVE  ExecutorOK'
  <2>1. fault' = fault /\ UNCHANGED <<executor_, context_, force_scheduled>>
    BY <1>7 DEF SetContinuation, TakeResult, MoveAssign, config
  <2>2. \A g \in Handles : pc'[g] \in {"enqueue", "w_exec"} => pc'[g] = pc[g]
    BY <1>0, <1>7 DEF SetContinuation, TakeResult, MoveAssign, Goto
  <2> QED
    BY <2>1, <2>2, ExecutorFrame
<1>8. ASSUME NEW f \in Futures, Wait(f) PROVE FALSE
  BY <1>8 DEF Wait, ExecutorKept
<1> QED
  BY <1>1, <1>2, <1>3, <1>4, <1>5, <1>6, <1>7, <1>8 DEF PromiseCall, FutureCall

\* SetResult throws to its caller when somebody else was first; inside ~Promise, where
\* that would be std::terminate, nobody else is left.
LEMMA SetterKeepsExecutor ==
    ASSUME IndInv, HandOff, ExecutorOK,
           \/ \E p \in Promises : PromiseStep(p)
           \/ \E f \in Futures : FutureStep(f)
           \/ \E h \in Handles : LoadState(h) \/ CasHalf(h) \/ AssertOtherHalf(h) \/ CasDone(h)
    PROVE  ExecutorOK'
<1> USE ActorsAssumption
<1>0. /\ pc \in [Actors -> Places] /\ state_ \in States
      /\ \A p \in Promises : ret[p] \in {"idle", "dp_detach"}
      /\ \A f \in Futures : ret[f] \in {"idle", "w_sem"}
      /\ fault = "none" /\ \A f \in Futures : pc[f] # "w_exec"
      /\ {"check", "load", "cas", "casdone", "assert"} \subseteq Setting
      /\ {"load", "casdone", "assert"} \subseteq Storing
  BY DEF IndInv, TypeOK, PlacesOK, ExecutorOK, NoFault, Setting, Storing, SetPlaces
<1>1. ASSUME NEW h \in Handles, Throw(h), ret[h] # "dp_detach",
             UNCHANGED <<executor_, context_, force_scheduled>>
      PROVE  ExecutorOK'
  <2>1. \A g \in Handles : pc'[g] \in {"enqueue", "w_exec"} => pc'[g] = pc[g]
    BY <1>0, <1>1 DEF Throw, Goto
  <2>2. fault' = fault
    BY <1>1 DEF Throw
  <2> QED
    BY <1>1, <2>1, <2>2, ExecutorFrame
<1>2. ASSUME NEW h \in Handles, NEW x \in Places \ {"enqueue", "w_exec"}, Goto(h, x),
             fault' = fault, UNCHANGED <<executor_, context_, force_scheduled>>
      PROVE  ExecutorOK'
  <2>1. \A g \in Handles : pc'[g] \in {"enqueue", "w_exec"} => pc'[g] = pc[g]
    BY <1>0, <1>2 DEF Goto
  <2> QED
    BY <1>2, <2>1, ExecutorFrame
<1> HIDE DEF Handles, Actors, Setting, Storing
<1>3. ASSUME NEW p \in Promises, DetachPromiseCheck(p) \/ SetResultStore(p) PROVE ExecutorOK'
  BY <1>0, <1>2, <1>3
     DEF DetachPromiseCheck, SetResultStore, config, Handles, Places, SetPlaces
<1>4. ASSUME NEW p \in Promises, SetResultCheck(p) PROVE ExecutorOK'
  <2>1. CASE HasResult
    <3>1. ret[p] # "dp_detach"
      BY <1>0, <1>4, <2>1 DEF SetResultCheck, At, HandOff, ProducerOK
    <3> QED
      BY <1>1, <1>4, <2>1, <3>1 DEF SetResultCheck, config, Handles
  <2>2. CASE ~HasResult
    BY <1>2, <1>4, <2>2 DEF SetResultCheck, config, Handles, Places, SetPlaces
  <2> QED
    BY <2>1, <2>2
<1>5. ASSUME NEW p \in Promises, DetachPromiseDetach(p) PROVE ExecutorOK'
  <2>1. attached_ # 0
    <3>1. p \in Refs
      BY <1>5 DEF DetachPromiseDetach, At, Refs, Handles
    <3>2. Cardinality(Refs) # 0
      BY <3>1, CountedSetsFinite, FS_EmptySet DEF IndInv
    <3> QED
      BY <3>2, CountedSetsFinite DEF IndInv, RefCountExact
  <2>2. fault' = fault
    BY <1>5, <2>1 DEF DetachPromiseDetach, DetachOne
  <2> QED
    BY <1>2, <1>5, <2>2 DEF DetachPromiseDetach, config, Handles, Places
<1>6. ASSUME NEW f \in Futures, FutureStep(f) PROVE ExecutorOK'
  <2>1. CASE WaitSetExecutor(f)
    BY <1>0, <2>1 DEF WaitSetExecutor, At
  <2>2. CASE WaitReturn(f) \/ SetContinuationStore(f)
    BY <1>2, <2>2 DEF WaitReturn, SetContinuationStore, config, Handles, Places, SetPlaces
  <2>3. CASE SetContinuationCheck(f)
    <3>1. ret[f] # "dp_detach"
      BY <1>0
    <3> QED
      BY <1>1, <1>2, <2>3, <3>1
         DEF SetContinuationCheck, config, Handles, Places, SetPlaces
  <2> QED
    BY <1>6, <2>1, <2>2, <2>3 DEF FutureStep
<1>7. ASSUME NEW h \in Handles, LoadState(h) PROVE ExecutorOK'
  <2>1. CASE state_ \in {"Start", OtherHalf(h)}
    BY <1>2, <1>7, <2>1 DEF LoadState, config, Places, SetPlaces
  <2>2. CASE state_ \notin {"Start", OtherHalf(h)}
    <3>1. ret[h] # "dp_detach"
      <4>1. CASE h \in Promises
        <5>1. HasResult
          BY <1>0, <2>2, <4>1 DEF OtherHalf, HasResult, States
        <5> QED
          BY <1>0, <1>7, <4>1, <5>1 DEF LoadState, At, HandOff, ProducerOK
      <4>2. CASE h \in Futures
        BY <1>0, <4>2
      <4> QED
        BY <4>1, <4>2 DEF Handles
    <3> QED
      BY <1>1, <1>7, <2>2, <3>1 DEF LoadState, config
  <2> QED
    BY <2>1, <2>2
<1>8. ASSUME NEW h \in Handles, CasHalf(h) PROVE ExecutorOK'
  <2>1. ret[h] \in Places \ {"enqueue", "w_exec"}
    BY <1>0 DEF Handles, Places
  <2> QED
    BY <1>2, <1>8, <2>1 DEF CasHalf, config, Places, SetPlaces
<1>9. ASSUME NEW h \in Handles, AssertOtherHalf(h) PROVE ExecutorOK'
  <2>1. pc[h] = "assert" /\ state_ # "Start" /\ state_ \in {expected[h], "Done"}
    BY <1>9 DEF AssertOtherHalf, At, IndInv, CasOK, Handles
  <2>2. state_ = OtherHalf(h)
    <3>1. CASE h \in Promises
      <4>1. ~HasResult
        BY <1>0, <2>1, <3>1 DEF HandOff, ProducerOK
      <4> QED
        BY <1>0, <2>1, <3>1, <4>1 DEF OtherHalf, HasResult, States
    <3>2. CASE h \in Futures
      <4>1. ~HasContinuation
        BY <1>0, <2>1, <3>2 DEF HandOff, ConsumerOK
      <4> QED
        BY <1>0, <2>1, <3>2, <4>1 DEF OtherHalf, HasContinuation, States
    <3> QED
      BY <3>1, <3>2 DEF Handles
  <2> QED
    BY <1>2, <1>9, <2>2 DEF AssertOtherHalf, config, Places, SetPlaces
<1>10. ASSUME NEW h \in Handles, CasDone(h) PROVE ExecutorOK'
  <2>1. CASE state_ = expected[h]
    BY <1>2, <1>10, <2>1 DEF CasDone, config, Places, SetPlaces
  <2>2. CASE state_ # expected[h]
    <3>1. ret[h] # "dp_detach"
      <4>1. CASE h \in Promises
        <5>1. /\ pc[h] = "casdone" /\ state_ # "Start"
              /\ expected[h] = "OnlyContinuation"
          BY <1>0, <1>10, <4>1
             DEF CasDone, At, IndInv, CasOK, OtherHalf, HandOff, ContentOK, Handles
        <5>2. HasResult
          BY <1>0, <2>2, <5>1 DEF HasResult, States
        <5> QED
          BY <1>0, <4>1, <5>1, <5>2 DEF HandOff, ProducerOK
      <4>2. CASE h \in Futures
        BY <1>0, <4>2
      <4> QED
        BY <4>1, <4>2 DEF Handles
    <3> QED
      BY <1>1, <1>10, <2>2, <3>1 DEF CasDone, config
  <2> QED
    BY <2>1, <2>2
<1> QED
  BY <1>3, <1>4, <1>5, <1>6, <1>7, <1>8, <1>9, <1>10 DEF PromiseStep

LEMMA GuardsKeepExecutor ==
    ASSUME IndInv, ExecutorOK,
           \/ \E h \in Handles :
                 ScheduleContinuation(h) \/ EnqueueAccepted(h) \/ EnqueueRefused(h)
           \/ \E a \in Actors : GuardStep(a)
    PROVE  ExecutorOK'
<1> USE ActorsAssumption
<1>0. /\ pc \in [Actors -> Places]
      /\ \A a \in Actors : ret[a] \in {"idle", "dp_detach", "w_sem", "done"}
  BY DEF IndInv, TypeOK
<1>1. ASSUME NEW h \in Handles, ScheduleContinuation(h) PROVE ExecutorOK'
  <2>1. fault' = fault /\ UNCHANGED <<executor_, context_, force_scheduled>>
    BY <1>1 DEF ScheduleContinuation, config
  <2>2. CASE Goto(h, "run")
    <3>1. \A g \in Handles : pc'[g] \in {"enqueue", "w_exec"} => pc'[g] = pc[g]
      BY <1>0, <2>2 DEF Goto
    <3> QED
      BY <2>1, <3>1, ExecutorFrame
  <2>3. CASE Goto(h, "enqueue") /\ \E b \in BOOLEAN : ~RunsInline(h, b)
    <3>1. executor_ # NullExecutor
      BY <2>3 DEF RunsInline, ExecutorOK
    <3>2. \A f \in Futures : pc'[f] # "w_exec"
      BY <1>0, <2>3 DEF Goto, ExecutorOK
    <3> QED
      BY <2>1, <3>1, <3>2 DEF ExecutorOK, NoFault
  <2> QED
    BY <1>1, <2>2, <2>3 DEF ScheduleContinuation
<1>2. ASSUME NEW h \in Handles, EnqueueAccepted(h) \/ EnqueueRefused(h) PROVE ExecutorOK'
  <2>1. pc[h] = "enqueue" /\ UNCHANGED <<executor_, context_, force_scheduled>>
    BY <1>2 DEF EnqueueAccepted, EnqueueRefused, At, config
  <2>2. fault' = fault
    BY <1>2, <2>1 DEF EnqueueAccepted, EnqueueRefused, ExecutorOK
  <2>3. \A g \in Handles : pc'[g] \in {"enqueue", "w_exec"} => pc'[g] = pc[g]
    BY <1>0, <1>2 DEF EnqueueAccepted, EnqueueRefused, Goto
  <2> QED
    BY <2>1, <2>2, <2>3, ExecutorFrame
<1>3. ASSUME NEW a \in Actors, GuardStep(a) PROVE ExecutorOK'
  <2>1. /\ pc[a] \in {"run", "deref", "detach"}
        /\ UNCHANGED <<executor_, context_, force_scheduled>>
    BY <1>3 DEF GuardStep, Invoke, DerefContinuation, DetachGuard, At, config
  <2>2. \A g \in Handles : pc'[g] \in {"enqueue", "w_exec"} => pc'[g] = pc[g]
    BY <1>0, <1>3 DEF GuardStep, Invoke, DerefContinuation, DetachGuard, Goto
  <2>3. fault' = fault
    <3>1. CASE Invoke(a)
      BY <3>1 DEF Invoke
    <3>2. CASE DerefContinuation(a)
      <4>1. a \in LiveGuards
        BY <3>2 DEF DerefContinuation, At, LiveGuards, GuardPlaces
      <4>2. Cardinality(LiveGuards) # 0
        BY <4>1, CountedSetsFinite, FS_EmptySet DEF IndInv
      <4>3. continuation_ref_ # 0
        BY <4>2, CountedSetsFinite DEF IndInv, RefCountExact
      <4> QED
        BY <3>2, <4>3 DEF DerefContinuation
    <3>3. CASE DetachGuard(a)
      <4>1. a \in Guards
        BY <3>3 DEF DetachGuard, At, Guards, GuardPlaces
      <4>2. Cardinality(Guards) # 0
        BY <4>1, CountedSetsFinite, FS_EmptySet DEF IndInv
      <4>3. attached_ # 0
        BY <4>2, CountedSetsFinite DEF IndInv, RefCountExact
      <4> QED
        BY <3>3, <4>3 DEF DetachGuard, DetachOne
    <3> QED
      BY <1>3, <3>1, <3>2, <3>3 DEF GuardStep
  <2> QED
    BY <2>1, <2>2, <2>3, ExecutorFrame
<1> QED
  BY <1>1, <1>2, <1>3

LEMMA ExecutorStep ==
    ASSUME ExecutorKept, IndInv, HandOff, ExecutorOK, [Next]_vars
    PROVE  ExecutorOK'
<1>1. CASE UNCHANGED vars
  BY <1>1, ExecutorFrame DEF vars, config, local
<1>2. CASE Step
  BY <1>2, CallsKeepExecutor, SetterKeepsExecutor, GuardsKeepExecutor DEF Step, TransferStep
<1> QED
  BY <1>1, <1>2 DEF Next, Terminated

\* No ASSERT of the library fails, no null executor is called and nothing is thrown out
\* of ~Promise.  The last hypothesis is needed: Wait sets the executor to null between the
\* other side's decision to use it and the call, and Checkout outside the executor's
\* threads yields a context that Checkin refuses.
THEOREM FutureNoFault ==
    ASSUME OneSetter, OneContinuer, ExecutorKept
    PROVE  Spec => []NoFault
<1>1. IndInv /\ HandOff /\ ExecutorOK /\ [Next]_vars => ExecutorOK'
  BY ExecutorStep
<1>2. ExecutorOK => NoFault
  BY DEF ExecutorOK
<1> QED
  BY <1>1, <1>2, ExecutorInit, Inductive, HandOffHolds, PTL DEF Spec
=============================================================================
