--------------------------- MODULE LazyTaskProofs ---------------------------
(***************************************************************************)
(* Theorems about LazyTask, for any executors, workers and program.        *)
(***************************************************************************)
EXTENDS LazyTask, TLAPS, SequenceTheorems

-----------------------------------------------------------------------------
(* The chain as a sequence.                                                 *)
LEMMA FrontOf ==
    ASSUME NEW S, NEW s \in Seq(S), s # <<>>
    PROVE  /\ Front(s) \in Seq(S) /\ Len(s) \in Nat \ {0} /\ Len(Front(s)) = Len(s) - 1
           /\ \A k \in 1 .. Len(s) - 1 : Front(s)[k] = s[k]
           /\ s[Len(s)] \in S
<1>1. Len(s) \in Nat \ {0} /\ \A k \in 1 .. Len(s) : s[k] \in S
  OBVIOUS
<1>2. /\ SubSeq(s, 1, Len(s) - 1) \in Seq(S)
      /\ Len(SubSeq(s, 1, Len(s) - 1)) = IF 1 <= Len(s) - 1 THEN Len(s) - 1 - 1 + 1 ELSE 0
      /\ \A k \in 1 .. Len(s) - 1 - 1 + 1 : SubSeq(s, 1, Len(s) - 1)[k] = s[1 + k - 1]
  <2>1. 1 \in Int /\ Len(s) - 1 \in Int /\ \A k \in 1 .. Len(s) - 1 : s[k] \in S
    BY <1>1
  <2> QED
    BY <2>1, SubSeqProperties
<1>3. PICK p : p = SubSeq(s, 1, Len(s) - 1)
  OBVIOUS
<1>4. p \in Seq(S) /\ Len(p) = Len(s) - 1 /\ \A k \in 1 .. Len(s) - 1 : p[k] = s[k]
  <2>1. PICK n : n = Len(s)
    OBVIOUS
  <2>2. /\ p \in Seq(S)
        /\ Len(p) = IF 1 <= n - 1 THEN n - 1 - 1 + 1 ELSE 0
        /\ \A k \in 1 .. n - 1 - 1 + 1 : p[k] = s[1 + k - 1]
    BY <1>2, <1>3, <2>1, Zenon
  <2>3. n \in Nat \ {0} /\ n - 1 - 1 + 1 = n - 1
    BY <1>1, <2>1
  <2>4. \A k \in 1 .. n - 1 : 1 + k - 1 = k
    BY <2>3
  <2>5. Len(p) = n - 1
    BY <2>2, <2>3
  <2>6. \A k \in 1 .. n - 1 : p[k] = s[k]
    BY <2>2, <2>3, <2>4
  <2> QED
    BY <2>1, <2>2, <2>5, <2>6
<1> QED
  BY <1>1, <1>3, <1>4 DEF Front

LEMMA WithTopOf ==
    ASSUME NEW S, frames \in Seq(S), frames # <<>>, NEW g \in S
    PROVE  /\ WithTop(g) \in Seq(S) /\ WithTop(g) # <<>> /\ Len(WithTop(g)) = Len(frames)
           /\ \A k \in 1 .. Len(frames) - 1 : WithTop(g)[k] = frames[k]
           /\ WithTop(g)[Len(frames)] = g
<1>1. PICK s : s = Front(frames)
  OBVIOUS
<1>2. /\ s \in Seq(S) /\ Len(frames) \in Nat \ {0} /\ Len(s) = Len(frames) - 1
      /\ \A k \in 1 .. Len(frames) - 1 : s[k] = frames[k]
  BY <1>1, FrontOf
<1>3. WithTop(g) = s \o <<g>>
  BY <1>1 DEF WithTop
<1>4. /\ s \o <<g>> \in Seq(S) /\ Len(s \o <<g>>) = Len(s) + 1
      /\ \A k \in 1 .. Len(s) : (s \o <<g>>)[k] = s[k]
      /\ (s \o <<g>>)[Len(s) + 1] = g
  BY <1>2
<1> QED
  BY <1>2, <1>3, <1>4

LEMMA DeeperOf ==
    ASSUME NEW S, frames \in Seq(S), frames # <<>>, NEW g \in S, NEW h \in S
    PROVE  LET deeper == Append(WithTop(g), h)
           IN  /\ deeper \in Seq(S) /\ Len(deeper) = Len(frames) + 1 /\ deeper # <<>>
               /\ \A k \in 1 .. Len(frames) - 1 : deeper[k] = frames[k]
               /\ deeper[Len(frames)] = g /\ deeper[Len(frames) + 1] = h
<1>1. PICK s : s = WithTop(g)
  OBVIOUS
<1>2. /\ s \in Seq(S) /\ Len(s) = Len(frames) /\ Len(frames) \in Nat \ {0}
      /\ \A k \in 1 .. Len(frames) - 1 : s[k] = frames[k]
      /\ s[Len(frames)] = g
  BY <1>1, WithTopOf, FrontOf
<1>3. /\ Append(s, h) \in Seq(S) /\ Len(Append(s, h)) = Len(s) + 1
      /\ \A k \in 1 .. Len(s) : Append(s, h)[k] = s[k]
      /\ Append(s, h)[Len(s) + 1] = h
  BY <1>2
<1>4. Append(s, h) # <<>>
  BY <1>2, <1>3
<1> QED
  BY <1>1, <1>2, <1>3, <1>4

LEMMA CurrentId ==
    ASSUME NEW e, NEW t
    PROVE  /\ GetCurrentId(e, t) \in WorkerIds \union {-1}
           /\ GetCurrentId(e, t) # -1 => t = <<e, GetCurrentId(e, t)>>
           /\ t \in {e} \X WorkerIds => GetCurrentId(e, t) \in WorkerIds
           /\ CurrentThreadInExecutor(e, t) <=> t \in {e} \X WorkerIds
BY ExecutorsAssumption DEF GetCurrentId, CurrentThreadInExecutor

-----------------------------------------------------------------------------
(* What SyncAwait returns.                                                  *)
Ended == {"store", "release", "finished"}

ResultInv ==
    /\ frames = <<>> <=> place \in Ended \union {"new"}
    /\ place \in {"release", "finished"} => value = result
    /\ sem = 1 => place = "finished"
    /\ returned # "no" => returned = result /\ place = "finished"

\* The executor a closure is queued on is never the null pointer.
TypeInv == TypeOK /\ (place = "queued" => target[1] \in Executors) /\ ResultInv

-----------------------------------------------------------------------------
(* The coroutines of the chain and the executors they belong to.            *)

\* The root is started through Via, or has no executor; no coroutine moves itself to
\* a foreign executor, and none without executor yields.
KeepsToExecutor ==
    /\ Roots \subseteq {"via", "plain"}
    /\ \A r \in Roots : "foreign" \notin Awaits[r]
    /\ "plain" \in Roots => "yield" \notin Awaits["plain"]

\* A coroutine that waits for another executor's work knows its way back.
KnowsWayBack(g) ==
    IF g.wrapped /\ g.executor # NullExecutor
      THEN g.context \in WorkerIds /\ g.home = <<g.executor, g.context>>
      ELSE g.home = NoThread

FramesInv ==
    /\ \A k \in DOMAIN frames :
        /\ KnowsWayBack(frames[k])
        /\ root = "via" => frames[k].executor # NullExecutor
    \* Who awaits without going back is on the executor of what it awaits.
    /\ \A k \in 1 .. Len(frames) - 1 :
        frames[k].wrapped \/ frames[k + 1].executor = frames[k].executor

HandleInv ==
    /\ place = "running" =>
        /\ Top.executor # NullExecutor => thread \in {Top.executor} \X WorkerIds
        /\ Top.home # NoThread => thread = Top.home
    /\ place = "queued" =>
        /\ target[1] = Top.executor
        /\ Top.home # NoThread => target = Top.home
    /\ place = "timer" =>
        /\ target[1] = Top.executor /\ Top.executor # NullExecutor
        /\ Top.home = NoThread
    /\ place = "future" => Top.wrapped

ChainInv == FramesInv /\ HandleInv /\ fault = "none"

-----------------------------------------------------------------------------
(* Types, and the hand-over of the result: no step depends on the program.   *)
LEMMA FrameTypes ==
    ASSUME TypeInv, frames # <<>>
    PROVE  /\ \A e \in Executors \union {NullExecutor} : Coroutine(e) \in Frame
           /\ Top \in Frame /\ Unwrapped \in Frame /\ Wrapped \in Frame
<1>1. frames \in Seq(Frame) /\ thread \in Threads
  BY DEF TypeInv, TypeOK
<1>2. \A e \in Executors \union {NullExecutor} : Coroutine(e) \in Frame
  BY ExecutorsAssumption DEF Coroutine, Frame
<1>3. Top \in Frame
  BY <1>1, FrontOf DEF Top
<1>4. Top.executor \in Executors \union {NullExecutor}
  BY <1>3 DEF Frame
<1>5. Unwrapped \in Frame
  BY <1>2, <1>4 DEF Unwrapped
<1>6. [Unwrapped EXCEPT !.wrapped = TRUE] \in Frame
  BY <1>5 DEF Frame
<1>7. GetCurrentId(Top.executor, thread) \in WorkerIds \union {-1}
  BY CurrentId
<1>8. [Unwrapped EXCEPT !.wrapped = TRUE, !.context = GetCurrentId(Top.executor, thread),
                        !.home = thread] \in Frame
  BY <1>1, <1>5, <1>7 DEF Frame
<1>9. Wrapped \in Frame
  BY <1>6, <1>8 DEF Wrapped
<1> QED
  BY <1>2, <1>3, <1>5, <1>9

\* A call of Schedule or Checkin.
LEMMA ScheduleTypes ==
    ASSUME TypeInv, NEW e \in Executors \union {NullExecutor}, Schedule(e),
           place \notin Ended \union {"new", "queued"} \/ (place = "new" /\ e # NullExecutor)
    PROVE  /\ target' = <<e, -1>>
           /\ target' \in (Executors \union {NullExecutor}) \X (WorkerIds \union {-1})
           /\ fault' \in {"none", "assert", "null_executor"}
           /\ \/ place' \in {"queued", "refused"} /\ e \in Executors
              \/ place' = place /\ place # "new"
BY DEF Schedule, TypeInv, TypeOK

LEMMA GoBackTypes ==
    ASSUME TypeInv, NEW g \in Frame, NEW t \in Threads, ViaCoroutineEnds(g, t)
    PROVE  /\ target' \in (Executors \union {NullExecutor}) \X (WorkerIds \union {-1})
           /\ fault' \in {"none", "assert", "null_executor"} /\ thread' \in Threads
           /\ \/ place' \in {"running", "refused"}
              \/ place' = "queued" /\ target'[1] \in Executors
              \/ place' = place /\ target' = target
<1>1. /\ g.executor \in Executors \union {NullExecutor} /\ g.context \in WorkerIds \union {-1}
  BY DEF Frame
<1>2. /\ target \in (Executors \union {NullExecutor}) \X (WorkerIds \union {-1})
      /\ fault \in {"none", "assert", "null_executor"} /\ thread \in Threads
  BY DEF TypeInv, TypeOK
<1>3. CASE g.executor = NullExecutor
  BY <1>2, <1>3 DEF ViaCoroutineEnds
<1>4. CASE g.executor # NullExecutor
  <2>1. Checkin(g.executor, g.context, t)
    BY <1>4 DEF ViaCoroutineEnds
  <2> QED
    BY <1>1, <1>2, <1>4, <2>1 DEF Checkin
<1> QED
  BY <1>3, <1>4

LEMMA TypeInit == Init => TypeInv
<1> SUFFICES ASSUME Init PROVE TypeInv
  OBVIOUS
<1>1. TypeOK
  BY ExecutorsAssumption, ProgramAssumption DEF Init, TypeOK, Threads, Outcomes
<1> QED
  BY <1>1 DEF Init, TypeInv, ResultInv, Ended

\* A step that goes on with the chain, from a place where SyncAwait still waits.
LEMMA ChainTypes ==
    ASSUME TypeInv, root' = root, UNCHANGED syncawait,
           place \notin Ended, place' \notin Ended \union {"new"},
           frames' \in Seq(Frame), frames' # <<>>, Len(frames') <= MaxDepth,
           place' \in {"running", "queued", "timer", "future", "refused"},
           place' = "queued" => target'[1] \in Executors,
           thread' \in Threads, awaits' \in 0 .. MaxAwaits, result' \in Outcomes,
           target' \in (Executors \union {NullExecutor}) \X (WorkerIds \union {-1}),
           fault' \in {"none", "assert", "null_executor"}
    PROVE  TypeInv'
<1>1. TypeOK'
  BY DEF TypeInv, TypeOK, syncawait
<1>2. ResultInv'
  BY DEF TypeInv, ResultInv, syncawait, Ended
<1> QED
  BY <1>1, <1>2 DEF TypeInv

LEMMA TypeStep == TypeInv /\ [Next]_vars => TypeInv'
<1> SUFFICES ASSUME TypeInv, [Next]_vars PROVE TypeInv'
  OBVIOUS
<1>t. /\ root \in Roots /\ frames \in Seq(Frame) /\ Len(frames) <= MaxDepth
      /\ thread \in Threads /\ awaits \in 0 .. MaxAwaits /\ result \in Outcomes
      /\ target \in (Executors \union {NullExecutor}) \X (WorkerIds \union {-1})
      /\ fault \in {"none", "assert", "null_executor"}
      /\ MaxDepth \in Nat \ {0} /\ MaxAwaits \in Nat
  BY ProgramAssumption DEF TypeInv, TypeOK
<1>r. frames = <<>> <=> place \in Ended \union {"new"}
  BY DEF TypeInv, ResultInv
<1>e. Executors \subseteq Executors \union {NullExecutor} /\ NullExecutor \notin Executors
  BY ExecutorsAssumption
<1>1. CASE UNCHANGED vars
  BY <1>1 DEF vars, syncawait, TypeInv, TypeOK, ResultInv
<1>2. ASSUME NEW kind, CanAwait(kind)
      PROVE  /\ place = "running" /\ frames # <<>> /\ place \notin Ended \union {"new", "queued"}
             /\ awaits' \in 0 .. MaxAwaits /\ root' = root
             /\ Len(frames) \in Nat \ {0}
  BY <1>2, <1>t, <1>r, FrontOf DEF CanAwait, Ended
<1>3. ASSUME frames # <<>>
      PROVE  /\ WithTop(Unwrapped) \in Seq(Frame) /\ WithTop(Unwrapped) # <<>>
             /\ Len(WithTop(Unwrapped)) <= MaxDepth
             /\ WithTop(Wrapped) \in Seq(Frame) /\ WithTop(Wrapped) # <<>>
             /\ Len(WithTop(Wrapped)) <= MaxDepth
             /\ Top.executor \in Executors \union {NullExecutor}
  <2>1. Unwrapped \in Frame /\ Wrapped \in Frame /\ Top \in Frame
    BY <1>3, FrameTypes
  <2>2. Top.executor \in Executors \union {NullExecutor}
    BY <2>1 DEF Frame
  <2> QED
    BY <1>t, <1>3, <2>1, <2>2, WithTopOf
<1>4. CASE AwaitLazy
  <2>1. /\ place = "running" /\ frames # <<>> /\ Len(frames) < MaxDepth
        /\ awaits' \in 0 .. MaxAwaits /\ root' = root /\ Len(frames) \in Nat
        /\ UNCHANGED <<place, thread, target, result, syncawait, fault>>
    BY <1>2, <1>4 DEF AwaitLazy
  <2>2. Unwrapped \in Frame /\ Coroutine(Top.executor) \in Frame
    BY <1>3, <2>1, FrameTypes
  <2>3. frames' \in Seq(Frame) /\ frames' # <<>> /\ Len(frames') <= MaxDepth
    BY <1>t, <1>4, <2>1, <2>2, DeeperOf DEF AwaitLazy
  <2> QED
    BY <1>t, <2>1, <2>3, ChainTypes DEF Ended
<1>5. ASSUME NEW e \in Executors, AwaitVia(e) PROVE TypeInv'
  <2>1. /\ place = "running" /\ frames # <<>> /\ Len(frames) < MaxDepth
        /\ awaits' \in 0 .. MaxAwaits /\ root' = root /\ Len(frames) \in Nat
        /\ Schedule(e) /\ UNCHANGED <<thread, result, syncawait>>
        /\ frames' = Append(WithTop(Wrapped), Coroutine(e))
    BY <1>2, <1>5 DEF AwaitVia
  <2>2. Wrapped \in Frame /\ Coroutine(e) \in Frame
    BY <1>e, <2>1, FrameTypes
  <2>3. frames' \in Seq(Frame) /\ frames' # <<>> /\ Len(frames') <= MaxDepth
    BY <1>t, <2>1, <2>2, DeeperOf
  <2>4. /\ target' \in (Executors \union {NullExecutor}) \X (WorkerIds \union {-1})
        /\ fault' \in {"none", "assert", "null_executor"} /\ target' = <<e, -1>>
        /\ place' \in {"running", "queued", "refused"}
    BY <2>1, ScheduleTypes DEF Ended
  <2> QED
    BY <1>t, <2>1, <2>3, <2>4, ChainTypes DEF Ended
<1>6. CASE AwaitYield
  <2>1. /\ place = "running" /\ frames # <<>> /\ awaits' \in 0 .. MaxAwaits /\ root' = root
        /\ Schedule(Top.executor) /\ UNCHANGED <<thread, result, syncawait>>
        /\ frames' = WithTop(Unwrapped)
    BY <1>2, <1>6 DEF AwaitYield
  <2>2. /\ target' \in (Executors \union {NullExecutor}) \X (WorkerIds \union {-1})
        /\ fault' \in {"none", "assert", "null_executor"} /\ target' = <<Top.executor, -1>>
        /\ \/ place' \in {"queued", "refused"} /\ Top.executor \in Executors
           \/ place' = "running"
    BY <1>3, <2>1, ScheduleTypes DEF Ended
  <2> QED
    BY <1>3, <1>t, <2>1, <2>2, ChainTypes DEF Ended
<1>7. ASSUME NEW e \in Executors, AwaitSchedule(e) PROVE TypeInv'
  <2>1. /\ place = "running" /\ frames # <<>> /\ awaits' \in 0 .. MaxAwaits /\ root' = root
        /\ UNCHANGED <<thread, result, syncawait>>
        /\ UNCHANGED <<place, target, fault>> \/ Schedule(e)
        /\ frames' = WithTop(Unwrapped)
    BY <1>2, <1>7 DEF AwaitSchedule
  <2>2. /\ target' \in (Executors \union {NullExecutor}) \X (WorkerIds \union {-1})
        /\ fault' \in {"none", "assert", "null_executor"}
        /\ \/ place' \in {"queued", "refused"} /\ target' = <<e, -1>>
           \/ place' = "running"
    BY <1>t, <2>1, ScheduleTypes DEF Ended
  <2> QED
    BY <1>3, <1>t, <2>1, <2>2, ChainTypes DEF Ended
<1>8. CASE AwaitSleep
  <2>1. /\ place = "running" /\ frames # <<>> /\ awaits' \in 0 .. MaxAwaits /\ root' = root
        /\ UNCHANGED <<thread, result, syncawait, fault>>
        /\ frames' = WithTop(Unwrapped)
        /\ UNCHANGED <<place, target>> \/ (place' = "timer" /\ target' = <<Top.executor, -1>>)
    BY <1>2, <1>8 DEF AwaitSleep, ScheduleAfter
  <2>2. /\ target' \in (Executors \union {NullExecutor}) \X (WorkerIds \union {-1})
        /\ place' \in {"running", "timer"}
    BY <1>t, <1>3, <2>1
  <2> QED
    BY <1>3, <1>t, <2>1, <2>2, ChainTypes DEF Ended
<1>9. CASE AwaitFuture
  <2>1. /\ place = "running" /\ frames # <<>> /\ awaits' \in 0 .. MaxAwaits /\ root' = root
        /\ UNCHANGED <<thread, target, result, syncawait, fault>>
        /\ frames' = WithTop(Unwrapped) \/ frames' = WithTop(Wrapped)
        /\ place' \in {"running", "future"}
    BY <1>2, <1>9 DEF AwaitFuture
  <2> QED
    BY <1>3, <1>t, <2>1, ChainTypes DEF Ended
<1>10. CASE AwaitUnsuspended
  <2>1. /\ place = "running" /\ frames # <<>> /\ awaits' \in 0 .. MaxAwaits /\ root' = root
        /\ UNCHANGED <<place, thread, target, result, syncawait>>
        /\ frames' = WithTop(Unwrapped)
        /\ fault' \in {"none", "assert", "null_executor"}
    BY <1>2, <1>10, <1>t DEF AwaitUnsuspended
  <2> QED
    BY <1>3, <1>t, <2>1, ChainTypes DEF Ended
<1>11. CASE SyncAwait
  <2>1. PICK e \in Executors :
          /\ frames' = <<Coroutine(IF root = "plain" THEN NullExecutor ELSE e)>>
          /\ IF root = "via" THEN Schedule(e)
                             ELSE place' = "running" /\ UNCHANGED <<target, fault>>
    BY <1>11 DEF SyncAwait
  <2>2. /\ place = "new" /\ UNCHANGED <<root, thread, awaits, result, syncawait>>
    BY <1>11 DEF SyncAwait
  <2>3. frames' \in Seq(Frame) /\ frames' # <<>> /\ Len(frames') <= MaxDepth
    <3>1. \A x \in Executors \union {NullExecutor} : Coroutine(x) \in Frame
      BY ExecutorsAssumption DEF Coroutine, Frame
    <3>2. (IF root = "plain" THEN NullExecutor ELSE e) \in Executors \union {NullExecutor}
      OBVIOUS
    <3>3. PICK g \in Frame : frames' = <<g>>
      BY <2>1, <3>1, <3>2
    <3> QED
      BY <1>t, <3>3
  <2>4. /\ target' \in (Executors \union {NullExecutor}) \X (WorkerIds \union {-1})
        /\ fault' \in {"none", "assert", "null_executor"}
        /\ place' \in {"queued", "refused", "running"}
        /\ place' = "queued" => target'[1] \in Executors
    <3>1. CASE root = "via"
      BY <1>e, <2>1, <2>2, <3>1, ScheduleTypes DEF Ended
    <3>2. CASE root # "via"
      BY <1>t, <2>1, <3>2
    <3> QED
      BY <3>1, <3>2
  <2> QED
    BY <1>t, <2>2, <2>3, <2>4, ChainTypes DEF Ended
<1>12. CASE RunQueued
  <2>1. /\ place = "queued" /\ place' = "running" /\ frames # <<>>
        /\ UNCHANGED <<root, frames, target, awaits, result, syncawait, fault>>
    BY <1>12, <1>r DEF RunQueued, Ended
  <2>2. thread' \in Threads
    BY <1>12, <2>1 DEF RunQueued, TypeInv, Threads
  <2> QED
    BY <1>t, <2>1, <2>2, ChainTypes DEF Ended
<1>13. CASE TimerFires
  <2>1. /\ place = "timer" /\ frames # <<>> /\ Schedule(target[1])
        /\ UNCHANGED <<root, frames, thread, awaits, result, syncawait>>
    BY <1>13, <1>r DEF TimerFires, Ended
  <2>2. /\ target' \in (Executors \union {NullExecutor}) \X (WorkerIds \union {-1})
        /\ fault' \in {"none", "assert", "null_executor"} /\ target' = <<target[1], -1>>
        /\ \/ place' \in {"queued", "refused"} /\ target[1] \in Executors
           \/ place' = "timer"
    BY <1>t, <2>1, ScheduleTypes DEF Ended
  <2> QED
    BY <1>t, <2>1, <2>2, ChainTypes DEF Ended
<1>14. CASE FutureResult
  <2>1. /\ place = "future" /\ frames # <<>>
        /\ UNCHANGED <<root, frames, awaits, result, syncawait>>
    BY <1>14, <1>r DEF FutureResult, Ended
  <2>2. PICK t \in Threads : ViaCoroutineEnds(Top, t)
    BY <1>14, <1>t DEF FutureResult
  <2>3. Top \in Frame
    BY <2>1, FrameTypes
  <2> QED
    BY <1>t, <2>1, <2>2, <2>3, GoBackTypes, ChainTypes DEF Ended
<1>15. ASSUME NEW r \in Outcomes, Return(r) PROVE TypeInv'
  <2>1. /\ place = "running" /\ result' = r /\ frames' = Front(frames) /\ frames # <<>>
        /\ UNCHANGED <<root, awaits, syncawait>>
    BY <1>15, <1>r DEF Return, Ended
  <2>2. /\ frames' \in Seq(Frame) /\ Len(frames) \in Nat \ {0} /\ Len(frames') = Len(frames) - 1
    BY <1>t, <2>1, FrontOf
  <2>3. CASE Len(frames) = 1
    <3>1. frames' = <<>> /\ place' = "store" /\ UNCHANGED <<thread, target, fault>>
      BY <1>15, <2>2, <2>3 DEF Return
    <3>2. TypeOK'
      BY <1>t, <2>1, <2>2, <2>3, <3>1 DEF TypeInv, TypeOK, syncawait
    <3>3. ResultInv'
      BY <2>1, <3>1 DEF TypeInv, ResultInv, syncawait, Ended
    <3> QED
      BY <3>1, <3>2, <3>3 DEF TypeInv
  <2>4. CASE Len(frames) # 1
    <3>1. frames' # <<>> /\ Len(frames') <= MaxDepth
      BY <1>t, <2>2, <2>4
    <3>2. frames[Len(frames) - 1] \in Frame
      BY <1>t, <2>2, <2>4
    <3>3. \/ UNCHANGED <<place, thread, target, fault>>
          \/ ViaCoroutineEnds(frames[Len(frames) - 1], thread)
      BY <1>15, <2>4 DEF Return
    <3>4. /\ target' \in (Executors \union {NullExecutor}) \X (WorkerIds \union {-1})
          /\ fault' \in {"none", "assert", "null_executor"} /\ thread' \in Threads
          /\ place' \in {"running", "refused", "queued"}
          /\ place' = "queued" => target'[1] \in Executors
      BY <1>t, <2>1, <3>2, <3>3, GoBackTypes
    <3> QED
      BY <1>t, <2>1, <2>2, <3>1, <3>4, ChainTypes DEF Ended
  <2> QED
    BY <2>3, <2>4
<1>16. CASE StoreValue
  <2>1. TypeOK'
    BY <1>16 DEF StoreValue, TypeInv, TypeOK
  <2> QED
    BY <1>16, <2>1 DEF StoreValue, TypeInv, ResultInv, Ended
<1>17. CASE ReleaseSem
  <2>1. TypeOK'
    BY <1>17 DEF ReleaseSem, TypeInv, TypeOK
  <2> QED
    BY <1>17, <2>1 DEF ReleaseSem, TypeInv, ResultInv, Ended
<1>18. CASE SyncAwaitReturn
  <2>1. TypeOK'
    BY <1>18 DEF SyncAwaitReturn, TypeInv, TypeOK
  <2> QED
    BY <1>18, <2>1 DEF SyncAwaitReturn, TypeInv, ResultInv, Ended
<1> QED
  BY <1>1, <1>4, <1>5, <1>6, <1>7, <1>8, <1>9, <1>10, <1>11, <1>12, <1>13, <1>14, <1>15, <1>16,
     <1>17, <1>18 DEF Next, Await, Progress, Terminated

\* Whatever the program does, SyncAwait returns what the root coroutine ended with: the
\* worker that ends the root stores the value before it releases the semaphore
\* (SyncAwait, lazy.hpp), and nothing is stored after that.
THEOREM RootResult == Spec => []ReturnsRootResult
<1>1. TypeInv => ReturnsRootResult
  BY DEF TypeInv, ResultInv, ReturnsRootResult, Ended
<1> QED
  BY TypeInit, TypeStep, <1>1, PTL DEF Spec

-----------------------------------------------------------------------------
(* The chain: what changing its end does to it.                             *)
LEMMA SwapChain ==
    ASSUME TypeInv, FramesInv, frames # <<>>, root' = root, NEW g \in Frame,
           KnowsWayBack(g), g.executor = Top.executor, frames' = WithTop(g)
    PROVE  FramesInv' /\ Top' = g
<1>1. frames \in Seq(Frame)
  BY DEF TypeInv, TypeOK
<1>2. PICK m : m = Len(frames)
  OBVIOUS
<1>3. /\ frames' \in Seq(Frame) /\ Len(frames') = m
      /\ \A k \in 1 .. m - 1 : frames'[k] = frames[k]
      /\ frames'[m] = g
  BY <1>1, <1>2, WithTopOf
<1>4. /\ m \in Nat \ {0} /\ DOMAIN frames = 1 .. m /\ DOMAIN frames' = 1 .. m
      /\ g.executor = frames[m].executor
  BY <1>1, <1>2, <1>3, FrontOf DEF Top
<1>5. /\ \A k \in 1 .. m : KnowsWayBack(frames[k])
                            /\ (root = "via" => frames[k].executor # NullExecutor)
      /\ \A k \in 1 .. m - 1 : frames[k].wrapped \/ frames[k + 1].executor = frames[k].executor
  BY <1>2, <1>4 DEF FramesInv
<1>6. \A k \in 1 .. m : k = m \/ (k \in 1 .. m - 1 /\ frames'[k] = frames[k])
  BY <1>3, <1>4
<1>7. ASSUME NEW k \in 1 .. m
      PROVE  \E h : h = frames'[k] /\ KnowsWayBack(h) /\ h.executor = frames[k].executor
  BY <1>3, <1>4, <1>5, <1>6
<1>8. ASSUME NEW k \in 1 .. m - 1
      PROVE  frames'[k].wrapped \/ frames'[k + 1].executor = frames'[k].executor
  <2>1. k + 1 \in 1 .. m /\ frames'[k] = frames[k]
    BY <1>3, <1>4
  <2>2. frames'[k + 1].executor = frames[k + 1].executor
    BY <1>7, <2>1
  <2> QED
    BY <1>5, <2>1, <2>2
<1>9. Top' = g
  BY <1>3 DEF Top
<1>10. \A k \in DOMAIN frames' :
         /\ KnowsWayBack(frames'[k])
         /\ root' = "via" => frames'[k].executor # NullExecutor
  BY <1>4, <1>5, <1>7
<1> QED
  BY <1>3, <1>8, <1>9, <1>10 DEF FramesInv, KnowsWayBack

LEMMA DeeperChain ==
    ASSUME TypeInv, FramesInv, frames # <<>>, root' = root, NEW g \in Frame, NEW h \in Frame,
           KnowsWayBack(g), g.executor = Top.executor,
           KnowsWayBack(h), root = "via" => h.executor # NullExecutor,
           g.wrapped \/ h.executor = g.executor,
           frames' = Append(WithTop(g), h)
    PROVE  FramesInv' /\ Top' = h
<1>1. frames \in Seq(Frame)
  BY DEF TypeInv, TypeOK
<1>2. PICK m : m = Len(frames)
  OBVIOUS
<1>3. /\ frames' \in Seq(Frame) /\ Len(frames') = m + 1
      /\ \A k \in 1 .. m - 1 : frames'[k] = frames[k]
      /\ frames'[m] = g /\ frames'[m + 1] = h
  BY <1>1, <1>2, DeeperOf
<1>4. /\ m \in Nat \ {0} /\ DOMAIN frames = 1 .. m /\ DOMAIN frames' = 1 .. m + 1
      /\ g.executor = frames[m].executor
  BY <1>1, <1>2, <1>3, FrontOf DEF Top
<1>5. /\ \A k \in 1 .. m : KnowsWayBack(frames[k])
                            /\ (root = "via" => frames[k].executor # NullExecutor)
      /\ \A k \in 1 .. m - 1 : frames[k].wrapped \/ frames[k + 1].executor = frames[k].executor
  BY <1>2, <1>4 DEF FramesInv
<1>6. \A k \in 1 .. m + 1 :
        k = m + 1 \/ k = m \/ (k \in 1 .. m - 1 /\ frames'[k] = frames[k])
  BY <1>3, <1>4
<1>7. ASSUME NEW k \in 1 .. m
      PROVE  \E x : x = frames'[k] /\ KnowsWayBack(x) /\ x.executor = frames[k].executor
  BY <1>3, <1>4, <1>5, <1>6
<1>8. ASSUME NEW k \in 1 .. m
      PROVE  frames'[k].wrapped \/ frames'[k + 1].executor = frames'[k].executor
  <2>1. CASE k = m
    BY <1>3, <2>1
  <2>2. CASE k # m
    <3>1. k \in 1 .. m - 1 /\ k + 1 \in 1 .. m /\ frames'[k] = frames[k]
      BY <1>3, <1>4, <2>2
    <3>2. frames'[k + 1].executor = frames[k + 1].executor
      BY <1>7, <3>1
    <3> QED
      BY <1>5, <3>1, <3>2
  <2> QED
    BY <2>1, <2>2
<1>9. Top' = h
  BY <1>3 DEF Top
<1>10. \A k \in DOMAIN frames' :
         /\ KnowsWayBack(frames'[k])
         /\ root' = "via" => frames'[k].executor # NullExecutor
  <2>1. \A k \in DOMAIN frames' : k \in 1 .. m \/ k = m + 1
    BY <1>4
  <2> QED
    BY <1>3, <1>5, <1>7, <2>1
<1>11. \A k \in 1 .. Len(frames') - 1 : k \in 1 .. m
  BY <1>3, <1>4
<1> QED
  BY <1>8, <1>9, <1>10, <1>11 DEF FramesInv, KnowsWayBack

LEMMA BackChain ==
    ASSUME TypeInv, FramesInv, frames # <<>>, Len(frames) # 1, root' = root,
           frames' = Front(frames)
    PROVE  /\ FramesInv' /\ Top' = frames[Len(frames) - 1]
           /\ frames[Len(frames) - 1] \in Frame /\ KnowsWayBack(frames[Len(frames) - 1])
           /\ \/ frames[Len(frames) - 1].wrapped
              \/ Top.executor = frames[Len(frames) - 1].executor
<1>1. frames \in Seq(Frame)
  BY DEF TypeInv, TypeOK
<1>2. PICK m : m = Len(frames)
  OBVIOUS
<1>3. /\ frames' \in Seq(Frame) /\ Len(frames') = m - 1
      /\ \A k \in 1 .. m - 1 : frames'[k] = frames[k]
      /\ m \in Nat \ {0}
  BY <1>1, <1>2, FrontOf
<1>4. m - 1 \in 1 .. m - 1 /\ DOMAIN frames' = 1 .. m - 1 /\ DOMAIN frames = 1 .. m
  BY <1>1, <1>2, <1>3
<1>5. /\ \A k \in 1 .. m : KnowsWayBack(frames[k])
                            /\ (root = "via" => frames[k].executor # NullExecutor)
      /\ \A k \in 1 .. m - 1 : frames[k].wrapped \/ frames[k + 1].executor = frames[k].executor
  BY <1>2, <1>4 DEF FramesInv
<1>6. Top' = frames[m - 1] /\ frames[m - 1] \in Frame
  BY <1>1, <1>2, <1>3, <1>4 DEF Top
<1>7. \A k \in 1 .. m - 1 : k \in 1 .. m
  BY <1>3
<1>8. \A k \in DOMAIN frames' :
        /\ KnowsWayBack(frames'[k])
        /\ root' = "via" => frames'[k].executor # NullExecutor
  BY <1>3, <1>4, <1>5, <1>7
<1>9. \A k \in 1 .. Len(frames') - 1 :
        frames'[k].wrapped \/ frames'[k + 1].executor = frames'[k].executor
  <2>1. \A k \in 1 .. Len(frames') - 1 : k \in 1 .. m - 1 /\ k + 1 \in 1 .. m - 1
    BY <1>3
  <2> QED
    BY <1>3, <1>5, <2>1
<1>10. (m - 1) + 1 = m
  BY <1>3
<1> QED
  BY <1>2, <1>4, <1>5, <1>6, <1>7, <1>8, <1>9, <1>10 DEF FramesInv, KnowsWayBack, Top

\* What a coroutine that runs on its own executor leaves in the chain when it awaits.
LEMMA AwaitFrames ==
    ASSUME TypeInv, ChainInv, place = "running"
    PROVE  /\ frames # <<>> /\ Top \in Frame
           /\ Top.executor \in Executors \union {NullExecutor}
           /\ root = "via" => Top.executor # NullExecutor
           /\ Top.executor # NullExecutor => thread \in {Top.executor} \X WorkerIds
           /\ Unwrapped \in Frame /\ KnowsWayBack(Unwrapped) /\ ~Unwrapped.wrapped
           /\ Unwrapped.executor = Top.executor /\ Unwrapped.home = NoThread
           /\ Wrapped \in Frame /\ KnowsWayBack(Wrapped) /\ Wrapped.wrapped
           /\ Wrapped.executor = Top.executor
           /\ Top.executor # NullExecutor => Wrapped.context \in WorkerIds
<1>1. frames # <<>>
  BY DEF TypeInv, ResultInv, Ended
<1>2. Top \in Frame /\ Unwrapped \in Frame /\ Wrapped \in Frame
  BY <1>1, FrameTypes
<1>3. Top.executor \in Executors \union {NullExecutor}
  BY <1>2 DEF Frame
<1>4. Top.executor # NullExecutor => thread \in {Top.executor} \X WorkerIds
  BY DEF ChainInv, HandleInv
<1>5. root = "via" => Top.executor # NullExecutor
  <2>1. frames \in Seq(Frame)
    BY DEF TypeInv, TypeOK
  <2>2. Len(frames) \in DOMAIN frames
    BY <1>1, <2>1
  <2> QED
    BY <2>2 DEF ChainInv, FramesInv, Top
<1>6. /\ Unwrapped.executor = Top.executor /\ Unwrapped.home = NoThread
      /\ ~Unwrapped.wrapped /\ KnowsWayBack(Unwrapped)
  BY DEF Unwrapped, Coroutine, KnowsWayBack
<1>7. CASE Top.executor = NullExecutor
  <2>1. Wrapped = [Unwrapped EXCEPT !.wrapped = TRUE]
    BY <1>7 DEF Wrapped
  <2>2. Wrapped.wrapped /\ Wrapped.executor = Top.executor /\ Wrapped.home = NoThread
    BY <1>2, <1>6, <2>1 DEF Frame
  <2> QED
    BY <1>1, <1>2, <1>3, <1>4, <1>5, <1>6, <1>7, <2>2 DEF KnowsWayBack
<1>8. CASE Top.executor # NullExecutor
  <2>1. Wrapped = [Unwrapped EXCEPT !.wrapped = TRUE,
                     !.context = GetCurrentId(Top.executor, thread), !.home = thread]
    BY <1>8 DEF Wrapped
  <2>2. PICK c : c = GetCurrentId(Top.executor, thread)
    OBVIOUS
  <2>3. c \in WorkerIds /\ thread = <<Top.executor, c>>
    BY <1>4, <1>8, <2>2, CurrentId, ExecutorsAssumption
  <2>4. /\ Wrapped.wrapped /\ Wrapped.executor = Top.executor
        /\ Wrapped.home = thread /\ Wrapped.context = c
    BY <1>2, <1>6, <2>1, <2>2 DEF Frame
  <2>5. KnowsWayBack(Wrapped) /\ Wrapped.context \in WorkerIds
    <3>1. PICK g : g = Wrapped
      OBVIOUS
    <3>2. /\ g.wrapped /\ g.executor # NullExecutor /\ g.context \in WorkerIds
          /\ g.home = <<g.executor, g.context>>
      BY <1>8, <2>3, <2>4, <3>1
    <3> QED
      BY <3>1, <3>2 DEF KnowsWayBack
  <2> QED
    BY <1>1, <1>2, <1>3, <1>4, <1>5, <1>6, <2>4, <2>5
<1> QED
  BY <1>7, <1>8

LEMMA ScheduleHandle ==
    ASSUME NEW e \in Executors, Schedule(e), fault = "none"
    PROVE  /\ fault' = "none" /\ target' = <<e, -1>> /\ place' \in {"queued", "refused"}
BY ExecutorsAssumption DEF Schedule

\* A ViaCoroutine brings its coroutine back to where that was checked out.
LEMMA GoBackHandle ==
    ASSUME NEW g \in Frame, KnowsWayBack(g), g.wrapped, NEW t, ViaCoroutineEnds(g, t),
           fault = "none", Top' = g
    PROVE  fault' = "none" /\ HandleInv'
<1>1. CASE g.executor = NullExecutor
  <2>1. place' = "running" /\ fault' = "none"
    BY <1>1 DEF ViaCoroutineEnds
  <2> QED
    BY <1>1, <2>1 DEF HandleInv, KnowsWayBack
<1>2. CASE g.executor # NullExecutor
  <2>1. Checkin(g.executor, g.context, t)
    BY <1>2 DEF ViaCoroutineEnds
  <2>2. g.context \in WorkerIds /\ g.context # -1 /\ g.home = <<g.executor, g.context>>
    BY <1>2, ExecutorsAssumption DEF KnowsWayBack
  <2>3. CASE GetCurrentId(g.executor, t) = g.context
    <3>1. place' = "running" /\ thread' = t /\ fault' = "none"
      BY <2>1, <2>2, <2>3 DEF Checkin
    <3>2. t = <<g.executor, g.context>>
      BY <2>2, <2>3, CurrentId
    <3>3. thread' \in {g.executor} \X WorkerIds /\ thread' = g.home
      BY <2>2, <3>1, <3>2
    <3> QED
      BY <3>1, <3>3 DEF HandleInv
  <2>4. CASE GetCurrentId(g.executor, t) # g.context
    <3>1. /\ place' \in {"queued", "refused"} /\ target' = <<g.executor, g.context>>
          /\ fault' = "none"
      BY <2>1, <2>2, <2>4 DEF Checkin
    <3> QED
      BY <2>2, <3>1 DEF HandleInv
  <2> QED
    BY <2>3, <2>4
<1> QED
  BY <1>1, <1>2

LEMMA ChainInit == Init => ChainInv
<1> SUFFICES ASSUME Init PROVE ChainInv
  OBVIOUS
<1>1. frames = <<>> /\ place = "new" /\ fault = "none"
  BY DEF Init
<1> QED
  BY <1>1 DEF ChainInv, FramesInv, HandleInv

LEMMA ChainStep ==
    ASSUME KeepsToExecutor, TypeInv, ChainInv, [Next]_vars
    PROVE  ChainInv'
<1>f. FramesInv /\ fault = "none"
  BY DEF ChainInv
<1>r. root \in {"via", "plain"} /\ "foreign" \notin Awaits[root]
      /\ (root = "plain" => "yield" \notin Awaits[root])
  BY DEF KeepsToExecutor, TypeInv, TypeOK
<1>e. NullExecutor \notin Executors /\ -1 \notin WorkerIds
  BY ExecutorsAssumption
<1>1. CASE UNCHANGED vars
  BY <1>1 DEF vars, ChainInv, FramesInv, HandleInv, Top, KnowsWayBack
<1>2. ASSUME NEW kind, CanAwait(kind)
      PROVE  place = "running" /\ root' = root /\ kind \in Awaits[root]
  BY <1>2 DEF CanAwait
<1>4. CASE AwaitLazy
  <2>1. /\ place = "running" /\ root' = root
        /\ frames' = Append(WithTop(Unwrapped), Coroutine(Top.executor))
        /\ UNCHANGED <<place, thread, target, fault>>
    BY <1>2, <1>4 DEF AwaitLazy
  <2>2. PICK h : h = Coroutine(Top.executor)
    OBVIOUS
  <2>3. h \in Frame /\ h.executor = Top.executor /\ h.home = NoThread /\ KnowsWayBack(h)
    BY <2>1, <2>2, AwaitFrames, FrameTypes DEF Coroutine, KnowsWayBack
  <2>4. FramesInv' /\ Top' = h
    BY <1>f, <2>1, <2>2, <2>3, AwaitFrames, DeeperChain
  <2>5. HandleInv'
    BY <2>1, <2>3, <2>4, AwaitFrames DEF HandleInv
  <2> QED
    BY <1>f, <2>1, <2>4, <2>5 DEF ChainInv
<1>5. ASSUME NEW e \in Executors, AwaitVia(e) PROVE ChainInv'
  <2>1. /\ place = "running" /\ root' = root
        /\ frames' = Append(WithTop(Wrapped), Coroutine(e)) /\ Schedule(e)
    BY <1>2, <1>5 DEF AwaitVia
  <2>2. PICK h : h = Coroutine(e)
    OBVIOUS
  <2>3. h \in Frame /\ h.executor = e /\ h.home = NoThread /\ KnowsWayBack(h)
    BY <2>1, <2>2, AwaitFrames, FrameTypes DEF Coroutine, KnowsWayBack
  <2>4. FramesInv' /\ Top' = h
    BY <1>e, <1>f, <2>1, <2>2, <2>3, AwaitFrames, DeeperChain
  <2>5. fault' = "none" /\ target' = <<e, -1>> /\ place' \in {"queued", "refused"}
    BY <1>f, <2>1, ScheduleHandle
  <2>6. HandleInv'
    BY <2>3, <2>4, <2>5 DEF HandleInv
  <2> QED
    BY <2>4, <2>5, <2>6 DEF ChainInv
\* The awaits that leave no trace in the chain.
<1>6. ASSUME place = "running", root' = root, frames' = WithTop(Unwrapped)
      PROVE  FramesInv' /\ Top' = Unwrapped /\ Top'.executor = Top.executor /\ Top'.home = NoThread
  <2>1. FramesInv' /\ Top' = Unwrapped
    BY <1>6, <1>f, AwaitFrames, SwapChain
  <2> QED
    BY <1>6, <2>1, AwaitFrames
<1>7. ASSUME place = "running", root' = root, frames' = WithTop(Unwrapped),
             UNCHANGED <<place, thread, fault>>
      PROVE  ChainInv'
  <2>1. FramesInv' /\ Top'.executor = Top.executor /\ Top'.home = NoThread
    BY <1>6, <1>7
  <2>2. HandleInv'
    BY <1>7, <2>1, AwaitFrames DEF HandleInv
  <2> QED
    BY <1>f, <1>7, <2>1, <2>2 DEF ChainInv
<1>8. ASSUME place = "running", root' = root, frames' = WithTop(Unwrapped),
             NEW e \in Executors, e = Top.executor, Schedule(e)
      PROVE  ChainInv'
  <2>1. FramesInv' /\ Top'.executor = Top.executor /\ Top'.home = NoThread
    BY <1>6, <1>8
  <2>2. fault' = "none" /\ target' = <<e, -1>> /\ place' \in {"queued", "refused"}
    BY <1>f, <1>8, ScheduleHandle
  <2>3. HandleInv'
    BY <1>8, <2>1, <2>2 DEF HandleInv
  <2> QED
    BY <2>1, <2>2, <2>3 DEF ChainInv
<1>9. CASE AwaitYield
  <2>1. /\ place = "running" /\ root' = root /\ "yield" \in Awaits[root]
        /\ Schedule(Top.executor) /\ frames' = WithTop(Unwrapped)
    BY <1>2, <1>9 DEF AwaitYield
  <2>2. Top.executor \in Executors
    BY <1>r, <2>1, AwaitFrames
  <2> QED
    BY <1>8, <2>1, <2>2
<1>10. ASSUME NEW e \in Executors, AwaitSchedule(e) PROVE ChainInv'
  <2>1. /\ place = "running" /\ root' = root /\ frames' = WithTop(Unwrapped)
        /\ (IF e = Top.executor THEN "schedule" ELSE "foreign") \in Awaits[root]
        /\ UNCHANGED <<place, thread, fault>> \/ Schedule(e)
    BY <1>2, <1>10 DEF AwaitSchedule
  <2>2. e = Top.executor
    BY <1>r, <2>1
  <2> QED
    BY <1>7, <1>8, <2>1, <2>2
<1>11. CASE AwaitSleep
  <2>1. /\ place = "running" /\ root' = root /\ frames' = WithTop(Unwrapped)
        /\ UNCHANGED <<thread, fault>>
        /\ IF Top.executor = NullExecutor
             THEN UNCHANGED <<place, target>>
             ELSE place' = "timer" /\ target' = <<Top.executor, -1>>
    BY <1>2, <1>11 DEF AwaitSleep, ScheduleAfter
  <2>2. CASE Top.executor = NullExecutor
    BY <1>7, <2>1, <2>2
  <2>3. CASE Top.executor # NullExecutor
    <3>1. FramesInv' /\ Top'.executor = Top.executor /\ Top'.home = NoThread
      BY <1>6, <2>1
    <3>2. place' = "timer" /\ target' = <<Top.executor, -1>> /\ fault' = "none"
      BY <1>f, <2>1, <2>3
    <3>3. HandleInv'
      BY <2>3, <3>1, <3>2 DEF HandleInv
    <3> QED
      BY <3>1, <3>2, <3>3 DEF ChainInv
  <2> QED
    BY <2>2, <2>3
<1>12. CASE AwaitFuture
  <2>1. /\ place = "running" /\ root' = root /\ UNCHANGED <<thread, target, fault>>
        /\ \/ frames' = WithTop(Unwrapped) /\ UNCHANGED place
           \/ frames' = WithTop(Wrapped) /\ place' = "future"
    BY <1>2, <1>12 DEF AwaitFuture
  <2>2. CASE frames' = WithTop(Unwrapped) /\ UNCHANGED place
    BY <1>7, <2>1, <2>2
  <2>3. CASE frames' = WithTop(Wrapped) /\ place' = "future"
    <3>1. FramesInv' /\ Top' = Wrapped
      BY <1>f, <2>1, <2>3, AwaitFrames, SwapChain
    <3>2. HandleInv'
      BY <2>1, <2>3, <3>1, AwaitFrames DEF HandleInv
    <3> QED
      BY <1>f, <2>1, <3>1, <3>2 DEF ChainInv
  <2> QED
    BY <2>1, <2>2, <2>3
<1>13. CASE AwaitUnsuspended
  <2>1. /\ place = "running" /\ root' = root /\ frames' = WithTop(Unwrapped)
        /\ UNCHANGED <<place, thread>>
        /\ fault' = IF Top.executor # NullExecutor /\ Wrapped.context = -1 THEN "assert" ELSE fault
    BY <1>2, <1>13 DEF AwaitUnsuspended
  <2>2. fault' = fault
    BY <1>e, <2>1, AwaitFrames
  <2> QED
    BY <1>7, <2>1, <2>2
<1>14. CASE SyncAwait
  <2>1. PICK e \in Executors :
          /\ frames' = <<Coroutine(IF root = "plain" THEN NullExecutor ELSE e)>>
          /\ IF root = "via" THEN Schedule(e)
                             ELSE place' = "running" /\ UNCHANGED <<target, fault>>
    BY <1>14 DEF SyncAwait
  <2>2. root' = root
    BY <1>14 DEF SyncAwait
  <2>3. PICK h : h = Coroutine(IF root = "plain" THEN NullExecutor ELSE e)
    OBVIOUS
  <2>4. /\ h.executor = (IF root = "plain" THEN NullExecutor ELSE e) /\ h.home = NoThread
        /\ KnowsWayBack(h)
    BY <2>3 DEF Coroutine, KnowsWayBack
  <2>5. frames' = <<h>>
    BY <2>1, <2>3
  <2>6. Len(frames') = 1 /\ DOMAIN frames' = {1} /\ frames'[1] = h
    BY <2>5
  <2>7. Top' = h
    BY <2>6 DEF Top
  <2>8. \A k \in 1 .. Len(frames') - 1 : FALSE
    BY <2>6
  <2>9. \A k \in DOMAIN frames' :
          /\ KnowsWayBack(frames'[k])
          /\ root' = "via" => frames'[k].executor # NullExecutor
    BY <1>e, <2>2, <2>4, <2>6
  <2>10. FramesInv'
    BY <2>8, <2>9 DEF FramesInv, KnowsWayBack
  <2>11. CASE root = "via"
    <3>1. fault' = "none" /\ target' = <<e, -1>> /\ place' \in {"queued", "refused"}
      BY <1>f, <2>1, <2>11, ScheduleHandle
    <3>2. HandleInv'
      BY <2>4, <2>7, <2>11, <3>1 DEF HandleInv
    <3> QED
      BY <2>10, <3>1, <3>2 DEF ChainInv
  <2>12. CASE root = "plain"
    <3>1. fault' = "none" /\ place' = "running"
      BY <1>f, <2>1, <2>12
    <3>2. HandleInv'
      BY <2>4, <2>7, <2>12, <3>1 DEF HandleInv
    <3> QED
      BY <2>10, <3>1, <3>2 DEF ChainInv
  <2> QED
    BY <1>r, <2>11, <2>12
\* The steps that leave the chain as it is.
<1>15. ASSUME UNCHANGED <<root, frames>> PROVE FramesInv' /\ Top' = Top
  BY <1>f, <1>15 DEF FramesInv, KnowsWayBack, Top
<1>16. CASE RunQueued
  <2>1. /\ place = "queued" /\ place' = "running" /\ UNCHANGED <<root, frames, fault>>
    BY <1>16 DEF RunQueued
  <2>2. PICK w \in WorkerIds : target[2] \in {-1, w} /\ thread' = <<target[1], w>>
    BY <1>16 DEF RunQueued
  <2>3. FramesInv' /\ Top' = Top
    BY <1>15, <2>1
  <2>4. target[1] = Top.executor /\ (Top.home # NoThread => target = Top.home)
    BY <2>1 DEF ChainInv, HandleInv
  <2>5. Top.home # NoThread => thread' = Top.home
    <3>1. frames \in Seq(Frame) /\ frames # <<>>
      BY <2>1 DEF TypeInv, TypeOK, ResultInv, Ended
    <3>2. Len(frames) \in DOMAIN frames
      BY <3>1
    <3>3. KnowsWayBack(Top)
      BY <1>f, <3>2 DEF FramesInv, Top
    <3>4. Top.home # NoThread =>
            Top.context \in WorkerIds /\ Top.home = <<Top.executor, Top.context>>
      BY <3>3 DEF KnowsWayBack
    <3> QED
      BY <1>e, <2>2, <2>4, <3>4
  <2>6. HandleInv'
    BY <2>1, <2>2, <2>3, <2>4, <2>5 DEF HandleInv
  <2> QED
    BY <1>f, <2>1, <2>3, <2>6 DEF ChainInv
<1>17. CASE TimerFires
  <2>1. place = "timer" /\ Schedule(target[1]) /\ UNCHANGED <<root, frames>>
    BY <1>17 DEF TimerFires
  <2>2. FramesInv' /\ Top' = Top
    BY <1>15, <2>1
  <2>3. target[1] = Top.executor /\ Top.executor # NullExecutor /\ Top.home = NoThread
    BY <2>1 DEF ChainInv, HandleInv
  <2>4. target[1] \in Executors
    BY <2>3 DEF TypeInv, TypeOK
  <2>5. fault' = "none" /\ target' = <<target[1], -1>> /\ place' \in {"queued", "refused"}
    BY <1>f, <2>1, <2>4, ScheduleHandle
  <2>6. HandleInv'
    BY <2>2, <2>3, <2>5 DEF HandleInv
  <2> QED
    BY <2>2, <2>5, <2>6 DEF ChainInv
<1>18. CASE FutureResult
  <2>1. place = "future" /\ UNCHANGED <<root, frames>>
    BY <1>18 DEF FutureResult
  <2>2. PICK t : ViaCoroutineEnds(Top, t)
    BY <1>18 DEF FutureResult
  <2>3. FramesInv' /\ Top' = Top
    BY <1>15, <2>1
  <2>4. Top \in Frame /\ Top.wrapped /\ KnowsWayBack(Top)
    <3>1. frames \in Seq(Frame) /\ frames # <<>>
      BY <2>1 DEF TypeInv, TypeOK, ResultInv, Ended
    <3>2. Len(frames) \in DOMAIN frames
      BY <3>1
    <3> QED
      BY <1>f, <2>1, <3>1, <3>2 DEF ChainInv, FramesInv, HandleInv, Top
  <2>5. fault' = "none" /\ HandleInv'
    BY <1>f, <2>2, <2>3, <2>4, GoBackHandle
  <2> QED
    BY <2>3, <2>5 DEF ChainInv
<1>19. ASSUME NEW r \in Outcomes, Return(r) PROVE ChainInv'
  <2>1. /\ place = "running" /\ frames' = Front(frames) /\ root' = root /\ frames # <<>>
    BY <1>19 DEF Return, TypeInv, ResultInv, Ended
  <2>2. CASE Len(frames) = 1
    <3>1. place' = "store" /\ fault' = "none"
      BY <1>f, <1>19, <2>2 DEF Return
    <3>2. frames' = <<>>
      <4>1. frames \in Seq(Frame)
        BY DEF TypeInv, TypeOK
      <4>2. frames' \in Seq(Frame) /\ Len(frames') = 0
        BY <2>1, <2>2, <4>1, FrontOf
      <4> QED
        BY <4>2
    <3>3. FramesInv' /\ HandleInv'
      BY <3>1, <3>2 DEF FramesInv, HandleInv
    <3> QED
      BY <3>1, <3>3 DEF ChainInv
  <2>3. CASE Len(frames) # 1
    <3> DEFINE parent == frames[Len(frames) - 1]
    <3>1. /\ FramesInv' /\ Top' = parent /\ parent \in Frame /\ KnowsWayBack(parent)
          /\ parent.wrapped \/ Top.executor = parent.executor
      BY <1>f, <2>1, <2>3, BackChain
    <3>2. IF parent.wrapped THEN ViaCoroutineEnds(parent, thread)
                            ELSE UNCHANGED <<place, thread, target, fault>>
      BY <1>19, <2>3 DEF Return
    <3> HIDE DEF parent
    <3>3. CASE parent.wrapped
      <4>1. fault' = "none" /\ HandleInv'
        BY <1>f, <3>1, <3>2, <3>3, GoBackHandle
      <4> QED
        BY <3>1, <4>1 DEF ChainInv
    <3>4. CASE ~parent.wrapped
      <4>1. UNCHANGED <<place, thread, fault>> /\ parent.executor = Top.executor
            /\ parent.home = NoThread
        BY <3>1, <3>2, <3>4 DEF KnowsWayBack
      <4>2. HandleInv'
        BY <2>1, <3>1, <4>1, AwaitFrames DEF HandleInv
      <4> QED
        BY <1>f, <3>1, <4>1, <4>2 DEF ChainInv
    <3> QED
      BY <3>3, <3>4
  <2> QED
    BY <2>2, <2>3
<1>20. CASE StoreValue \/ ReleaseSem \/ SyncAwaitReturn
  <2>1. UNCHANGED <<root, frames, fault>>
    BY <1>20 DEF StoreValue, ReleaseSem, SyncAwaitReturn
  <2>2. place' \in {"release", "finished"}
    BY <1>20 DEF StoreValue, ReleaseSem, SyncAwaitReturn, TypeInv, ResultInv
  <2> QED
    BY <1>f, <1>15, <2>1, <2>2 DEF ChainInv, HandleInv
<1> QED
  BY <1>1, <1>4, <1>5, <1>9, <1>10, <1>11, <1>12, <1>13, <1>14, <1>16, <1>17, <1>18, <1>19, <1>20
     DEF Next, Await, Progress, Terminated

\* A program whose coroutines keep to their executors never calls a null executor and
\* never checks in with the context of a thread that is no worker (the ASSERT of
\* ScheduleById, thread_pool.hpp).
THEOREM LazyNoFault ==
    ASSUME KeepsToExecutor
    PROVE  Spec => []NoFault
<1>1. TypeInv /\ ChainInv => NoFault
  BY DEF TypeInv, ChainInv, NoFault
<1>2. TypeInv /\ ChainInv /\ [Next]_vars => ChainInv'
  BY ChainStep
<1> QED
  BY TypeInit, TypeStep, ChainInit, <1>1, <1>2, PTL DEF Spec

\* Every coroutine of such a program, at any depth of awaits and on any number of
\* executors, comes back from a future or a RescheduleLazy to the thread it left:
\* ViaCoroutine (via_coroutine.hpp) checks it in with the context it checked out.
THEOREM CoroutinesComeBack ==
    ASSUME KeepsToExecutor
    PROVE  Spec => []BackOnContext
<1>1. TypeInv /\ ChainInv => BackOnContext
  BY DEF ChainInv, HandleInv, BackOnContext
<1>2. TypeInv /\ ChainInv /\ [Next]_vars => ChainInv'
  BY ChainStep
<1> QED
  BY TypeInit, TypeStep, ChainInit, <1>1, <1>2, PTL DEF Spec

\* Every coroutine of such a program that has an executor runs on one of its workers,
\* after every kind of await: Lazy's CoAwait hands the executor down (lazy.hpp), and the
\* way back leads through that executor.
THEOREM CoroutinesStayOnExecutor ==
    ASSUME KeepsToExecutor
    PROVE  Spec => []OnOwnExecutor
<1>1. TypeInv /\ ChainInv => OnOwnExecutor
  BY CurrentId DEF ChainInv, HandleInv, OnOwnExecutor
<1>2. TypeInv /\ ChainInv /\ [Next]_vars => ChainInv'
  BY ChainStep
<1> QED
  BY TypeInit, TypeStep, ChainInit, <1>1, <1>2, PTL DEF Spec
=============================================================================
