-------------------------- MODULE CollectAnyProofs --------------------------
(***************************************************************************)
(* Theorems about CollectAny, for every number of lazies.                  *)
(***************************************************************************)
EXTENDS CollectAny, FiniteSetTheorems, TLAPS

-----------------------------------------------------------------------------
(* The inductive invariant.                                                 *)

\* The loop starts one lazy after the other, on the thread that suspended the parent.
LoopInv ==
    /\ parent = "awaiting" <=> loop = "none"
    /\ loop = "none" => i = 0 /\ inline = Null /\ ended = <<>>
    /\ loop = "start" => i < size /\ inline = Null
    /\ inline # Null => inline = i /\ loop = "check"
    /\ loop # "ended" => \A k \in Lazies : k > i \/ (k = i /\ inline = Null) => lazy[k] = "new"

\* The lazies that counted down.
Counted == {k \in Lazies : lazy[k] \in {"index", "value", "resume", "finished"}}

\* The event counts them, and the thread that starts them, who never counts down.
CountInv ==
    /\ Len(ended) = Cardinality(Counted)
    /\ parent # "awaiting" => count_ + Len(ended) = size + 1

\* Only the first to count down writes the result and resumes the parent.
WinnerInv ==
    /\ \A k \in Lazies : lazy[k] \in {"index", "value", "resume"} =>
          parent = "suspended" /\ ended # <<>> /\ ended[1] = k
    /\ ended = <<>> => parent \in {"awaiting", "suspended"}
    /\ \A k \in Lazies : lazy[k] \in {"value", "resume"} => index = k
    /\ \A k \in Lazies : lazy[k] = "resume" => value = k
    /\ parent = "resumed" => index = ended[1] /\ value = ended[1]
    /\ parent = "done" => returned = <<ended[1], ended[1]>>

IndInv == TypeOK /\ fault = "none" /\ LoopInv /\ CountInv /\ WinnerInv

-----------------------------------------------------------------------------
LEMMA LazyIsNatural ==
    /\ size \in Nat
    /\ Lazies \subseteq Nat /\ Null \notin Lazies
    /\ IsFiniteSet(Lazies) /\ Cardinality(Lazies) = size
<1>1. size \in Nat /\ Null \notin Nat
  BY CollectAnyAssumption
<1>2. IsFiniteSet(Lazies) /\ Cardinality(Lazies) = size
  BY <1>1, FS_Interval DEF Lazies
<1> QED
  BY <1>1, <1>2 DEF Lazies

\* The lazies that counted down are among the size ones, so that the counter stays
\* above zero.
LEMMA CountedBound ==
    /\ IsFiniteSet(Counted)
    /\ Cardinality(Counted) \in Nat /\ Cardinality(Counted) <= size
<1>1. Counted \in SUBSET Lazies
  BY DEF Counted
<1> QED
  BY <1>1, LazyIsNatural, FS_Subset, FS_CardinalityType

LEMMA InitInd == ASSUME Init PROVE IndInv
<1>1. Counted = {}
  BY DEF Init, Counted
<1>2. CountInv
  BY <1>1, FS_EmptySet DEF Init, CountInv
<1>3. TypeOK
  BY LazyIsNatural DEF Init, TypeOK
<1> QED
  BY <1>2, <1>3 DEF Init, IndInv, LoopInv, WinnerInv

\* An action that changes where one lazy is, on one side of the count.
LEMMA SameCount ==
    ASSUME TypeOK, NEW k \in Lazies, NEW s,
           lazy' = [lazy EXCEPT ![k] = s],
           lazy[k] \in {"index", "value", "resume", "finished"} <=>
             s \in {"index", "value", "resume", "finished"}
    PROVE  Counted' = Counted
<1>1. lazy \in [Lazies -> {lazy[q] : q \in Lazies}]
  BY DEF TypeOK
<1>2. \A q \in Lazies : lazy'[q] = IF q = k THEN s ELSE lazy[q]
  BY <1>1
<1> QED
  BY <1>2 DEF Counted

\* Start returns to the loop, or not: the loop has not reached the lazies it had not.
LEMMA LoopAfterLazy ==
    ASSUME IndInv, NEW k \in Lazies, lazy[k] # "new", NEW s,
           lazy' = [lazy EXCEPT ![k] = s],
           BackToLoop(k) \/ UNCHANGED <<inline, i>>,
           loop' = loop, parent' = parent \/ (parent # "awaiting" /\ parent' # "awaiting"),
           loop # "none"
    PROVE  LoopInv' /\ i' \in 0 .. size /\ inline' \in Lazies \union {Null}
<1>1. lazy \in [Lazies -> {lazy[q] : q \in Lazies}] /\ i \in Nat
  BY LazyIsNatural DEF IndInv, TypeOK
<1>2. \A q \in Lazies : lazy'[q] = IF q = k THEN s ELSE lazy[q]
  BY <1>1
<1>3. CASE inline = k /\ BackToLoop(k)
  <2>1. i = k /\ loop = "check" /\ i' = k + 1 /\ inline' = Null
    BY <1>3, LazyIsNatural DEF IndInv, LoopInv, BackToLoop
  <2>2. i' \in 0 .. size /\ i' > i
    BY <2>1, LazyIsNatural DEF Lazies
  <2>3. \A q \in Lazies : q > i' \/ q = i' => q > i /\ q # k
    BY <2>1, LazyIsNatural
  <2> QED
    BY <1>2, <2>1, <2>2, <2>3 DEF IndInv, LoopInv
<1>4. CASE UNCHANGED <<inline, i>>
  BY <1>2, <1>4 DEF IndInv, LoopInv, TypeOK
<1> QED
  BY <1>3, <1>4 DEF BackToLoop

-----------------------------------------------------------------------------
(* Every action keeps the invariant.                                        *)
LEMMA AwaitInd == ASSUME IndInv, Await, size # 0 PROVE IndInv'
<1>1. parent' = "suspended" /\ loop' = "check" /\ count_' = size + 1
  BY DEF Await
<1>2. UNCHANGED <<alive, i, inline, lazy, index, value, returned, ended, fault>>
  BY DEF Await, res
<1>3. TypeOK'
  BY <1>1, <1>2, LazyIsNatural DEF IndInv, TypeOK
<1>4. LoopInv' /\ WinnerInv'
  BY <1>1, <1>2 DEF IndInv, LoopInv, WinnerInv, Await
<1>5. CountInv'
  <2>1. ended = <<>> /\ Counted' = Counted
    BY <1>2 DEF IndInv, LoopInv, Await, Counted
  <2> QED
    BY <1>1, <1>2, <2>1, LazyIsNatural DEF IndInv, CountInv
<1> QED
  BY <1>2, <1>3, <1>4, <1>5 DEF IndInv

LEMMA AwaitResumeInd == ASSUME IndInv, AwaitResume, size # 0 PROVE IndInv'
<1>1. /\ parent = "resumed" /\ parent' = "done" /\ alive' = FALSE /\ fault' = fault
      /\ returned' = <<index, value>>
      /\ index' \in {index, Null} /\ value' \in {value, Null}
  BY DEF AwaitResume
<1>2. UNCHANGED <<loop, i, inline, lazy, count_, ended>>
  BY DEF AwaitResume, thread
<1>3. TypeOK'
  <2>1. index \in Lazies \union {Null} /\ value \in Lazies \union {Null}
    BY DEF IndInv, TypeOK
  <2>2. returned' \in Seq(Lazies \union {Null})
    BY <1>1, <2>1
  <2> QED
    BY <1>1, <1>2, <2>1, <2>2 DEF IndInv, TypeOK
<1>4. LoopInv'
  BY <1>1, <1>2 DEF IndInv, LoopInv
<1>5. WinnerInv'
  BY <1>1, <1>2 DEF IndInv, WinnerInv
<1>6. CountInv'
  BY <1>1, <1>2 DEF IndInv, CountInv, Counted
<1> QED
  BY <1>1, <1>3, <1>4, <1>5, <1>6 DEF IndInv

LEMMA LoopCheckInd == ASSUME IndInv, LoopCheck PROVE IndInv'
<1>1. /\ loop = "check" /\ inline = Null
      /\ loop' \in {"start", "ended"} /\ (loop' = "start" => i < size)
      /\ loop' = "start" => lazy' = lazy
  BY DEF LoopCheck
<1>2. UNCHANGED <<parent, alive, i, inline, count_, index, value, returned, ended, fault>>
  BY DEF LoopCheck, res
<1>3. /\ lazy' \in [Lazies -> {"new", "body", "suspended", "down", "index", "value",
                               "resume", "finished", "destroyed"}]
      /\ \A k \in Lazies : lazy'[k] # lazy[k] => lazy[k] = "new" /\ lazy'[k] = "destroyed"
  BY DEF LoopCheck, IndInv, TypeOK
<1>4. TypeOK'
  BY <1>1, <1>2, <1>3 DEF IndInv, TypeOK
<1>5. LoopInv'
  BY <1>1, <1>2 DEF IndInv, LoopInv
<1>6. WinnerInv'
  BY <1>1, <1>2, <1>3 DEF IndInv, WinnerInv
<1>7. Counted' = Counted
  BY <1>3 DEF Counted
<1>8. CountInv'
  BY <1>2, <1>7 DEF IndInv, CountInv
<1> QED
  BY <1>2, <1>4, <1>5, <1>6, <1>8 DEF IndInv

LEMMA StartLazyInd == ASSUME IndInv, StartLazy PROVE IndInv'
<1>1. /\ loop = "start" /\ lazy' = [lazy EXCEPT ![i] = "body"]
      /\ inline' = i /\ loop' = "check"
  BY DEF StartLazy
<1>2. UNCHANGED <<parent, alive, i, count_, index, value, returned, ended, fault>>
  BY DEF StartLazy, res
<1>3. i \in Lazies /\ inline = Null /\ i # Null /\ lazy[i] = "new"
  BY <1>1, LazyIsNatural DEF IndInv, LoopInv, TypeOK, Lazies
<1>4. \A k \in Lazies : lazy'[k] = IF k = i THEN "body" ELSE lazy[k]
  BY <1>1, <1>3 DEF IndInv, TypeOK
<1>5. TypeOK'
  BY <1>1, <1>2, <1>3 DEF IndInv, TypeOK
<1>6. LoopInv'
  <2>1. \A k \in Lazies : k > i => lazy'[k] = lazy[k]
    BY <1>3, <1>4, LazyIsNatural
  <2> QED
    BY <1>1, <1>2, <1>3, <2>1 DEF IndInv, LoopInv
<1>7. WinnerInv'
  BY <1>2, <1>3, <1>4 DEF IndInv, WinnerInv
<1>8. Counted' = Counted
  BY <1>1, <1>3, SameCount DEF IndInv
<1>9. CountInv'
  BY <1>2, <1>8 DEF IndInv, CountInv
<1> QED
  BY <1>2, <1>5, <1>6, <1>7, <1>9 DEF IndInv

\* The steps of a lazy before it counts down.
LEMMA BodyInd ==
    ASSUME IndInv, NEW k \in Lazies, SuspendLazy(k) \/ FinishLazy(k) PROVE IndInv'
<1>1. PICK s \in {"suspended", "down"} : lazy' = [lazy EXCEPT ![k] = s]
  BY DEF SuspendLazy, FinishLazy
<1>2. lazy[k] \in {"body", "suspended"}
  BY DEF SuspendLazy, FinishLazy
<1>3. UNCHANGED <<parent, alive, loop, count_, index, value, returned, ended, fault>>
  BY DEF SuspendLazy, FinishLazy, thread, res
<1>4. BackToLoop(k) \/ UNCHANGED <<inline, i>>
  BY DEF SuspendLazy, FinishLazy, thread
<1>5. loop # "none"
  BY <1>2, LazyIsNatural DEF IndInv, LoopInv, Lazies
<1>6. LoopInv' /\ i' \in 0 .. size /\ inline' \in Lazies \union {Null}
  BY <1>1, <1>2, <1>3, <1>4, <1>5, LoopAfterLazy
<1>7. TypeOK'
  BY <1>1, <1>3, <1>6 DEF IndInv, TypeOK
<1>8. \A q \in Lazies : lazy'[q] = IF q = k THEN s ELSE lazy[q]
  BY <1>1 DEF IndInv, TypeOK
<1>9. WinnerInv'
  BY <1>3, <1>8 DEF IndInv, WinnerInv
<1>10. Counted' = Counted
  BY <1>1, <1>2, SameCount DEF IndInv
<1>11. CountInv'
  BY <1>3, <1>10 DEF IndInv, CountInv
<1> QED
  BY <1>3, <1>6, <1>7, <1>9, <1>11 DEF IndInv

LEMMA DownCountInd == ASSUME IndInv, NEW k \in Lazies, DownCount(k) PROVE IndInv'
<1> DEFINE s == IF Wins(count_) THEN "index" ELSE "finished"
<1>1. /\ lazy[k] = "down" /\ lazy' = [lazy EXCEPT ![k] = s]
      /\ count_' = count_ - 1 /\ ended' = Append(ended, k)
      /\ BackToLoop(k) \/ UNCHANGED <<inline, i>>
  BY DEF DownCount
<1>2. UNCHANGED <<parent, alive, loop, index, value, returned, fault>>
  BY DEF DownCount, res
<1>3. s \in {"index", "finished"}
  OBVIOUS
<1>4. loop # "none"
  BY <1>1, LazyIsNatural DEF IndInv, LoopInv, Lazies
<1>5. parent # "awaiting"
  BY <1>4 DEF IndInv, LoopInv
<1>6. LoopInv' /\ i' \in 0 .. size /\ inline' \in Lazies \union {Null}
  BY <1>1, <1>2, <1>4, LoopAfterLazy
<1>7. \A q \in Lazies : lazy'[q] = IF q = k THEN s ELSE lazy[q]
  BY <1>1 DEF IndInv, TypeOK
<1>8. k \notin Counted /\ Counted' = Counted \union {k}
  BY <1>1, <1>3, <1>7 DEF Counted
<1>9. Cardinality(Counted') = Cardinality(Counted) + 1
  BY <1>8, CountedBound, FS_AddElement
<1>10. /\ ended' \in Seq(Lazies) /\ Len(ended') = Len(ended) + 1
       /\ ended' # <<>> /\ ended'[1] = IF ended = <<>> THEN k ELSE ended[1]
  BY <1>1 DEF IndInv, TypeOK
<1>11. CountInv'
  <2>1. Len(ended') = Cardinality(Counted') /\ count_' + Len(ended') = count_ + Len(ended)
    BY <1>1, <1>9, <1>10, CountedBound DEF IndInv, CountInv, TypeOK
  <2> QED
    BY <1>2, <1>5, <2>1 DEF IndInv, CountInv
<1>12. count_ > 0 /\ (Wins(count_) <=> ended = <<>>)
  <2>1. Cardinality(Counted) \in Nat /\ Cardinality(Counted) <= size /\ size \in Nat
    BY CountedBound, LazyIsNatural
  <2>2. count_ \in Nat
    BY <2>1 DEF IndInv, TypeOK
  <2>3. count_ + Len(ended) = size + 1 /\ Len(ended) = Cardinality(Counted)
    BY <1>5 DEF IndInv, CountInv
  <2>4. Len(ended) = 0 <=> ended = <<>>
    BY DEF IndInv, TypeOK
  <2> QED
    BY <2>1, <2>2, <2>3, <2>4 DEF Wins
<1>13. TypeOK'
  <2>1. count_' \in 0 .. size + 1
    BY <1>1, <1>12, LazyIsNatural DEF IndInv, TypeOK
  <2> QED
    BY <1>1, <1>2, <1>6, <1>10, <2>1 DEF IndInv, TypeOK
<1>14. WinnerInv'
  <2>1. CASE ended = <<>>
    <3>1. parent = "suspended" /\ ended'[1] = k
      BY <1>5, <1>10, <2>1 DEF IndInv, WinnerInv
    <3>2. \A q \in Lazies : lazy[q] \notin {"index", "value", "resume"}
      BY <2>1 DEF IndInv, WinnerInv
    <3> QED
      BY <1>2, <1>3, <1>7, <1>10, <3>1, <3>2 DEF WinnerInv
  <2>2. CASE ended # <<>>
    <3>1. s = "finished" /\ ended'[1] = ended[1]
      BY <1>10, <1>12, <2>2
    <3>2. \A q \in Lazies : lazy'[q] \in {"index", "value", "resume"} => lazy'[q] = lazy[q]
      BY <1>7, <3>1
    <3> HIDE DEF s
    <3> QED
      BY <1>2, <1>10, <2>2, <3>1, <3>2 DEF IndInv, WinnerInv
  <2> QED
    BY <2>1, <2>2
<1> QED
  BY <1>2, <1>6, <1>11, <1>13, <1>14 DEF IndInv

\* The winner writes the index, then the value.
LEMMA StoreInd ==
    ASSUME IndInv, NEW k \in Lazies, StoreIndex(k) \/ StoreValue(k) PROVE IndInv'
<1>1. PICK s \in {"value", "resume"} : lazy' = [lazy EXCEPT ![k] = s]
  BY DEF StoreIndex, StoreValue
<1>2. /\ lazy[k] \in {"index", "value"}
      /\ UNCHANGED <<parent, alive, loop, i, inline, count_, returned, ended, fault>>
  BY DEF StoreIndex, StoreValue, thread
<1>3. loop # "none"
  BY <1>2, LazyIsNatural DEF IndInv, LoopInv, Lazies
<1>4. LoopInv' /\ i' \in 0 .. size /\ inline' \in Lazies \union {Null}
  BY <1>1, <1>2, <1>3, LoopAfterLazy
<1>5. index' \in Lazies \union {Null} /\ value' \in Lazies \union {Null}
  BY DEF StoreIndex, StoreValue, IndInv, TypeOK
<1>6. TypeOK'
  BY <1>1, <1>2, <1>5 DEF IndInv, TypeOK
<1>7. \A q \in Lazies : lazy'[q] = IF q = k THEN s ELSE lazy[q]
  BY <1>1 DEF IndInv, TypeOK
<1>8. Counted' = Counted
  BY <1>1, <1>2, SameCount DEF IndInv
<1>9. CountInv'
  BY <1>2, <1>8 DEF IndInv, CountInv
<1>10. parent = "suspended" /\ ended # <<>> /\ ended[1] = k
  BY <1>2 DEF IndInv, WinnerInv
<1>11. \A q \in Lazies : lazy'[q] \in {"index", "value", "resume"} => q = k
  BY <1>7, <1>10 DEF IndInv, WinnerInv
<1>12. lazy'[k] = s /\ index' = k /\ (s = "resume" => value' = k)
  <2>1. CASE StoreIndex(k)
    BY <1>1, <1>7, <2>1 DEF StoreIndex, IndInv, TypeOK
  <2>2. CASE StoreValue(k)
    BY <1>7, <2>2 DEF StoreValue, IndInv, WinnerInv
  <2> QED
    BY <2>1, <2>2
<1>13. WinnerInv'
  BY <1>2, <1>10, <1>11, <1>12 DEF WinnerInv
<1> QED
  BY <1>2, <1>4, <1>6, <1>9, <1>13 DEF IndInv

LEMMA ResumeInd == ASSUME IndInv, NEW k \in Lazies, Resume(k) PROVE IndInv'
<1>1. /\ lazy[k] = "resume" /\ lazy' = [lazy EXCEPT ![k] = "finished"]
      /\ parent' = "resumed" /\ BackToLoop(k)
      /\ fault' = IF parent = "suspended" THEN fault ELSE "double_resume"
  BY DEF Resume
<1>2. UNCHANGED <<alive, loop, count_, index, value, returned, ended>>
  BY DEF Resume, res
<1>3. /\ parent = "suspended" /\ ended # <<>> /\ ended[1] = k
      /\ index = k /\ value = k
  BY <1>1 DEF IndInv, WinnerInv
<1>4. loop # "none"
  BY <1>3 DEF IndInv, LoopInv
<1>5. LoopInv' /\ i' \in 0 .. size /\ inline' \in Lazies \union {Null}
  BY <1>1, <1>2, <1>3, <1>4, LoopAfterLazy
<1>6. TypeOK'
  BY <1>1, <1>2, <1>3, <1>5 DEF IndInv, TypeOK
<1>7. \A q \in Lazies : lazy'[q] = IF q = k THEN "finished" ELSE lazy[q]
  BY <1>1 DEF IndInv, TypeOK
<1>8. Counted' = Counted
  BY <1>1, SameCount DEF IndInv
<1>9. CountInv'
  BY <1>1, <1>2, <1>3, <1>8 DEF IndInv, CountInv
<1>10. WinnerInv'
  <2>1. \A q \in Lazies : lazy'[q] \notin {"index", "value", "resume"}
    BY <1>3, <1>7 DEF IndInv, WinnerInv
  <2> QED
    BY <1>1, <1>2, <1>3, <2>1 DEF WinnerInv
<1> QED
  BY <1>1, <1>3, <1>5, <1>6, <1>9, <1>10 DEF IndInv

LEMMA StepInd == ASSUME IndInv, [Next]_vars, size # 0 PROVE IndInv'
<1>1. CASE ParentStep
  BY <1>1, AwaitInd, AwaitResumeInd DEF ParentStep
<1>2. CASE LoopThread
  BY <1>2, LoopCheckInd, StartLazyInd DEF LoopThread
<1>3. ASSUME NEW k \in Lazies, FinishLazy(k) \/ SuspendLazy(k) PROVE IndInv'
  BY <1>3, BodyInd
<1>4. ASSUME NEW k \in Lazies, Callback(k) PROVE IndInv'
  BY <1>4, DownCountInd, StoreInd, ResumeInd DEF Callback
<1>5. CASE UNCHANGED vars
  <2>1. /\ UNCHANGED <<parent, alive, loop, i, inline, lazy, count_, index, value>>
        /\ UNCHANGED <<returned, ended, fault>>
    BY <1>5 DEF vars, thread, res
  <2> QED
    BY <2>1 DEF IndInv, TypeOK, LoopInv, CountInv, Counted, WinnerInv
<1> QED
  BY <1>1, <1>2, <1>3, <1>4, <1>5 DEF Next, Terminated

-----------------------------------------------------------------------------
(* The theorems.  An empty input is excluded: await_resume's ASSERT fails on it.    *)

\* CollectAny of at least one lazy: the event counts every lazy that ends and the thread
\* that starts them, the first to count down finds size + 1, and nobody else resumes.
THEOREM Inductive == ASSUME size # 0 PROVE Spec => []IndInv
<1>1. Init => IndInv
  BY InitInd
<1>2. IndInv /\ [Next]_vars => IndInv'
  BY StepInd
<1> QED
  BY <1>1, <1>2, PTL DEF Spec

\* The loop may go on, and the losers end, long after the parent and its awaiter are
\* gone: the parent is resumed once, and await_resume finds a result.
THEOREM AnyNoFault == ASSUME size # 0 PROVE Spec => []NoFault
<1>1. IndInv => NoFault
  BY DEF IndInv, NoFault
<1> QED
  BY <1>1, Inductive, PTL

\* The parent gets the index and the value of the lazy that was first to count down, never
\* a half-written result nor that of a loser.
THEOREM AnyFirstWins == ASSUME size # 0 PROVE Spec => []FirstWins
<1>1. IndInv => FirstWins
  BY DEF IndInv, WinnerInv, FirstWins
<1> QED
  BY <1>1, Inductive, PTL
=============================================================================
