-------------------------- MODULE CollectAllProofs --------------------------
(***************************************************************************)
(* Theorems about CollectAll, for every number of lazies, every window and *)
(* every call.                                                             *)
(***************************************************************************)
EXTENDS CollectAll, FiniteSetTheorems, TLAPS

-----------------------------------------------------------------------------
(* The inductive invariant.                                                 *)

\* The first lazy of the present group.
First == start - Cardinality(group)

\* The groups follow each other, and the awaiter lives as long as the parent awaits one.
GroupInv ==
    /\ First \in Nat /\ group = First .. start - 1
    /\ Windowed => Cardinality(group) <= max_concurrency
    /\ ~Windowed /\ parent # "next" => start = input_size
    /\ parent = "returned" => start = input_size
    /\ parent \in {"yield", "yielding", "refused"} => Windowed
    /\ alive <=> parent \in {"suspended", "resumed"}
    /\ parent # "suspended" => loop = "none"

\* Only lazies of the present group are under way, and only while the parent is suspended.
LazyInv ==
    /\ \A k \in Lazies : k >= start => lazy[k] = "new"
    /\ \A k \in Lazies :
          k < start /\ (k \notin group \/ parent # "suspended") => lazy[k] = "finished"

\* The loop starts one lazy after the other.
LoopInv ==
    /\ inline # Null => loop = "loop" /\ inline = i
    /\ loop = "loop" =>
          \A k \in group : k > i \/ (k = i /\ inline = Null) => lazy[k] = "new"

\* What the event still counts: the lazies, and the thread that starts them.
Pending == {k \in group : lazy[k] \notin {"resume", "finished"}}
Starter == IF loop \in {"loop", "set", "down"} THEN 1 ELSE 0

CountInv == parent = "suspended" => count_ = Cardinality(Pending) + Starter

\* The one that resumes the parent is alone, and nothing is left to count.
ResumeInv ==
    /\ loop = "resume" => count_ = 0
    /\ \A k \in Lazies : lazy[k] = "resume" => count_ = 0 /\ loop = "none"
    /\ \A j, k \in Lazies : lazy[j] = "resume" /\ lazy[k] = "resume" => j = k

\* The lazies whose results the parent has.
Done == IF parent \in {"suspended", "resumed"} THEN First ELSE start

ResultInv ==
    /\ parent \in {"suspended", "resumed"} =>
          \A k \in group : lazy[k] \in {"down", "resume", "finished"} => output[k] = k
    /\ call.variadic =>
          \A k \in Lazies : lazy[k] \in {"store", "down", "resume", "finished"} => tuple[k] = k
    /\ parent = "returned" \/ ~call.variadic => results = [k \in 1 .. Done |-> k - 1]

IndInv ==
    /\ TypeOK /\ fault \in {"none", "null_executor"}
    /\ GroupInv /\ LazyInv /\ LoopInv /\ CountInv /\ ResumeInv /\ ResultInv

-----------------------------------------------------------------------------
(* Facts about the constants and the present group.                         *)
LEMMA LazyIsNatural ==
    /\ input_size \in Nat
    /\ Lazies = {k \in Nat : k < input_size} /\ Null \notin Lazies
    /\ IsFiniteSet(Lazies)
<1>1. input_size \in Nat /\ Null \notin Nat
  BY CollectAssumption
<1>2. IsFiniteSet(Lazies)
  BY <1>1, FS_Interval DEF Lazies
<1> QED
  BY <1>1, <1>2 DEF Lazies

LEMMA CallTypes ==
    ASSUME TypeOK
    PROVE  /\ max_concurrency \in Nat /\ call.variadic \in BOOLEAN
           /\ call.variadic => ~Windowed
BY CollectAssumption DEF TypeOK, Call, Windowed, max_concurrency

LEMMA GroupCount ==
    ASSUME TypeOK
    PROVE  /\ IsFiniteSet(group) /\ Cardinality(group) \in Nat
           /\ IsFiniteSet(Pending) /\ Cardinality(Pending) \in Nat
           /\ Pending = {} <=> Cardinality(Pending) = 0
           /\ Cardinality(group) <= input_size
           /\ Cardinality(Pending) <= input_size
<1>1. group \in SUBSET Lazies /\ Pending \in SUBSET Lazies
  BY DEF TypeOK, Pending
<1>2. /\ IsFiniteSet(group) /\ Cardinality(group) <= Cardinality(Lazies)
      /\ IsFiniteSet(Pending) /\ Cardinality(Pending) <= Cardinality(Lazies)
  BY <1>1, LazyIsNatural, FS_Subset
<1>3. Cardinality(Lazies) = input_size
  BY LazyIsNatural, FS_Interval DEF Lazies
<1>4. Cardinality(group) \in Nat /\ Cardinality(Pending) \in Nat
  BY <1>2, FS_CardinalityType
<1> QED
  BY <1>2, <1>3, <1>4, FS_EmptySet

\* A lazy that was started and has not ended is in the present group.
LEMMA UnderWay ==
    ASSUME IndInv, NEW k \in Lazies, lazy[k] \notin {"new", "finished"}
    PROVE  k \in group /\ k < start /\ parent = "suspended" /\ alive
<1>1. k \in Nat /\ start \in Nat
  BY LazyIsNatural DEF IndInv, TypeOK
<1> QED
  BY <1>1 DEF IndInv, LazyInv, GroupInv

LEMMA InitInd == ASSUME Init PROVE IndInv
<1>1. TypeOK
  <2>1. /\ results \in Seq(Lazies \union {Null}) /\ group \subseteq Lazies
        /\ 0 \in 0 .. input_size /\ 0 \in 0 .. input_size + 1
    BY LazyIsNatural DEF Init
  <2> QED
    BY <2>1 DEF Init, TypeOK
<1>2. Cardinality(group) = 0 /\ First = 0 /\ group = 0 .. -1
  BY FS_EmptySet DEF Init, First
<1>3. GroupInv
  <2>1. First \in Nat /\ group = First .. start - 1
    BY <1>2 DEF Init
  <2>2. Windowed => Cardinality(group) <= max_concurrency
    BY <1>1, <1>2, CallTypes
  <2>3. parent = "next" /\ alive = FALSE /\ loop = "none"
    BY DEF Init
  <2> QED
    BY <2>1, <2>2, <2>3 DEF GroupInv
<1>4. LazyInv /\ LoopInv /\ CountInv /\ ResumeInv
  BY LazyIsNatural DEF Init, LazyInv, LoopInv, CountInv, ResumeInv
<1>5. ResultInv
  BY DEF Init, ResultInv, Done
<1> QED
  BY <1>1, <1>3, <1>4, <1>5 DEF Init, IndInv

\* The end of the next group.
LEMMA GroupEndBounds ==
    ASSUME TypeOK
    PROVE  /\ GroupEnd \in Nat /\ start <= GroupEnd /\ GroupEnd <= input_size
           /\ Windowed => GroupEnd - start <= max_concurrency
           /\ ~Windowed => GroupEnd = input_size
BY LazyIsNatural, CallTypes DEF TypeOK, GroupEnd, Least

-----------------------------------------------------------------------------
(* What the steps of the loop and of the callbacks have in common.          *)

\* A lazy of the group moves while the parent is suspended.
LEMMA GroupLazyMoves ==
    ASSUME IndInv, NEW k \in group, parent = "suspended", NEW s,
           lazy' = [lazy EXCEPT ![k] = s],
           UNCHANGED <<call, parent, start, group, alive>>
    PROVE  /\ GroupInv' /\ LazyInv'
           /\ \A q \in Lazies : lazy'[q] = IF q = k THEN s ELSE lazy[q]
           /\ k \in Lazies /\ k < start
<1>1. start \in Nat /\ group \subseteq Lazies /\ k \in Nat /\ k < start
  BY LazyIsNatural, GroupCount DEF IndInv, TypeOK, GroupInv
<1>2. \A q \in Lazies : lazy'[q] = IF q = k THEN s ELSE lazy[q]
  BY DEF IndInv, TypeOK
<1>3. LazyInv'
  BY <1>1, <1>2, LazyIsNatural DEF IndInv, LazyInv
<1>4. GroupInv'
  BY DEF IndInv, GroupInv, First, Windowed, max_concurrency
<1> QED
  BY <1>1, <1>2, <1>3, <1>4

\* Start returns to the loop, or not: the loop has not reached the lazies it had not.
LEMMA LoopAfterLazy ==
    ASSUME IndInv, NEW k \in Lazies, lazy[k] # "new", NEW s,
           lazy' = [lazy EXCEPT ![k] = s],
           BackToLoop(k) \/ UNCHANGED <<inline, i>>,
           UNCHANGED <<loop, group>>
    PROVE  LoopInv' /\ i' \in 0 .. input_size /\ inline' \in Lazies \union {Null}
<1>1. i \in Nat /\ group \subseteq Lazies
  BY LazyIsNatural DEF IndInv, TypeOK
<1>2. \A q \in Lazies : lazy'[q] = IF q = k THEN s ELSE lazy[q]
  BY DEF IndInv, TypeOK
<1>3. CASE inline = k /\ BackToLoop(k)
  <2>1. i = k /\ loop = "loop" /\ i' = k + 1 /\ inline' = Null
    BY <1>3, LazyIsNatural DEF IndInv, LoopInv, BackToLoop
  <2>2. i' \in 0 .. input_size /\ i' > i
    BY <1>1, <2>1, LazyIsNatural
  <2>3. \A q \in Lazies : q > i' \/ q = i' => q > i /\ q # k
    BY <2>1, LazyIsNatural
  <2> QED
    BY <1>1, <1>2, <2>1, <2>2, <2>3 DEF IndInv, LoopInv
<1>4. CASE UNCHANGED <<inline, i>>
  BY <1>1, <1>2, <1>4 DEF IndInv, LoopInv, TypeOK
<1> QED
  BY <1>3, <1>4 DEF BackToLoop

\* A lazy moves without counting down.
LEMMA SamePending ==
    ASSUME TypeOK, NEW k \in group, NEW s,
           lazy' = [lazy EXCEPT ![k] = s], group' = group,
           lazy[k] \notin {"resume", "finished"}, s \notin {"resume", "finished"}
    PROVE  Pending' = Pending
<1>1. \A q \in Lazies : lazy'[q] = IF q = k THEN s ELSE lazy[q]
  BY DEF TypeOK
<1> QED
  BY <1>1 DEF Pending, TypeOK

\* A lazy, or the thread that starts them, counts down.
LEMMA LessPending ==
    ASSUME TypeOK, NEW k \in group, NEW s \in {"resume", "finished"},
           lazy' = [lazy EXCEPT ![k] = s], group' = group,
           lazy[k] \notin {"resume", "finished"}
    PROVE  /\ Cardinality(Pending') = Cardinality(Pending) - 1
           /\ Cardinality(Pending) > 0
<1>1. \A q \in Lazies : lazy'[q] = IF q = k THEN s ELSE lazy[q]
  BY DEF TypeOK
<1>2. k \in Pending /\ Pending' = Pending \ {k}
  BY <1>1 DEF Pending, TypeOK
<1>3. Cardinality(Pending') = Cardinality(Pending) - 1
  BY <1>2, GroupCount, FS_RemoveElement
<1> QED
  BY <1>2, <1>3, GroupCount

-----------------------------------------------------------------------------
(* The parent keeps the invariant.                                          *)
LEMMA AwaitGroupInd == ASSUME IndInv, AwaitGroup PROVE IndInv'
<1>1. /\ parent = "next" /\ group' = start .. GroupEnd - 1 /\ start' = GroupEnd
      /\ alive' = TRUE /\ count_' = GroupEnd - start + 1 /\ awaiting_coroutine_' = FALSE
      /\ output' = [k \in Lazies |-> Null]
      /\ \/ group' = {} /\ parent' = "resumed" /\ UNCHANGED <<loop, i>>
         \/ group' # {} /\ parent' = "suspended" /\ loop' = "loop" /\ i' = start
  BY DEF AwaitGroup, EventCount
<1>2. UNCHANGED <<call, tuple, inline, lazy, results, fault>>
  BY DEF AwaitGroup
<1>3. /\ start \in Nat /\ GroupEnd \in Nat /\ start <= GroupEnd /\ GroupEnd <= input_size
      /\ Windowed => GroupEnd - start <= max_concurrency
      /\ ~Windowed => GroupEnd = input_size
  BY LazyIsNatural, GroupEndBounds DEF IndInv, TypeOK
<1>4. /\ IsFiniteSet(group') /\ Cardinality(group') = GroupEnd - start
      /\ group' \subseteq Lazies
  <2>1. start \in Int /\ GroupEnd - 1 \in Int
    BY <1>3
  <2>2. /\ IsFiniteSet(start .. GroupEnd - 1)
        /\ Cardinality(start .. GroupEnd - 1) =
             IF start > GroupEnd - 1 THEN 0 ELSE GroupEnd - 1 - start + 1
    BY <2>1, FS_Interval
  <2>3. Cardinality(start .. GroupEnd - 1) = GroupEnd - start
    BY <1>3, <2>2
  <2>4. start .. GroupEnd - 1 \subseteq Lazies
    BY <1>3, LazyIsNatural
  <2> QED
    BY <1>1, <2>2, <2>3, <2>4
<1>5. loop = "none" /\ inline = Null
  BY <1>1 DEF IndInv, GroupInv, LoopInv
<1>6. TypeOK'
  <2>1. /\ start' \in 0 .. input_size /\ i' \in 0 .. input_size
        /\ count_' \in 0 .. input_size + 1
    BY <1>1, <1>3, LazyIsNatural DEF IndInv, TypeOK
  <2>2. output' \in [Lazies -> Lazies \union {Null}]
    BY <1>1
  <2> QED
    BY <1>1, <1>2, <1>4, <2>1, <2>2 DEF IndInv, TypeOK
<1>7. First' = start
  BY <1>1, <1>3, <1>4 DEF First
<1>8. Windowed' = Windowed /\ max_concurrency' = max_concurrency
  BY <1>2 DEF Windowed, max_concurrency
<1>9. GroupInv'
  <2>1. First' \in Nat /\ group' = First' .. start' - 1
    BY <1>1, <1>3, <1>7
  <2>2. Windowed' => Cardinality(group') <= max_concurrency'
    BY <1>3, <1>4, <1>8
  <2>3. ~Windowed' => start' = input_size
    BY <1>1, <1>3, <1>8
  <2>4. parent' \in {"suspended", "resumed"} /\ alive' = TRUE
        /\ (parent' # "suspended" => loop' = "none")
    BY <1>1, <1>5
  <2> QED
    BY <2>1, <2>2, <2>3, <2>4 DEF GroupInv
<1>10. \A k \in Lazies : k < start => lazy[k] = "finished"
  BY <1>1 DEF IndInv, LazyInv
<1>11. \A k \in Lazies : k >= start => lazy[k] = "new"
  BY DEF IndInv, LazyInv
<1>12. group' = {} => start' = start
  <2>1. GroupEnd > start => start \in group'
    BY <1>1, <1>3
  <2> QED
    BY <1>1, <1>3, <2>1
<1>13. LazyInv'
  <2>1. \A k \in Lazies : k >= start' => k >= start
    BY <1>1, <1>3, LazyIsNatural
  <2>2. \A k \in Lazies : k < start' /\ k \notin group' => k < start
    BY <1>1, <1>3, LazyIsNatural
  <2>3. \A k \in Lazies : k < start' /\ parent' # "suspended" => k < start
    BY <1>1, <1>12
  <2> QED
    BY <1>2, <1>10, <1>11, <2>1, <2>2, <2>3 DEF LazyInv
<1>14. \A k \in group' : lazy'[k] = "new"
  <2>1. \A k \in group' : k \in Lazies /\ k >= start
    BY <1>1, <1>3, <1>4
  <2> QED
    BY <1>2, <1>11, <2>1
<1>15. LoopInv'
  BY <1>2, <1>5, <1>14 DEF LoopInv
<1>16. CountInv'
  <2>1. Pending' = group'
    BY <1>14 DEF Pending
  <2>2. parent' = "suspended" => Starter' = 1
    BY <1>1 DEF Starter
  <2> QED
    BY <1>1, <1>4, <2>1, <2>2 DEF CountInv
<1>17. ResumeInv'
  <2>1. \A k \in Lazies : lazy[k] # "resume"
    BY <1>1, UnderWay
  <2>2. loop' # "resume"
    BY <1>1, <1>5
  <2> QED
    BY <1>2, <2>1, <2>2 DEF ResumeInv
<1>18. ResultInv'
  <2>1. Done' = Done
    BY <1>1, <1>7 DEF Done
  <2> QED
    BY <1>1, <1>2, <1>14, <2>1 DEF IndInv, ResultInv
<1> QED
  BY <1>2, <1>6, <1>9, <1>13, <1>15, <1>16, <1>17, <1>18 DEF IndInv

\* The output of a group, after the results of those before it.
LEMMA ResultsGrow ==
    ASSUME NEW n \in Nat, NEW m \in Nat, NEW out,
           \A k \in n .. n + m - 1 : out[k] = k,
           NEW r, r = [k \in 1 .. n |-> k - 1]
    PROVE  r \o [k \in 1 .. m |-> out[n + k - 1]] = [k \in 1 .. n + m |-> k - 1]
<1> DEFINE o == [k \in 1 .. m |-> out[n + k - 1]]
           both == [k \in 1 .. n + m |-> k - 1]
<1>1. o = [k \in 1 .. m |-> n + k - 1]
  OBVIOUS
<1>2. r \in Seq(Int) /\ o \in Seq(Int) /\ both \in Seq(Int)
  BY <1>1
<1>3. Len(r) = n /\ Len(o) = m /\ Len(both) = n + m
  OBVIOUS
<1>4. Len(r \o o) = n + m /\ r \o o \in Seq(Int)
  BY <1>2, <1>3
<1>5. \A k \in 1 .. n + m : (r \o o)[k] = both[k]
  BY <1>1, <1>2, <1>3
<1> QED
  BY <1>2, <1>3, <1>4, <1>5

LEMMA AwaitResumeInd == ASSUME IndInv, AwaitResume PROVE IndInv'
<1>1. /\ parent = "resumed" /\ alive' = FALSE
      /\ parent' = IF Windowed /\ call.yield THEN "yield"
                   ELSE IF start < input_size THEN "next" ELSE "returned"
      /\ call.variadic => results' = [k \in 1 .. input_size |-> tuple[k - 1]]
      /\ ~call.variadic => results' = results \o
           [k \in 1 .. Cardinality(group) |-> output[start - Cardinality(group) + k - 1]]
  BY DEF AwaitResume
<1>2. UNCHANGED <<call, tuple, start, group, count_, awaiting_coroutine_, output, loop, i,
                  inline, lazy, fault>>
  BY DEF AwaitResume, thread
<1>3. parent' \in {"yield", "next", "returned"}
  BY <1>1
<1>4. start \in Nat /\ start <= input_size /\ input_size \in Nat
  BY LazyIsNatural DEF IndInv, TypeOK
<1>5. /\ parent' = "yield" => Windowed
      /\ parent' = "returned" => start = input_size
  BY <1>1, <1>4
<1>6. \A k \in Lazies : k < start => lazy[k] = "finished"
  BY <1>1 DEF IndInv, LazyInv
<1>7. LazyInv'
  BY <1>2, <1>6 DEF IndInv, LazyInv
<1>8. LoopInv' /\ ResumeInv'
  BY <1>2 DEF IndInv, LoopInv, ResumeInv
<1>9. CountInv'
  BY <1>3 DEF CountInv
<1>10. GroupInv'
  <2>1. loop = "none"
    BY <1>1 DEF IndInv, GroupInv
  <2>2. Windowed' = Windowed /\ max_concurrency' = max_concurrency /\ First' = First
    BY <1>2 DEF Windowed, max_concurrency, First
  <2>3. ~Windowed => start = input_size
    BY <1>1 DEF IndInv, GroupInv
  <2>4. alive' <=> parent' \in {"suspended", "resumed"}
    BY <1>1, <1>3
  <2> QED
    BY <1>2, <1>3, <1>5, <2>1, <2>2, <2>3, <2>4 DEF IndInv, GroupInv
<1>11. results' \in Seq(Lazies \union {Null}) /\ ResultInv'
  <2>1. Done' = start /\ Done = First
    BY <1>1, <1>2, <1>3 DEF Done
  <2>2. CASE call.variadic
    <3>1. start = input_size /\ Lazies = 0 .. input_size - 1
      BY <1>1, <2>2, CallTypes DEF IndInv, GroupInv, Lazies
    <3>2. \A k \in 1 .. input_size : k - 1 \in Lazies /\ k - 1 < start
      BY <1>4, <3>1
    <3>3. \A k \in Lazies : k < start => tuple[k] = k
      BY <1>6, <2>2 DEF IndInv, ResultInv
    <3>4. \A k \in 1 .. input_size : tuple[k - 1] = k - 1
      BY <3>2, <3>3
    <3>5. results' = [k \in 1 .. start |-> k - 1]
      BY <1>1, <2>2, <3>1, <3>4
    <3>6. results' \in Seq(Lazies \union {Null})
      BY <1>4, <3>1, <3>2, <3>5
    <3> QED
      BY <1>2, <1>3, <2>1, <3>5, <3>6 DEF IndInv, ResultInv
  <2>3. CASE ~call.variadic
    <3>1. /\ First \in Nat /\ First + Cardinality(group) = start
          /\ group = First .. First + Cardinality(group) - 1
          /\ Cardinality(group) \in Nat
      BY <1>4, GroupCount DEF IndInv, GroupInv, First
    <3>2. results = [k \in 1 .. First |-> k - 1]
      BY <2>1, <2>3 DEF IndInv, ResultInv
    <3>3. \A k \in group : output[k] = k
      <4>1. \A k \in group : k \in Lazies /\ k < start
        BY <1>4, <3>1 DEF IndInv, TypeOK
      <4> QED
        BY <1>1, <1>6, <4>1 DEF IndInv, ResultInv
    <3>4. results' = [k \in 1 .. start |-> k - 1]
      <4> DEFINE m == Cardinality(group)
      <4>1. results' = results \o [k \in 1 .. m |-> output[First + k - 1]]
        BY <1>1, <2>3 DEF First
      <4>2. \A k \in First .. First + m - 1 : output[k] = k
        BY <3>1, <3>3
      <4>3. m \in Nat /\ First + m = start
        BY <3>1
      <4> HIDE DEF m
      <4> QED
        BY <3>1, <3>2, <4>1, <4>2, <4>3, ResultsGrow
    <3>5. \A k \in 1 .. start : k - 1 \in Lazies
      BY <1>4, LazyIsNatural
    <3>6. results' \in Seq(Lazies \union {Null})
      BY <1>4, <3>4, <3>5
    <3> QED
      BY <1>2, <1>3, <2>1, <2>3, <3>4, <3>6 DEF IndInv, ResultInv
  <2> QED
    BY <2>2, <2>3
<1>12. TypeOK'
  BY <1>1, <1>2, <1>3, <1>11 DEF IndInv, TypeOK
<1> QED
  BY <1>2, <1>7, <1>8, <1>9, <1>10, <1>11, <1>12 DEF IndInv

\* A refused yield leaves the parent where it is, for ever.
LEMMA YieldInd == ASSUME IndInv, Yield \/ YieldResume PROVE IndInv'
<1>1. /\ parent \in {"yield", "yielding"}
      /\ parent' \in {"yielding", "refused", "next", "returned"}
      /\ parent' \in {"yielding", "refused"} => parent = "yield"
      /\ parent' = "returned" => ~(start < input_size)
      /\ fault' \in {fault, "null_executor"}
  BY DEF Yield, YieldResume
<1>2. UNCHANGED <<call, tuple, start, group, alive, count_, awaiting_coroutine_, output,
                  loop, i, inline, lazy, results>>
  BY DEF Yield, YieldResume, awaiter, thread
<1>3. TypeOK'
  BY <1>1, <1>2 DEF IndInv, TypeOK
<1>4. /\ Windowed /\ loop = "none" /\ ~alive
      /\ parent' = "returned" => start = input_size
  BY <1>1, LazyIsNatural DEF IndInv, GroupInv, TypeOK
<1>5. GroupInv'
  <2>1. alive' <=> parent' \in {"suspended", "resumed"}
    BY <1>1, <1>2, <1>4
  <2>2. Windowed' = Windowed /\ max_concurrency' = max_concurrency /\ First' = First
    BY <1>2 DEF Windowed, max_concurrency, First
  <2> QED
    BY <1>1, <1>2, <1>4, <2>1, <2>2 DEF IndInv, GroupInv
<1>6. LazyInv' /\ LoopInv' /\ ResumeInv'
  BY <1>1, <1>2 DEF IndInv, LazyInv, LoopInv, ResumeInv
<1>7. CountInv'
  BY <1>1 DEF CountInv
<1>8. ResultInv'
  <2>1. ~call.variadic
    BY <1>4, CallTypes DEF IndInv
  <2>2. Done' = Done
    BY <1>1, <1>2 DEF Done
  <2> QED
    BY <1>1, <1>2, <2>1, <2>2 DEF IndInv, ResultInv
<1> QED
  BY <1>1, <1>3, <1>5, <1>6, <1>7, <1>8 DEF IndInv

-----------------------------------------------------------------------------
(* The thread in await_suspend keeps the invariant.                         *)

\* The loop reaches the end of the group: nothing but the place of the thread changes.
LEMMA LoopMoves ==
    ASSUME IndInv, parent = "suspended", inline = Null,
           Starter' = Starter, loop' # "none", loop' # "resume", loop # "none",
           loop' \in {"loop", "set", "down"}, loop' = "loop" => loop = "loop",
           fault' = fault, awaiting_coroutine_' \in BOOLEAN,
           UNCHANGED <<call, parent, start, group, alive, count_, output, i, inline, lazy,
                       results, tuple>>
    PROVE  IndInv'
<1>1. TypeOK' /\ fault' \in {"none", "null_executor"}
  BY DEF IndInv, TypeOK
<1>2. GroupInv' /\ LazyInv' /\ LoopInv'
  BY DEF IndInv, GroupInv, LazyInv, LoopInv, First, Windowed, max_concurrency
<1>3. CountInv'
  BY DEF IndInv, CountInv, Pending
<1>4. \A k \in Lazies : lazy[k] # "resume"
  BY DEF IndInv, ResumeInv
<1>5. ResumeInv'
  BY <1>4 DEF ResumeInv
<1>6. ResultInv'
  BY DEF IndInv, ResultInv, Done, First
<1> QED
  BY <1>1, <1>2, <1>3, <1>5, <1>6 DEF IndInv

LEMMA LoopStepInd == ASSUME IndInv, LoopStep PROVE IndInv'
<1>1. loop = "loop" /\ inline = Null
  BY DEF LoopStep
<1>2. parent = "suspended" /\ alive
  BY <1>1 DEF IndInv, GroupInv
<1>3. UNCHANGED <<call, tuple, parent, start, group, alive, count_, awaiting_coroutine_,
                  output, results>>
  BY DEF LoopStep, awaiter
<1>4. fault' = fault
  BY <1>2 DEF LoopStep, Touch
<1>5. CASE i \notin group
  <2>1. loop' = "set" /\ UNCHANGED <<i, inline, lazy>>
    BY <1>5 DEF LoopStep
  <2>2. awaiting_coroutine_' \in BOOLEAN
    BY <1>3 DEF IndInv, TypeOK
  <2>3. Starter' = Starter
    BY <1>1, <2>1 DEF Starter
  <2> QED
    BY <1>1, <1>2, <1>3, <1>4, <2>1, <2>2, <2>3, LoopMoves
<1>6. CASE i \in group
  <2>1. PICK s \in {"scheduled", "refused", "body"} :
           /\ lazy' = [lazy EXCEPT ![i] = s] /\ loop' = loop
           /\ \/ s # "body" /\ i' = i + 1 /\ inline' = inline
              \/ s = "body" /\ inline' = i /\ i' = i
    BY <1>6 DEF LoopStep
  <2>2. /\ GroupInv' /\ LazyInv' /\ i \in Lazies
        /\ \A q \in Lazies : lazy'[q] = IF q = i THEN s ELSE lazy[q]
    BY <1>2, <1>3, <1>6, <2>1, GroupLazyMoves
  <2>3. lazy[i] = "new"
    BY <1>1, <1>6 DEF IndInv, LoopInv
  <2>4. i \in Nat /\ i + 1 \in 0 .. input_size /\ i # Null
    BY <2>2, LazyIsNatural
  <2>5. TypeOK'
    BY <1>3, <1>4, <2>1, <2>2, <2>4 DEF IndInv, TypeOK, Unfinished
  <2>6. group \subseteq Lazies
    BY DEF IndInv, TypeOK
  <2>7. LoopInv'
    <3>1. \A q \in group : q > i => q # i /\ lazy'[q] = "new"
      BY <1>1, <2>2, <2>4, <2>6, LazyIsNatural DEF IndInv, LoopInv
    <3>2. CASE s # "body" /\ i' = i + 1 /\ inline' = inline
      <4>1. \A q \in group : q > i' \/ q = i' => q > i
        BY <2>4, <2>6, <3>2, LazyIsNatural
      <4> QED
        BY <1>1, <1>3, <2>1, <3>1, <3>2, <4>1 DEF LoopInv
    <3>3. CASE s = "body" /\ inline' = i /\ i' = i
      BY <1>1, <1>3, <2>1, <2>4, <3>1, <3>3 DEF LoopInv
    <3> QED
      BY <2>1, <3>2, <3>3
  <2>8. CountInv'
    <3>1. s \notin {"resume", "finished"}
      OBVIOUS
    <3>2. Pending' = Pending
      BY <1>3, <1>6, <2>1, <2>3, <3>1, SamePending DEF IndInv
    <3>3. Starter' = Starter
      BY <2>1 DEF Starter
    <3> QED
      BY <1>3, <3>2, <3>3 DEF IndInv, CountInv
  <2>9. ResumeInv'
    BY <1>3, <2>1, <2>2 DEF IndInv, ResumeInv
  <2>10. ResultInv'
    BY <1>3, <2>2, <2>6 DEF IndInv, ResultInv, Done, First
  <2> QED
    BY <1>4, <2>2, <2>5, <2>7, <2>8, <2>9, <2>10 DEF IndInv
<1> QED
  BY <1>5, <1>6

LEMMA SetAwaitingCoroutineInd == ASSUME IndInv, SetAwaitingCoroutine PROVE IndInv'
<1>1. /\ loop = "set" /\ loop' = "down" /\ awaiting_coroutine_' = TRUE
      /\ UNCHANGED <<call, tuple, parent, start, group, alive, count_, output, i, inline,
                     lazy, results>>
  BY DEF SetAwaitingCoroutine
<1>2. parent = "suspended" /\ alive /\ inline = Null
  BY <1>1 DEF IndInv, GroupInv, LoopInv
<1>3. fault' = fault
  BY <1>2 DEF SetAwaitingCoroutine, Touch
<1>4. Starter' = Starter
  BY <1>1 DEF Starter
<1> QED
  BY <1>1, <1>2, <1>3, <1>4, LoopMoves

LEMMA LoopDownInd == ASSUME IndInv, LoopDown PROVE IndInv'
<1>1. /\ loop = "down" /\ loop' = IF DownIsLast THEN "resume" ELSE "none"
      /\ count_' = IF count_ = 0 THEN 0 ELSE count_ - 1
      /\ UNCHANGED <<call, tuple, parent, start, group, alive, output, i, inline, lazy,
                     results>>
  BY DEF LoopDown
<1>2. awaiting_coroutine_' \in BOOLEAN
  BY DEF LoopDown
<1>3. parent = "suspended" /\ alive /\ inline = Null
  BY <1>1 DEF IndInv, GroupInv, LoopInv
<1>4. fault' = fault
  BY <1>3 DEF LoopDown, Touch
<1>5. /\ count_ \in Nat /\ count_ <= input_size + 1 /\ input_size \in Nat
      /\ Cardinality(Pending) \in Nat
  BY LazyIsNatural, GroupCount DEF IndInv, TypeOK
<1>6. count_ = Cardinality(Pending) + 1
  BY <1>1, <1>3 DEF IndInv, CountInv, Starter
<1>7. count_' = Cardinality(Pending) /\ count_' \in 0 .. input_size + 1
  BY <1>1, <1>5, <1>6
<1>8. TypeOK'
  BY <1>1, <1>2, <1>4, <1>7 DEF IndInv, TypeOK
<1>9. GroupInv' /\ LazyInv' /\ LoopInv'
  BY <1>1, <1>3 DEF IndInv, GroupInv, LazyInv, LoopInv, First, Windowed, max_concurrency
<1>10. CountInv'
  <2>1. Pending' = Pending /\ Starter' = 0
    BY <1>1 DEF Pending, Starter
  <2> QED
    BY <1>5, <1>7, <2>1 DEF CountInv
<1>11. ResumeInv'
  <2>1. \A k \in Lazies : lazy'[k] # "resume"
    BY <1>1 DEF IndInv, ResumeInv
  <2>2. loop' = "resume" => count_' = 0
    BY <1>1, <1>5 DEF DownIsLast
  <2> QED
    BY <2>1, <2>2 DEF ResumeInv
<1>12. ResultInv'
  BY <1>1 DEF IndInv, ResultInv, Done, First
<1> QED
  BY <1>4, <1>8, <1>9, <1>10, <1>11, <1>12 DEF IndInv

\* The resumption of the parent when nothing of the group is left.
LEMMA ResumeEnds ==
    ASSUME IndInv, parent = "suspended", parent' = "resumed", loop' = "none",
           inline' \in {inline, Null}, i' \in 0 .. input_size, fault' = fault,
           loop # "loop",
           lazy' \in [Lazies -> Unfinished \union {"new", "scheduled", "refused", "finished"}],
           \A k \in group : lazy'[k] = "finished",
           \A k \in Lazies \ group : lazy'[k] = lazy[k],
           \A k \in group : lazy[k] \in {"resume", "finished"},
           UNCHANGED <<call, start, group, alive, count_, awaiting_coroutine_, output,
                       results, tuple>>
    PROVE  IndInv'
<1>1. TypeOK'
  BY DEF IndInv, TypeOK
<1>2. GroupInv'
  <2>1. alive /\ (alive' <=> parent' \in {"suspended", "resumed"})
    BY DEF IndInv, GroupInv
  <2> QED
    BY <2>1 DEF IndInv, GroupInv, First, Windowed, max_concurrency
<1>3. LazyInv'
  <2>1. \A k \in Lazies : k >= start => k \notin group
    <3>1. start \in Nat
      BY LazyIsNatural DEF IndInv, TypeOK
    <3>2. \A k \in group : k < start
      BY <3>1, GroupCount DEF IndInv, GroupInv
    <3> QED
      BY <3>1, <3>2, LazyIsNatural
  <2> QED
    BY <2>1 DEF IndInv, LazyInv
<1>4. LoopInv' /\ CountInv'
  <2>1. inline' = Null
    BY DEF IndInv, LoopInv
  <2> QED
    BY <2>1 DEF LoopInv, CountInv
<1>5. \A k \in Lazies : lazy'[k] # "resume"
  <2>1. \A k \in Lazies : lazy[k] = "resume" => k \in group
    BY UnderWay
  <2> QED
    BY <2>1
<1>6. ResumeInv'
  BY <1>5 DEF ResumeInv
<1>7. ResultInv'
  <2>1. Done' = Done
    BY DEF Done, First
  <2>2. \A k \in group : output[k] = k
    BY DEF IndInv, ResultInv
  <2>3. call.variadic => \A k \in group : tuple[k] = k
    BY DEF IndInv, ResultInv, TypeOK
  <2> QED
    BY <2>1, <2>2, <2>3 DEF IndInv, ResultInv
<1> QED
  BY <1>1, <1>2, <1>3, <1>4, <1>6, <1>7 DEF IndInv

LEMMA LoopResumeInd == ASSUME IndInv, LoopResume PROVE IndInv'
<1>1. /\ loop = "resume" /\ loop' = "none" /\ parent' = "resumed"
      /\ fault' = IF parent = "suspended" THEN fault ELSE "double_resume"
  BY DEF LoopResume, Resume
<1>2. UNCHANGED <<call, tuple, start, group, alive, count_, awaiting_coroutine_, output, i,
                  inline, lazy, results>>
  BY DEF LoopResume, awaiter
<1>3. parent = "suspended" /\ count_ = 0
  BY <1>1 DEF IndInv, GroupInv, ResumeInv
<1>4. Pending = {}
  <2>1. count_ = Cardinality(Pending)
    BY <1>1, <1>3, GroupCount DEF IndInv, CountInv, Starter
  <2> QED
    BY <1>3, <2>1, GroupCount DEF IndInv
<1>5. \A k \in Lazies : lazy[k] # "resume"
  BY <1>1 DEF IndInv, ResumeInv
<1>6. \A k \in group : lazy[k] = "finished"
  BY <1>4, <1>5 DEF Pending, IndInv, TypeOK
<1>7. TypeOK
  BY DEF IndInv
<1> QED
  BY <1>1, <1>2, <1>3, <1>6, <1>7, ResumeEnds DEF TypeOK

-----------------------------------------------------------------------------
(* The lazies and their callbacks keep the invariant.                       *)

\* Up to the result, and the tuple of the variadic forms.
LEMMA BodyInd ==
    ASSUME IndInv, NEW k \in Lazies,
           StartScheduled(k) \/ SuspendLazy(k) \/ FinishLazy(k) \/ StoreOutput(k)
    PROVE  IndInv'
<1>1. PICK s \in {"body", "suspended", "store", "down"} :
         /\ lazy' = [lazy EXCEPT ![k] = s]
         /\ s = "down" => output' = [output EXCEPT ![k] = k] /\ lazy[k] = "store"
         /\ s # "down" => output' = output
         /\ s = "store" /\ call.variadic => tuple' = [tuple EXCEPT ![k] = k]
         /\ s # "store" \/ ~call.variadic => tuple' = tuple
  BY DEF StartScheduled, SuspendLazy, FinishLazy, StoreOutput, WritesTuple, awaiter
<1>2. lazy[k] \in {"scheduled", "body", "suspended", "store"}
  BY DEF StartScheduled, SuspendLazy, FinishLazy, StoreOutput
<1>3. UNCHANGED <<call, parent, start, group, alive, count_, awaiting_coroutine_, loop,
                  results>>
  BY DEF StartScheduled, SuspendLazy, FinishLazy, StoreOutput, awaiter, thread
<1>4. BackToLoop(k) \/ UNCHANGED <<inline, i>>
  BY DEF StartScheduled, SuspendLazy, FinishLazy, StoreOutput, thread
<1>5. k \in group /\ parent = "suspended" /\ alive
  BY <1>2, UnderWay
<1>6. fault' = fault
  BY <1>5 DEF StartScheduled, SuspendLazy, FinishLazy, StoreOutput, Touch, WritesTuple
<1>7. /\ GroupInv' /\ LazyInv'
      /\ \A q \in Lazies : lazy'[q] = IF q = k THEN s ELSE lazy[q]
  BY <1>1, <1>3, <1>5, GroupLazyMoves
<1>8. LoopInv' /\ i' \in 0 .. input_size /\ inline' \in Lazies \union {Null}
  BY <1>1, <1>2, <1>3, <1>4, LoopAfterLazy
<1>9. /\ output' \in [Lazies -> Lazies \union {Null}]
      /\ tuple' \in [Lazies -> Lazies \union {Null}]
      /\ \A q \in Lazies : output'[q] = IF q = k /\ s = "down" THEN k ELSE output[q]
      /\ \A q \in Lazies : tuple'[q] = IF q = k /\ s = "store" /\ call.variadic
                                       THEN k ELSE tuple[q]
  BY <1>1 DEF IndInv, TypeOK
<1>10. TypeOK'
  BY <1>1, <1>3, <1>6, <1>8, <1>9 DEF IndInv, TypeOK, Unfinished
<1>11. CountInv'
  <2>1. Pending' = Pending
    BY <1>1, <1>2, <1>3, <1>5, SamePending DEF IndInv
  <2> QED
    BY <1>3, <2>1 DEF IndInv, CountInv, Starter
<1>12. ResumeInv'
  BY <1>3, <1>7 DEF IndInv, ResumeInv
<1>13. ResultInv'
  <2>1. Done' = Done /\ group \subseteq Lazies
    BY <1>3 DEF Done, First, IndInv, TypeOK
  <2>2. \A q \in group : lazy'[q] \in {"down", "resume", "finished"} => output'[q] = q
    BY <1>5, <1>7, <1>9, <2>1 DEF IndInv, ResultInv
  <2>3. call.variadic => \A q \in Lazies :
          lazy'[q] \in {"store", "down", "resume", "finished"} => tuple'[q] = q
    BY <1>1, <1>7, <1>9 DEF IndInv, ResultInv
  <2> QED
    BY <1>3, <2>1, <2>2, <2>3 DEF IndInv, ResultInv
<1> QED
  BY <1>6, <1>7, <1>8, <1>10, <1>11, <1>12, <1>13 DEF IndInv

LEMMA DownInd == ASSUME IndInv, NEW k \in Lazies, Down(k) PROVE IndInv'
<1> DEFINE s == IF DownIsLast THEN "resume" ELSE "finished"
<1>1. /\ lazy[k] = "down" /\ lazy' = [lazy EXCEPT ![k] = s]
      /\ count_' = IF count_ = 0 THEN 0 ELSE count_ - 1
      /\ BackToLoop(k) \/ UNCHANGED <<inline, i>>
      /\ awaiting_coroutine_' \in BOOLEAN
  BY DEF Down
<1>2. UNCHANGED <<call, tuple, parent, start, group, alive, output, loop, results>>
  BY DEF Down
<1>3. k \in group /\ parent = "suspended" /\ alive
  BY <1>1, UnderWay
<1>4. fault' = fault
  BY <1>3 DEF Down, Touch
<1>5. s \in {"resume", "finished"} /\ (s = "resume" => count_ = 1)
  BY DEF DownIsLast
<1> HIDE DEF s
<1>6. /\ GroupInv' /\ LazyInv'
      /\ \A q \in Lazies : lazy'[q] = IF q = k THEN s ELSE lazy[q]
  BY <1>1, <1>2, <1>3, GroupLazyMoves
<1>7. LoopInv' /\ i' \in 0 .. input_size /\ inline' \in Lazies \union {Null}
  BY <1>1, <1>2, LoopAfterLazy
<1>8. Cardinality(Pending') = Cardinality(Pending) - 1 /\ Cardinality(Pending) > 0
  BY <1>1, <1>2, <1>3, <1>5, LessPending DEF IndInv
<1>9. /\ count_ = Cardinality(Pending) + Starter /\ Cardinality(Pending) \in Nat
      /\ count_ \in Nat /\ count_ <= input_size + 1 /\ input_size \in Nat
      /\ Starter \in {0, 1}
  BY <1>3, LazyIsNatural, GroupCount DEF IndInv, TypeOK, CountInv, Starter
<1>10. count_ > 0 /\ count_' = count_ - 1 /\ count_' \in 0 .. input_size + 1
  BY <1>1, <1>8, <1>9
<1>11. TypeOK'
  BY <1>1, <1>2, <1>4, <1>5, <1>6, <1>7, <1>10 DEF IndInv, TypeOK, Unfinished
<1>12. CountInv'
  <2>1. Starter' = Starter
    BY <1>2 DEF Starter
  <2> QED
    BY <1>8, <1>9, <1>10, <2>1 DEF CountInv
<1>13. ResumeInv'
  <2>1. loop # "resume" /\ \A q \in Lazies : lazy[q] # "resume"
    BY <1>10 DEF IndInv, ResumeInv
  <2>2. s = "resume" => count_' = 0 /\ loop = "none"
    <3>1. s = "resume" => Starter = 0 /\ count_' = 0
      BY <1>5, <1>8, <1>9, <1>10
    <3> QED
      BY <2>1, <3>1 DEF Starter, IndInv, TypeOK
  <2>3. \A q \in Lazies : lazy'[q] = "resume" => q = k /\ s = "resume"
    BY <1>6, <2>1
  <2> QED
    BY <1>2, <2>1, <2>2, <2>3 DEF ResumeInv
<1>14. ResultInv'
  <2>1. Done' = Done /\ group \subseteq Lazies
    BY <1>2 DEF Done, First, IndInv, TypeOK
  <2>2. \A q \in Lazies : lazy'[q] = lazy[q] \/ (q = k /\ lazy[q] = "down")
    BY <1>1, <1>6
  <2>3. \A q \in group : lazy'[q] \in {"down", "resume", "finished"} => output[q] = q
    BY <1>3, <2>1, <2>2 DEF IndInv, ResultInv
  <2>4. call.variadic => \A q \in Lazies :
          lazy'[q] \in {"store", "down", "resume", "finished"} => tuple[q] = q
    BY <2>2 DEF IndInv, ResultInv
  <2> QED
    BY <1>2, <2>1, <2>3, <2>4 DEF IndInv, ResultInv
<1> QED
  BY <1>4, <1>6, <1>7, <1>11, <1>12, <1>13, <1>14 DEF IndInv

LEMMA LazyResumeInd == ASSUME IndInv, NEW k \in Lazies, LazyResume(k) PROVE IndInv'
<1>1. /\ lazy[k] = "resume" /\ lazy' = [lazy EXCEPT ![k] = "finished"]
      /\ parent' = "resumed" /\ BackToLoop(k)
      /\ fault' = IF parent = "suspended" THEN fault ELSE "double_resume"
  BY DEF LazyResume, Resume
<1>2. UNCHANGED <<call, tuple, start, group, alive, count_, awaiting_coroutine_, output,
                  loop, results>>
  BY DEF LazyResume, awaiter
<1>3. k \in group /\ parent = "suspended"
  BY <1>1, UnderWay
<1>4. count_ = 0 /\ loop = "none" /\ inline = Null
  BY <1>1 DEF IndInv, ResumeInv, LoopInv
<1>5. Pending = {}
  <2>1. count_ = Cardinality(Pending)
    BY <1>3, <1>4, GroupCount DEF IndInv, CountInv, Starter
  <2> QED
    BY <1>4, <2>1, GroupCount DEF IndInv
<1>6. \A q \in group : lazy[q] \in {"resume", "finished"}
  BY <1>5 DEF Pending, IndInv, TypeOK
<1>7. \A q \in Lazies : lazy'[q] = IF q = k THEN "finished" ELSE lazy[q]
  BY <1>1 DEF IndInv, TypeOK
<1>8. \A q \in group : lazy'[q] = "finished"
  BY <1>1, <1>6, <1>7 DEF IndInv, ResumeInv, TypeOK
<1>9. /\ inline' \in {inline, Null} /\ i' \in 0 .. input_size
      /\ lazy' \in [Lazies -> Unfinished \union {"new", "scheduled", "refused", "finished"}]
  BY <1>1, <1>4, LazyIsNatural DEF BackToLoop, IndInv, TypeOK
<1>10. \A q \in Lazies \ group : lazy'[q] = lazy[q]
  BY <1>3, <1>7
<1> QED
  BY <1>1, <1>2, <1>3, <1>4, <1>6, <1>8, <1>9, <1>10, ResumeEnds

LEMMA StepInd == ASSUME IndInv, [Next]_vars PROVE IndInv'
<1>1. CASE ParentStep
  BY <1>1, AwaitGroupInd, AwaitResumeInd, YieldInd DEF ParentStep
<1>2. CASE LoopThread
  BY <1>2, LoopStepInd, SetAwaitingCoroutineInd, LoopDownInd, LoopResumeInd DEF LoopThread
<1>3. ASSUME NEW k \in Lazies, LazyStep(k) \/ SuspendLazy(k) PROVE IndInv'
  BY <1>3, BodyInd, DownInd, LazyResumeInd DEF LazyStep
<1>4. CASE UNCHANGED vars
  <2>1. /\ UNCHANGED <<call, parent, start, group, alive, count_, awaiting_coroutine_, output>>
        /\ UNCHANGED <<loop, i, inline, lazy, results, tuple, fault>>
    BY <1>4 DEF vars, thread, awaiter
  <2>2. TypeOK' /\ fault' \in {"none", "null_executor"}
    BY <2>1 DEF IndInv, TypeOK
  <2>3. GroupInv' /\ LazyInv' /\ LoopInv'
    BY <2>1 DEF IndInv, GroupInv, LazyInv, LoopInv, First, Windowed, max_concurrency
  <2>4. CountInv' /\ ResumeInv'
    BY <2>1 DEF IndInv, CountInv, Pending, Starter, ResumeInv
  <2>5. ResultInv'
    BY <2>1 DEF IndInv, ResultInv, Done, First
  <2> QED
    BY <2>2, <2>3, <2>4, <2>5 DEF IndInv
<1> QED
  BY <1>1, <1>2, <1>3, <1>4 DEF Next, Terminated

-----------------------------------------------------------------------------
(* The theorems.                                                            *)

\* The event counts the lazies of the group and the thread that starts them; the one who
\* counts the last of them down is alone with the parent, and the awaiter, to resume.
THEOREM Inductive == Spec => []IndInv
BY InitInd, StepInd, PTL DEF Spec

\* Every lazy of the group has stored its result when the parent is resumed, whoever
\* resumes it: the last lazy or the thread that started them.
THEOREM AllResumedWhenComplete == Spec => []ResumedWhenComplete
<1>1. IndInv => ResumedWhenComplete
  <2> SUFFICES ASSUME IndInv, parent = "resumed", NEW k \in group PROVE output[k] = k
    BY DEF ResumedWhenComplete
  <2>1. k \in Lazies /\ start \in Nat /\ Cardinality(group) \in Nat
    BY LazyIsNatural, GroupCount DEF IndInv, TypeOK
  <2>2. k < start
    BY <2>1, LazyIsNatural DEF IndInv, GroupInv
  <2>3. lazy[k] = "finished"
    BY <2>1, <2>2 DEF IndInv, LazyInv
  <2> QED
    BY <2>3 DEF IndInv, ResultInv
<1> QED
  BY <1>1, Inductive, PTL

\* The parent returns the result of every input, in the order of the inputs, from one group
\* or from many, and from the tuple of the variadic forms.
THEOREM AllResultsInOrder == Spec => []ResultsInOrder
<1>1. IndInv => ResultsInOrder
  BY DEF IndInv, GroupInv, ResultInv, Done, ResultsInOrder
<1> QED
  BY <1>1, Inductive, PTL

\* A lazy that is under way belongs to the present group, which is at most one window.
THEOREM AllWindowRespected == Spec => []WindowRespected
<1>1. IndInv => WindowRespected
  <2> SUFFICES ASSUME IndInv, Windowed
               PROVE  Cardinality({k \in Lazies : lazy[k] \in Unfinished \union {"scheduled"}})
                        <= max_concurrency
    BY DEF WindowRespected
  <2> DEFINE Under == {k \in Lazies : lazy[k] \in Unfinished \union {"scheduled"}}
  <2>1. Under \in SUBSET group
    BY UnderWay DEF Unfinished
  <2>2. /\ IsFiniteSet(group) /\ Cardinality(group) \in Nat
        /\ Cardinality(group) <= max_concurrency /\ max_concurrency \in Nat
    BY GroupCount, CallTypes DEF IndInv, GroupInv
  <2>3. IsFiniteSet(Under) /\ Cardinality(Under) <= Cardinality(group)
    BY <2>1, <2>2, FS_Subset
  <2>4. Cardinality(Under) \in Nat
    BY <2>3, FS_CardinalityType
  <2> QED
    BY <2>2, <2>3, <2>4
<1> QED
  BY <1>1, Inductive, PTL

\* A windowed call that yields between its windows has an executor to yield through:
\* YieldAwaiter dereferences the pointer without a look at it.
YieldHasExecutor ==
    \A c \in Calls : c.yield /\ c.max_concurrency # 0 => c.executor # "none"

\* No callback, and not the thread in await_suspend, touches the awaiter or the tuple of a
\* parent that went on, and nobody resumes the parent twice.
THEOREM AllNoFault == ASSUME YieldHasExecutor PROVE Spec => []NoFault
<1> DEFINE Yields == parent = "yield" => call.yield
           Sound == fault = "none" /\ Yields
<1>1. Init => Sound
  BY DEF Init
<1>2. IndInv /\ IndInv' /\ Sound /\ [Next]_vars => Sound'
  <2> SUFFICES ASSUME IndInv, IndInv', Sound, [Next]_vars PROVE Sound'
    OBVIOUS
  <2>1. CASE Yield
    <3>1. Windowed /\ call.yield /\ parent' # "yield"
      BY <2>1 DEF Yield, IndInv, GroupInv
    <3>2. HasExecutor
      BY <3>1 DEF YieldHasExecutor, HasExecutor, Windowed, max_concurrency, IndInv, TypeOK
    <3> QED
      BY <2>1, <3>1, <3>2 DEF Yield
  <2>2. CASE AwaitResume
    BY <2>2 DEF AwaitResume
  <2>3. CASE AwaitGroup \/ YieldResume
    BY <2>3 DEF AwaitGroup, YieldResume
  <2>4. CASE LoopThread
    <3>1. fault' # "null_executor" /\ parent' \in {parent, "resumed"} /\ call' = call
      BY <2>4 DEF LoopThread, LoopStep, SetAwaitingCoroutine, LoopDown, LoopResume, Touch,
                  Resume
    <3> QED
      BY <3>1 DEF IndInv
  <2>5. ASSUME NEW k \in Lazies, LazyStep(k) \/ SuspendLazy(k) PROVE Sound'
    <3>1. fault' # "null_executor" /\ parent' \in {parent, "resumed"} /\ call' = call
      BY <2>5 DEF LazyStep, StartScheduled, SuspendLazy, FinishLazy, StoreOutput, Down,
                  LazyResume, Touch, Resume, WritesTuple
    <3> QED
      BY <3>1 DEF IndInv
  <2>6. CASE UNCHANGED vars
    BY <2>6 DEF vars
  <2> QED
    BY <2>1, <2>2, <2>3, <2>4, <2>5, <2>6 DEF Next, ParentStep, Terminated
<1>3. IndInv /\ Sound => NoFault
  BY DEF IndInv, NoFault
<1> QED
  BY <1>1, <1>2, <1>3, Inductive, PTL DEF Spec
=============================================================================
