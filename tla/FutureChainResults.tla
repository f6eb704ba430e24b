------------------------ MODULE FutureChainResults -------------------------
(***************************************************************************)
(* The results of FutureChain are what its programs mean.                  *)
(*                                                                         *)
(* MeaningInv says of every result how it follows from those of the inputs *)
(* (Derived), and of every context of CollectAll what its slots hold       *)
(* (Contexts).  Each step has a lemma; the results are then Meaning's, by  *)
(* the least node whose result would differ.  As in FutureChainProofs, the *)
(* parts are stated of any descriptors D and any value s of f.             *)
(***************************************************************************)
EXTENDS FutureChainProofs

-----------------------------------------------------------------------------
(* The inductive invariant, of descriptors D, a value s of f, made = md and *)
(* i = ii.                                                                  *)

\* A state whose result is there and whose closure is past the point at which an
\* executor could lose it: what it passes on will not change.
Final == {"none", "run", "ran", "dropped", "gone"}

Settled(s, n) == s[n].result # Nothing /\ s[n].handler \in Final

WasDropped(s, n) == s[n].how = "dropped"

\* What a state puts into its slot of CollectAll.
Passed(s, n) == IF WasDropped(s, n) THEN Nothing ELSE s[n].result

\* What the callback of k leaves when it does not return a future.
Outcome(d, k, t) ==
    IF ~d.is_try /\ Throws(t) THEN t
    ELSE IF d.throws THEN Exception(k, <<t>>) ELSE Value(k, <<t>>)

\* t is what Then k makes of its input, and of the future its callback returned.
ThenGives(D, s, k, t) ==
    LET n == s[D[k].from[1]].alias
        o == s[D[k].inner].alias
    IN /\ Settled(s, n)
       /\ IF WasDropped(s, n) THEN t = Broken(k)
          ELSE IF D[k].inner = 0 \/ Fails(D[k], s[n].result)
            THEN t = Outcome(D[k], k, s[n].result)
          ELSE /\ s[n].local = FALSE /\ Settled(s, o)
               /\ t = IF WasDropped(s, o) THEN Broken(k) ELSE s[o].result

CollectGives(D, s, k, t) ==
    /\ \A j \in DOMAIN D[k].from : Settled(s, s[D[k].from[j]].alias)
    /\ t = Value(k, [j \in DOMAIN D[k].from |-> Passed(s, s[D[k].from[j]].alias)])

Gives(D, s, k, t) ==
    /\ D[k].kind = "ready" => t = IF D[k].ok THEN Value(k, <<>>) ELSE Exception(k, <<>>)
    /\ D[k].kind = "then" => ThenGives(D, s, k, t)
    /\ D[k].kind = "collect" => CollectGives(D, s, k, t)

\* The callback of Then k got a Try and did not fail on it.
Called(D, s, k) ==
    LET n == s[D[k].from[1]].alias IN
    Settled(s, n) /\ ~WasDropped(s, n) /\ ~Fails(D[k], s[n].result)

OnLocal(D, s, k) == s[s[D[k].from[1]].alias].local

\* How the result of a future follows from those it was made from.  A Then on a
\* LocalState is one, or the future its callback returned.
Edge(D, s, k) ==
    IF s[k].alias = k
      THEN /\ s[k].result # Nothing => Gives(D, s, k, s[k].result)
           /\ D[k].kind = "then" /\ OnLocal(D, s, k) => s[k].local
    ELSE OnLocal(D, s, k) /\ Called(D, s, k)

Edges(D, s, md) == \A k \in 1 .. md : Edge(D, s, k)

\* A continuation is triggered by a result.
Triggered(D, s) ==
    \A n \in DOMAIN D : s[n].handler \notin {"none", "set"} => s[n].result # Nothing

\* A LocalState is never without its result, nor is its continuation ever dropped.
LocalResults(D, s) ==
    \A n \in DOMAIN D : s[n].local /\ s[n].alias = n => Settled(s, n) /\ ~WasDropped(s, n)

\* A forwarder is there because a callback on a FutureState returned its future.
Forwarders(D, s, md) ==
    \A n \in DOMAIN D : s[n].handler # "none" /\ s[n].forwards =>
        /\ s[n].to \in 1 .. md /\ D[s[n].to].kind = "then"
        /\ OnLocal(D, s, s[n].to) = FALSE /\ Called(D, s, s[n].to)

Derived(D, s, md) ==
    Triggered(D, s) /\ LocalResults(D, s) /\ Forwarders(D, s, md) /\ Edges(D, s, md)

\* A closure of CollectAll that is still there shares the context.  A slot without
\* one has what its input passes on; one with it, that once the closure has run.
Shares(s, n) == s[n].handler \notin {"none", "gone"} /\ s[n].slot # 0

Slot(D, s, k, j) ==
    LET n == s[D[k].from[j]].alias IN
    IF j \in s[k].ctx
      THEN /\ Shares(s, n) /\ s[n].to = k /\ s[n].slot = j
           /\ s[k].results[j] = IF s[n].handler = "ran" THEN s[n].result ELSE Nothing
      ELSE Settled(s, n) /\ s[k].results[j] = Passed(s, n)

Context(D, s, md, ii, k) ==
    /\ k <= md + 1
    /\ s[k].results = [j \in DOMAIN D[k].from |-> s[k].results[j]]
    /\ \A j \in DOMAIN D[k].from :
          IF k <= md \/ j < ii THEN Slot(D, s, k, j)
          ELSE j \notin s[k].ctx /\ s[k].results[j] = Nothing

Sharers(D, s) == \A n \in DOMAIN D : Shares(s, n) => s[n].slot \in s[s[n].to].ctx

Contexts(D, s, md, ii) ==
    Sharers(D, s) /\ \A k \in DOMAIN D : s[k].ctx # {} => Context(D, s, md, ii, k)

Meanings(D, s, md, ii) == Derived(D, s, md) /\ Contexts(D, s, md, ii)

MeaningInv == Meanings(program.nodes, f, made, i)

-----------------------------------------------------------------------------
(* What no step undoes.                                                     *)

\* Of the states s and r, s is the earlier.  No result and no settled state changes,
\* no future of the program moves to another state.
Evolves(D, s, r, md) ==
    /\ \A n \in DOMAIN D :
        /\ s[n].result # Nothing => r[n].result = s[n].result
        /\ Settled(s, n) => r[n].handler \in Final /\ (WasDropped(r, n) <=> WasDropped(s, n))
    /\ \A k \in 1 .. md : r[k].alias = s[k].alias /\ r[k].local = s[k].local

\* All that these lemmas need of the types.
Shape(D, s, md) ==
    /\ IsProgram(D) /\ md \in 0 .. Len(D) /\ DOMAIN s = DOMAIN D
    /\ \A m \in DOMAIN D : DOMAIN s[m] = Fields /\ s[m].alias \in 1 .. m
    /\ \A m \in DOMAIN D : s[m].alias # m => D[m].kind = "then"

LEMMA ShapeOfOwnership ==
    ASSUME NEW D, NEW s, NEW md, NEW ii, Ownership(D, s, md, ii) PROVE Shape(D, s, md)
BY DEF Ownership, Types, Aliases, Shape

\* The states that k reads are those of earlier futures.
LEMMA Inputs ==
    ASSUME NEW D, NEW s, NEW md, Shape(D, s, md), NEW k \in DOMAIN D, k <= md + 1
    PROVE  /\ md \in Nat /\ k \in 1 .. md + 1 /\ Len(D) \in Nat /\ DOMAIN D = 1 .. Len(D)
           /\ \A j \in DOMAIN D[k].from :
                /\ j \in Nat \ {0} /\ D[k].from[j] \in 1 .. md /\ D[k].from[j] \in DOMAIN D
                /\ D[k].from[j] \in 1 .. k - 1
                /\ s[D[k].from[j]].alias \in 1 .. md /\ s[D[k].from[j]].alias \in DOMAIN D
                /\ s[D[k].from[j]].alias # k
           /\ D[k].kind = "then" => 1 \in DOMAIN D[k].from
           /\ D[k].inner # 0 =>
                /\ D[k].inner \in 1 .. md /\ D[k].inner \in DOMAIN D /\ D[k].inner \in 1 .. k - 1
                /\ s[D[k].inner].alias \in 1 .. md /\ s[D[k].inner].alias \in DOMAIN D
                /\ s[D[k].inner].alias # k
<1>1. /\ IsProgram(D) /\ Len(D) \in Nat /\ DOMAIN D = 1 .. Len(D) /\ md \in Nat /\ md <= Len(D)
      /\ k \in Nat /\ k \in 1 .. md + 1
  BY ProgramShape DEF Shape
<1>2. ASSUME NEW x, x \in 1 .. k - 1
      PROVE  /\ x \in 1 .. md /\ x \in DOMAIN D /\ s[x].alias \in 1 .. md
             /\ s[x].alias \in DOMAIN D /\ s[x].alias # k
  <2>1. x \in 1 .. md /\ x \in DOMAIN D /\ x \in Nat
    BY <1>1, <1>2
  <2>2. s[x].alias \in 1 .. x
    BY <2>1 DEF Shape
  <2> QED
    BY <1>1, <1>2, <2>1, <2>2
<1>3. \A j \in DOMAIN D[k].from : D[k].from[j] \in 1 .. k - 1 /\ j \in Nat \ {0}
  BY <1>1, ProgramShape
<1>4. D[k].kind = "then" => 1 \in DOMAIN D[k].from
  BY <1>1 DEF IsProgram
<1>5. D[k].inner # 0 => D[k].inner \in 1 .. k - 1
  <2>1. D[k].inner \in 0 .. k - 1
    BY <1>1, ProgramShape
  <2> QED
    BY <1>1, <2>1
<1> QED
  BY <1>1, <1>2, <1>3, <1>4, <1>5

LEMMA SettledKept ==
    ASSUME NEW D, NEW s, NEW r, NEW md, Evolves(D, s, r, md), NEW n \in DOMAIN D, Settled(s, n)
    PROVE  /\ Settled(r, n) /\ r[n].result = s[n].result
           /\ (WasDropped(r, n) <=> WasDropped(s, n)) /\ Passed(r, n) = Passed(s, n)
BY DEF Evolves, Settled, Passed

LEMMA CalledKept ==
    ASSUME NEW D, NEW s, NEW r, NEW md, Shape(D, s, md), Evolves(D, s, r, md),
           NEW k \in DOMAIN D, k <= md + 1, D[k].kind = "then"
    PROVE  /\ OnLocal(D, r, k) = OnLocal(D, s, k)
           /\ Called(D, s, k) => Called(D, r, k)
<1> DEFINE n == s[D[k].from[1]].alias
<1>1. n \in 1 .. md /\ n \in DOMAIN D /\ D[k].from[1] \in 1 .. md
  BY Inputs
<1>2. r[D[k].from[1]].alias = n /\ r[n].local = s[n].local
  BY <1>1 DEF Evolves
<1>3. Settled(s, n) => /\ Settled(r, n) /\ r[n].result = s[n].result
                       /\ (WasDropped(r, n) <=> WasDropped(s, n))
  BY <1>1, SettledKept
<1> QED
  BY <1>2, <1>3 DEF OnLocal, Called

LEMMA GivesKept ==
    ASSUME NEW D, NEW s, NEW r, NEW md, Shape(D, s, md), Evolves(D, s, r, md),
           NEW k \in DOMAIN D, k <= md + 1, NEW t, Gives(D, s, k, t)
    PROVE  Gives(D, r, k, t)
<1>1. CASE D[k].kind = "then"
  <2> DEFINE n == s[D[k].from[1]].alias
             o == s[D[k].inner].alias
  <2>1. n \in 1 .. md /\ n \in DOMAIN D /\ D[k].from[1] \in 1 .. md
    BY <1>1, Inputs
  <2>2. r[D[k].from[1]].alias = n /\ r[n].local = s[n].local
    BY <2>1 DEF Evolves
  <2>3. ThenGives(D, s, k, t)
    BY <1>1 DEF Gives
  <2>4. Settled(s, n)
    BY <2>3 DEF ThenGives
  <2>5. Settled(r, n) /\ r[n].result = s[n].result /\ (WasDropped(r, n) <=> WasDropped(s, n))
    BY <2>1, <2>4, SettledKept
  <2>6. D[k].inner # 0 =>
          /\ r[D[k].inner].alias = o
          /\ Settled(s, o) => /\ Settled(r, o) /\ r[o].result = s[o].result
                              /\ (WasDropped(r, o) <=> WasDropped(s, o))
    <3>1. D[k].inner # 0 => D[k].inner \in 1 .. md /\ o \in DOMAIN D
      BY Inputs
    <3>2. D[k].inner # 0 => r[D[k].inner].alias = o
      BY <3>1 DEF Evolves
    <3> QED
      BY <3>1, <3>2, SettledKept
  <2>7. ThenGives(D, r, k, t)
    <3>1. CASE WasDropped(s, n) \/ D[k].inner = 0 \/ Fails(D[k], s[n].result)
      BY <2>2, <2>3, <2>5, <3>1 DEF ThenGives
    <3>2. CASE ~(WasDropped(s, n) \/ D[k].inner = 0 \/ Fails(D[k], s[n].result))
      <4>1. /\ s[n].local = FALSE /\ Settled(s, o)
            /\ t = IF WasDropped(s, o) THEN Broken(k) ELSE s[o].result
        BY <2>3, <3>2 DEF ThenGives
      <4> QED
        BY <2>2, <2>5, <2>6, <3>2, <4>1 DEF ThenGives
    <3> QED
      BY <3>1, <3>2
  <2> QED
    BY <1>1, <2>7 DEF Gives
<1>2. CASE D[k].kind = "collect"
  <2>1. CollectGives(D, s, k, t)
    BY <1>2 DEF Gives
  <2>2. ASSUME NEW j \in DOMAIN D[k].from
        PROVE  LET n == s[D[k].from[j]].alias IN
               /\ r[D[k].from[j]].alias = n /\ Settled(r, n) /\ Passed(r, n) = Passed(s, n)
    <3>1. D[k].from[j] \in 1 .. md /\ s[D[k].from[j]].alias \in DOMAIN D
      BY Inputs
    <3>2. r[D[k].from[j]].alias = s[D[k].from[j]].alias
      BY <3>1 DEF Evolves
    <3>3. Settled(s, s[D[k].from[j]].alias)
      BY <2>1 DEF CollectGives
    <3> QED
      BY <3>1, <3>2, <3>3, SettledKept
  <2>3. CollectGives(D, r, k, t)
    BY <2>1, <2>2 DEF CollectGives
  <2> QED
    BY <1>2, <2>3 DEF Gives
<1>3. CASE D[k].kind \notin {"then", "collect"}
  BY <1>3 DEF Gives
<1> QED
  BY <1>1, <1>2, <1>3

LEMMA EdgeKept ==
    ASSUME NEW D, NEW s, NEW r, NEW md, Shape(D, s, md), Evolves(D, s, r, md),
           NEW k \in 1 .. md, r[k].result = s[k].result, Edge(D, s, k)
    PROVE  Edge(D, r, k)
<1>1. k \in DOMAIN D /\ k <= md + 1
  BY ProgramShape DEF Shape
<1>2. r[k].alias = s[k].alias /\ r[k].local = s[k].local
  BY DEF Evolves
<1>3. CASE s[k].alias = k
  <2>0. D[k].kind = "then" /\ OnLocal(D, r, k) => r[k].local
    <3> SUFFICES ASSUME D[k].kind = "then", OnLocal(D, r, k) PROVE r[k].local
      OBVIOUS
    <3>1. OnLocal(D, r, k) = OnLocal(D, s, k)
      BY <1>1, CalledKept
    <3> QED
      BY <1>2, <1>3, <3>1, Zenon DEF Edge
  <2>1. CASE s[k].result = Nothing
    BY <1>2, <1>3, <2>0, <2>1, Zenon DEF Edge
  <2>2. CASE s[k].result # Nothing
    <3>1. Gives(D, s, k, s[k].result)
      BY <1>3, <2>2 DEF Edge
    <3>2. Gives(D, r, k, s[k].result)
      BY <1>1, <3>1, GivesKept
    <3> QED
      BY <1>2, <1>3, <2>0, <3>2, Zenon DEF Edge
  <2> QED
    BY <2>1, <2>2
<1>4. CASE s[k].alias # k
  <2>1. OnLocal(D, s, k) /\ Called(D, s, k)
    BY <1>4 DEF Edge
  <2>2. D[k].kind = "then"
    BY <1>1, <1>4 DEF Shape
  <2>3. OnLocal(D, r, k) = OnLocal(D, s, k) /\ Called(D, r, k)
    BY <1>1, <2>1, <2>2, CalledKept
  <2> QED
    BY <1>2, <1>4, <2>1, <2>3 DEF Edge
<1> QED
  BY <1>3, <1>4

\* A step that makes no future: what it adds must follow from what was there.
Forwarding(D, r, md, k) ==
    k \in 1 .. md /\ D[k].kind = "then" /\ OnLocal(D, r, k) = FALSE /\ Called(D, r, k)

Continues(D, s, r, md) ==
    /\ Evolves(D, s, r, md) /\ Triggered(D, r)
    /\ \A n \in DOMAIN D : r[n].alias = s[n].alias /\ r[n].local = s[n].local
    /\ \A k \in 1 .. md : r[k].result = s[k].result \/ Edge(D, r, k)
    /\ \A n \in DOMAIN D : r[n].handler # "none" /\ r[n].forwards =>
        \/ s[n].handler # "none" /\ s[n].forwards /\ r[n].to = s[n].to
        \/ Forwarding(D, r, md, r[n].to)

LEMMA DerivedKept ==
    ASSUME NEW D, NEW s, NEW r, NEW md, Shape(D, s, md), Derived(D, s, md), Continues(D, s, r, md)
    PROVE  Derived(D, r, md)
<1>0. Evolves(D, s, r, md)
  BY DEF Continues
<1>1. LocalResults(D, r)
  <2> SUFFICES ASSUME NEW n \in DOMAIN D, r[n].local, r[n].alias = n
               PROVE  Settled(r, n) /\ ~WasDropped(r, n)
    BY DEF LocalResults
  <2>1. s[n].local /\ s[n].alias = n
    BY Zenon DEF Continues
  <2>2. Settled(s, n) /\ ~WasDropped(s, n)
    BY <2>1 DEF Derived, LocalResults
  <2> QED
    BY <1>0, <2>2, SettledKept
<1>2. Forwarders(D, r, md)
  <2> SUFFICES ASSUME NEW n \in DOMAIN D, r[n].handler # "none", r[n].forwards
               PROVE  Forwarding(D, r, md, r[n].to)
    BY Zenon DEF Forwarders, Forwarding
  <2>1. CASE s[n].handler # "none" /\ s[n].forwards /\ r[n].to = s[n].to
    <3> DEFINE k == s[n].to
    <3>1. k \in 1 .. md /\ D[k].kind = "then" /\ OnLocal(D, s, k) = FALSE /\ Called(D, s, k)
      BY <2>1 DEF Derived, Forwarders
    <3>2. k \in DOMAIN D /\ k <= md + 1
      BY <3>1, ProgramShape DEF Shape
    <3>3. OnLocal(D, r, k) = OnLocal(D, s, k) /\ Called(D, r, k)
      BY <1>0, <3>1, <3>2, CalledKept
    <3> QED
      BY <2>1, <3>1, <3>3 DEF Forwarding
  <2> QED
    BY <2>1, Zenon DEF Continues
<1>3. Edges(D, r, md)
  <2> SUFFICES ASSUME NEW k \in 1 .. md PROVE Edge(D, r, k)
    BY DEF Edges
  <2>1. Edge(D, s, k)
    BY DEF Derived, Edges
  <2> QED
    BY <1>0, <2>1, EdgeKept DEF Continues
<1> QED
  BY <1>1, <1>2, <1>3 DEF Derived, Continues

\* The closures of CollectAll are as they were.
KeepsShare(s, r, n) ==
    Shares(s, n) => /\ Shares(r, n) /\ r[n].to = s[n].to /\ r[n].slot = s[n].slot
                    /\ (r[n].handler = "ran" <=> s[n].handler = "ran")

SameShare(s, r, n) == (Shares(r, n) => Shares(s, n)) /\ KeepsShare(s, r, n)

SameShares(D, s, r) == \A n \in DOMAIN D : SameShare(s, r, n)

LEMMA SlotKept ==
    ASSUME NEW D, NEW s, NEW r, NEW md, Shape(D, s, md), Triggered(D, s), Evolves(D, s, r, md),
           NEW k \in DOMAIN D, k <= md + 1, NEW j \in DOMAIN D[k].from,
           j \in r[k].ctx <=> j \in s[k].ctx, r[k].results[j] = s[k].results[j],
           j \in s[k].ctx => KeepsShare(s, r, s[D[k].from[j]].alias), Slot(D, s, k, j)
    PROVE  Slot(D, r, k, j)
<1> DEFINE n == s[D[k].from[j]].alias
<1>1. D[k].from[j] \in 1 .. md /\ n \in DOMAIN D
  BY Inputs
<1>2. r[D[k].from[j]].alias = n
  BY <1>1 DEF Evolves
<1>3. CASE j \in s[k].ctx
  <2>1. /\ Shares(s, n) /\ s[n].to = k /\ s[n].slot = j
        /\ s[k].results[j] = IF s[n].handler = "ran" THEN s[n].result ELSE Nothing
    BY <1>3 DEF Slot
  <2>2. Shares(r, n) /\ r[n].to = k /\ r[n].slot = j /\ (r[n].handler = "ran" <=> s[n].handler = "ran")
    BY <1>3, <2>1 DEF KeepsShare
  <2>3. s[n].handler = "ran" => r[n].result = s[n].result
    BY <1>1 DEF Triggered, Evolves
  <2> QED
    BY <1>2, <1>3, <2>1, <2>2, <2>3 DEF Slot
<1>4. CASE j \notin s[k].ctx
  <2>1. Settled(s, n) /\ s[k].results[j] = Passed(s, n)
    BY <1>4 DEF Slot
  <2>2. Settled(r, n) /\ Passed(r, n) = Passed(s, n)
    BY <1>1, <2>1, SettledKept
  <2> QED
    BY <1>2, <1>4, <2>1, <2>2 DEF Slot
<1> QED
  BY <1>3, <1>4

\* Only the slot J of k changes, and only the closure on N, which is none of the others'.
SlotsStay(D, s, r, k, J, N) ==
    /\ r[k].results = [j \in DOMAIN D[k].from |-> r[k].results[j]]
    /\ \A j \in DOMAIN D[k].from : j # J =>
          /\ j \in r[k].ctx <=> j \in s[k].ctx
          /\ r[k].results[j] = s[k].results[j]
          /\ j \in s[k].ctx => s[D[k].from[j]].alias # N
    /\ \A n \in DOMAIN D : n # N => KeepsShare(s, r, n)

LEMMA ContextChanged ==
    ASSUME NEW D, NEW s, NEW r, NEW md, NEW ii, NEW jj, Shape(D, s, md), Triggered(D, s),
           Evolves(D, s, r, md), NEW k \in DOMAIN D, Context(D, s, md, ii, k),
           NEW J, NEW N, SlotsStay(D, s, r, k, J, N),
           J \in DOMAIN D[k].from => Slot(D, r, k, J) /\ (k <= md \/ J < jj),
           \A j \in DOMAIN D[k].from : j # J => (j < jj <=> j < ii)
    PROVE  Context(D, r, md, jj, k)
<1>1. k <= md + 1
  BY DEF Context
<1>2. ASSUME NEW j \in DOMAIN D[k].from, j # J
      PROVE  IF k <= md \/ j < jj THEN Slot(D, r, k, j)
             ELSE j \notin r[k].ctx /\ r[k].results[j] = Nothing
  <2>1. s[D[k].from[j]].alias \in DOMAIN D
    BY <1>1, Inputs
  <2>2. /\ j \in r[k].ctx <=> j \in s[k].ctx
        /\ r[k].results[j] = s[k].results[j]
        /\ j \in s[k].ctx => KeepsShare(s, r, s[D[k].from[j]].alias)
    BY <1>2, <2>1 DEF SlotsStay
  <2>3. Slot(D, s, k, j) => Slot(D, r, k, j)
    BY <1>1, <2>2, SlotKept
  <2>4. IF k <= md \/ j < ii THEN Slot(D, s, k, j)
        ELSE j \notin s[k].ctx /\ s[k].results[j] = Nothing
    BY DEF Context
  <2> QED
    BY <1>2, <2>2, <2>3, <2>4
<1>3. r[k].results = [j \in DOMAIN D[k].from |-> r[k].results[j]]
  BY DEF SlotsStay
<1> QED
  BY <1>1, <1>2, <1>3 DEF Context

LEMMA ContextKept ==
    ASSUME NEW D, NEW s, NEW r, NEW md, NEW ii, Shape(D, s, md), Triggered(D, s),
           Evolves(D, s, r, md), SameShares(D, s, r),
           NEW k \in DOMAIN D, r[k].ctx = s[k].ctx, r[k].results = s[k].results,
           Context(D, s, md, ii, k)
    PROVE  Context(D, r, md, ii, k)
<1>1. k <= md + 1
  BY DEF Context
<1>2. \A j \in DOMAIN D[k].from : j # 0 /\ s[D[k].from[j]].alias # 0
  BY <1>1, Inputs
<1>3. s[k].results = [j \in DOMAIN D[k].from |-> s[k].results[j]]
  BY DEF Context
<1>4. SlotsStay(D, s, r, k, 0, 0)
  BY <1>2, <1>3 DEF SlotsStay, SameShares, SameShare
<1> QED
  BY <1>2, <1>4, ContextChanged

LEMMA ContextsKept ==
    ASSUME NEW D, NEW s, NEW r, NEW md, NEW ii, Shape(D, s, md), Triggered(D, s),
           Evolves(D, s, r, md), SameShares(D, s, r),
           \A k \in DOMAIN D : r[k].ctx = s[k].ctx /\ r[k].results = s[k].results,
           \A n \in DOMAIN D : Shares(s, n) => s[n].to \in DOMAIN D,
           Contexts(D, s, md, ii)
    PROVE  Contexts(D, r, md, ii)
<1>1. Sharers(D, r)
  BY DEF Contexts, Sharers, SameShares, SameShare, KeepsShare
<1>2. \A k \in DOMAIN D : r[k].ctx # {} => Context(D, r, md, ii, k)
  BY ContextKept DEF Contexts
<1> QED
  BY <1>1, <1>2 DEF Contexts

-----------------------------------------------------------------------------
(* The operations.                                                          *)
SharersKnown(D, s) == \A n \in DOMAIN D : Shares(s, n) => s[n].to \in DOMAIN D

LEMMA SharerLink ==
    ASSUME NEW D, NEW s, NEW md, NEW ii, Ownership(D, s, md, ii), NEW n \in DOMAIN D, Shares(s, n)
    PROVE  /\ s[n].to \in DOMAIN D /\ D[s[n].to].kind = "collect" /\ s[s[n].to].alias = s[n].to
           /\ s[n].slot \in DOMAIN D[s[n].to].from
           /\ s[D[s[n].to].from[s[n].slot]].alias = n
           /\ s[n].to <= md \/ (s[n].to = md + 1 /\ s[n].slot < ii)
<1>1. s[n].handler # "none" /\ s[n].slot # 0
  BY DEF Shares
<1>2. Link(D, s, md, ii, n, s[n].to, s[n].slot, s[n].forwards)
  BY <1>1 DEF Ownership, Links
<1>3. CollectLink(D, s, md, ii, n, s[n].to, s[n].slot, s[n].forwards)
  BY <1>1, <1>2 DEF Link, ThenLink, ForwardLink
<1> QED
  BY <1>3 DEF CollectLink

LEMMA SharersOfOwnership ==
    ASSUME NEW D, NEW s, NEW md, NEW ii, Ownership(D, s, md, ii) PROVE SharersKnown(D, s)
BY SharerLink DEF SharersKnown

LEMMA MeaningsKept ==
    ASSUME NEW D, NEW s, NEW r, NEW md, NEW ii, Shape(D, s, md), SharersKnown(D, s),
           Meanings(D, s, md, ii), Continues(D, s, r, md), SameShares(D, s, r),
           \A k \in DOMAIN D : r[k].ctx = s[k].ctx /\ r[k].results = s[k].results
    PROVE  Meanings(D, r, md, ii)
<1>1. Evolves(D, s, r, md)
  BY DEF Continues
<1>2. Derived(D, s, md) /\ Contexts(D, s, md, ii) /\ Triggered(D, s)
  BY DEF Meanings, Derived
<1>3. Derived(D, r, md)
  BY <1>2, DerivedKept
<1>4. Contexts(D, r, md, ii)
  BY <1>1, <1>2, ContextsKept DEF SharersKnown
<1> QED
  BY <1>3, <1>4 DEF Meanings

\* A closure moves on in its life.
MovesOn(s, r, n) ==
    /\ r[n].handler # "none" => s[n].handler # "none"
    /\ r[n].handler \notin {"none", "set"} => s[n].handler \notin {"none", "set"}
    /\ s[n].handler \in Final => r[n].handler \in Final /\ (r[n].how = "dropped" <=> s[n].how = "dropped")

PhaseFields == {"handler", "how", "caller", "on", "guards"}

ClosureFields == PhaseFields \union {"results", "ctx"}

LEMMA PhaseContinues ==
    ASSUME NEW D, NEW s, NEW r, NEW md, Shape(D, s, md), Triggered(D, s),
           Agree(s, r, ClosureFields), \A n \in DOMAIN D : MovesOn(s, r, n)
    PROVE  Continues(D, s, r, md)
<1>0. DOMAIN s = DOMAIN D
  BY DEF Shape
<1>1. \A n \in DOMAIN D : /\ r[n].alias = s[n].alias /\ r[n].local = s[n].local
                          /\ r[n].result = s[n].result /\ r[n].to = s[n].to
                          /\ r[n].forwards = s[n].forwards
  BY <1>0, AgreeFacts DEF PhaseFields, ClosureFields
<1>2. \A k \in 1 .. md : k \in DOMAIN D
  BY ProgramShape DEF Shape
<1>3. Evolves(D, s, r, md)
  BY <1>1, <1>2 DEF Evolves, Settled, WasDropped, MovesOn
<1>4. Triggered(D, r)
  BY <1>1 DEF Triggered, MovesOn
<1>5. ASSUME NEW n \in DOMAIN D, r[n].handler # "none", r[n].forwards
      PROVE  s[n].handler # "none" /\ s[n].forwards /\ r[n].to = s[n].to
  <2>1. s[n].forwards
    BY <1>1, <1>5, Zenon
  <2> QED
    BY <1>1, <1>5, <2>1 DEF MovesOn
<1> QED
  BY <1>1, <1>2, <1>3, <1>4, <1>5, Zenon DEF Continues

LEMMA PhaseMeanings ==
    ASSUME NEW D, NEW s, NEW r, NEW md, NEW ii, Shape(D, s, md), SharersKnown(D, s),
           Meanings(D, s, md, ii), Agree(s, r, PhaseFields),
           \A n \in DOMAIN D : MovesOn(s, r, n) /\ SameShare(s, r, n)
    PROVE  Meanings(D, r, md, ii)
<1>1. Continues(D, s, r, md)
  <2>1. Agree(s, r, ClosureFields)
    BY DEF Agree, ClosureFields
  <2> QED
    BY <2>1, PhaseContinues DEF Meanings, Derived
<1>2. SameShares(D, s, r)
  BY DEF SameShares
<1>3. \A k \in DOMAIN D : r[k].ctx = s[k].ctx /\ r[k].results = s[k].results
  BY AgreeFacts DEF PhaseFields, Shape
<1> QED
  BY <1>1, <1>2, <1>3, MeaningsKept

\* A promise is fulfilled with what its inputs give.
LEMMA FulfilMeanings ==
    ASSUME NEW D, NEW s, NEW r, NEW md, NEW ii, Shape(D, s, md), SharersKnown(D, s),
           Meanings(D, s, md, ii),
           NEW k \in 1 .. md, s[k].alias = k, s[k].result = Nothing,
           NEW t, t # Nothing, Gives(D, s, k, t), NEW th, r = SetResult(s, k, t, th)
    PROVE  Meanings(D, r, md, ii)
<1>1. DOMAIN s = DOMAIN D /\ k \in DOMAIN D /\ k <= md + 1 /\ \A m \in 1 .. md : m \in DOMAIN D
  BY ProgramShape DEF Shape
<1>2. /\ Agree(s, r, {"result", "twice", "handler", "caller"})
      /\ \A m \in DOMAIN s : m # k => r[m] = s[m]
      /\ r[k].result = t
      /\ r[k].handler = IF s[k].handler = "set" THEN "due" ELSE s[k].handler
  BY <1>1, SetResultEffect DEF Shape
<1>3. \A n \in DOMAIN D : /\ r[n].alias = s[n].alias /\ r[n].local = s[n].local
                          /\ r[n].to = s[n].to /\ r[n].forwards = s[n].forwards
                          /\ r[n].how = s[n].how /\ r[n].slot = s[n].slot
                          /\ r[n].ctx = s[n].ctx /\ r[n].results = s[n].results
  BY <1>1, <1>2, AgreeFacts
<1>4. Evolves(D, s, r, md)
  <2>1. ASSUME NEW n \in DOMAIN D
        PROVE  /\ s[n].result # Nothing => r[n].result = s[n].result
               /\ Settled(s, n) => r[n].handler \in Final /\ (WasDropped(r, n) <=> WasDropped(s, n))
    <3>1. CASE n = k
      BY <3>1 DEF Settled
    <3>2. CASE n # k
      BY <1>1, <1>2, <3>2 DEF Settled, WasDropped
    <3> QED
      BY <3>1, <3>2
  <2> QED
    BY <1>1, <1>3, <2>1 DEF Evolves
<1>5. Triggered(D, s)
  BY DEF Meanings, Derived
<1>6. Triggered(D, r)
  BY <1>1, <1>2, <1>5 DEF Triggered
<1>7. Edge(D, r, k)
  <2>1. Gives(D, r, k, t)
    BY <1>1, <1>4, GivesKept
  <2>2. ASSUME D[k].kind = "then", OnLocal(D, r, k) PROVE r[k].local
    <3>1. OnLocal(D, r, k) = OnLocal(D, s, k)
      BY <1>1, <1>4, <2>2, CalledKept
    <3>2. Edge(D, s, k)
      BY DEF Meanings, Derived, Edges
    <3>3. s[k].local
      BY <2>2, <3>1, <3>2, Zenon DEF Edge
    <3> QED
      BY <1>1, <1>3, <3>3
  <2> QED
    BY <1>1, <1>2, <1>3, <2>1, <2>2, Zenon DEF Edge
<1>8. \A n \in DOMAIN D : r[n].handler # "none" => s[n].handler # "none"
  BY <1>1, <1>2
<1>9. \A m \in 1 .. md : r[m].result = s[m].result \/ Edge(D, r, m)
  BY <1>1, <1>2, <1>7
<1>10. Continues(D, s, r, md)
  BY <1>3, <1>4, <1>6, <1>8, <1>9, Zenon DEF Continues
<1>11. SameShares(D, s, r)
  <2> SUFFICES ASSUME NEW n \in DOMAIN D PROVE SameShare(s, r, n)
    BY DEF SameShares
  <2>1. r[n].to = s[n].to /\ r[n].slot = s[n].slot
    BY <1>3
  <2>2. /\ (r[n].handler \in {"none", "gone"} <=> s[n].handler \in {"none", "gone"})
        /\ (r[n].handler = "ran" <=> s[n].handler = "ran")
    <3>1. CASE n = k
      BY <1>2, <3>1
    <3>2. CASE n # k
      BY <1>1, <1>2, <3>2
    <3> QED
      BY <3>1, <3>2
  <2> QED
    BY <2>1, <2>2 DEF SameShare, KeepsShare, Shares
<1> QED
  BY <1>3, <1>10, <1>11, MeaningsKept

\* A continuation is put on a state without one.
LEMMA SubscribeContinues ==
    ASSUME NEW D, NEW s, NEW r, NEW md, Shape(D, s, md), Derived(D, s, md),
           NEW n \in DOMAIN D, s[n].handler = "none", ~WasDropped(s, n),
           NEW k, NEW slot, NEW forwards, forwards => Forwarding(D, s, md, k),
           NEW th, r = SetContinuation(s, n, k, slot, forwards, th)
    PROVE  Continues(D, s, r, md)
<1>1. DOMAIN s = DOMAIN D /\ \A m \in 1 .. md : m \in DOMAIN D /\ m <= md + 1
  BY ProgramShape DEF Shape
<1>2. /\ Agree(s, r, {"to", "slot", "forwards", "twice", "handler", "how", "caller",
                      "on", "guards"})
      /\ \A m \in DOMAIN s : m # n => r[m] = s[m]
      /\ r[n].to = k /\ r[n].forwards = forwards
      /\ r[n].handler = IF s[n].result = Nothing THEN "set" ELSE "run"
      /\ r[n].how = IF s[n].result = Nothing THEN s[n].how ELSE "trigger"
  <2>1. \A m \in DOMAIN s : DOMAIN s[m] = Fields
    BY <1>1 DEF Shape
  <2> QED
    BY <1>1, <2>1, SetContinuationEffect
<1>3. \A m \in DOMAIN D : /\ r[m].alias = s[m].alias /\ r[m].local = s[m].local
                          /\ r[m].result = s[m].result
  BY <1>1, <1>2, AgreeFacts
<1>4. Evolves(D, s, r, md)
  <2>1. ASSUME NEW m \in DOMAIN D
        PROVE  Settled(s, m) => r[m].handler \in Final /\ (WasDropped(r, m) <=> WasDropped(s, m))
    <3>1. CASE m = n
      BY <1>2, <3>1 DEF Settled, Final, WasDropped
    <3>2. CASE m # n
      BY <1>1, <1>2, <3>2 DEF Settled, WasDropped
    <3> QED
      BY <3>1, <3>2
  <2> QED
    BY <1>1, <1>3, <2>1 DEF Evolves
<1>5. Triggered(D, r)
  BY <1>1, <1>2, <1>3 DEF Derived, Triggered
<1>6. ASSUME NEW m \in DOMAIN D, r[m].handler # "none", r[m].forwards
      PROVE  \/ s[m].handler # "none" /\ s[m].forwards /\ r[m].to = s[m].to
             \/ Forwarding(D, r, md, r[m].to)
  <2>1. CASE m # n
    BY <1>1, <1>2, <1>6, <2>1, Zenon
  <2>2. CASE m = n
    <3>1. forwards
      BY <1>2, <1>6, <2>2, Zenon
    <3>2. Forwarding(D, s, md, k)
      BY <3>1
    <3>3. OnLocal(D, r, k) = OnLocal(D, s, k) /\ Called(D, r, k)
      BY <1>1, <1>4, <3>2, CalledKept DEF Forwarding
    <3> QED
      BY <1>2, <2>2, <3>2, <3>3 DEF Forwarding
  <2> QED
    BY <2>1, <2>2
<1> QED
  BY <1>1, <1>3, <1>4, <1>5, <1>6, Zenon DEF Continues

LEMMA SubscribeMeanings ==
    ASSUME NEW D, NEW s, NEW r, NEW md, NEW ii, Shape(D, s, md), SharersKnown(D, s),
           Meanings(D, s, md, ii),
           NEW n \in DOMAIN D, s[n].handler = "none", ~WasDropped(s, n),
           NEW k, NEW forwards, forwards => Forwarding(D, s, md, k),
           NEW th, r = SetContinuation(s, n, k, 0, forwards, th)
    PROVE  Meanings(D, r, md, ii)
<1>1. DOMAIN s = DOMAIN D /\ \A m \in DOMAIN s : DOMAIN s[m] = Fields
  BY DEF Shape
<1>2. /\ Agree(s, r, {"to", "slot", "forwards", "twice", "handler", "how", "caller",
                      "on", "guards"})
      /\ \A m \in DOMAIN s : m # n => r[m] = s[m]
      /\ r[n].slot = 0
  BY <1>1, SetContinuationEffect
<1>3. Continues(D, s, r, md)
  <2>1. Derived(D, s, md)
    BY DEF Meanings
  <2> QED
    BY <2>1, SubscribeContinues
<1>4. SameShares(D, s, r)
  BY <1>1, <1>2 DEF SameShares, SameShare, KeepsShare, Shares
<1>5. \A m \in DOMAIN D : r[m].ctx = s[m].ctx /\ r[m].results = s[m].results
  BY <1>1, <1>2, AgreeFacts
<1> QED
  BY <1>3, <1>4, <1>5, MeaningsKept

\* Main makes the future k: its result is there from the start if it has a LocalState.
NewEdge(D, s, r, k) ==
    IF r[k].alias = k
      THEN /\ r[k].result # Nothing => Gives(D, s, k, r[k].result)
           /\ r[k].local => r[k].result # Nothing
           /\ D[k].kind = "then" /\ OnLocal(D, s, k) => r[k].local
      ELSE D[k].kind = "then" /\ OnLocal(D, s, k) /\ Called(D, s, k)

LEMMA MakeMeanings ==
    ASSUME NEW D, NEW s, NEW md, Ownership(D, s, md, 0), Meanings(D, s, md, 0),
           NEW k \in DOMAIN D, k = md + 1,
           NEW r, Agree(s, r, {"local", "alias", "executor", "result"}),
           \A m \in DOMAIN D : m # k => /\ r[m].local = s[m].local /\ r[m].alias = s[m].alias
                                        /\ r[m].result = s[m].result,
           NewEdge(D, s, r, k)
    PROVE  Meanings(D, r, k, 0)
<1>1. Shape(D, s, md) /\ SharersKnown(D, s)
  BY ShapeOfOwnership, SharersOfOwnership
<1>2. /\ DOMAIN s = DOMAIN D /\ md \in Nat /\ DOMAIN D = 1 .. Len(D) /\ Len(D) \in Nat
      /\ k \in Nat /\ k <= md + 1 /\ k > md /\ k \notin 1 .. md
  BY <1>1, ProgramShape DEF Shape
<1>3. \A n \in DOMAIN D : /\ r[n].handler = s[n].handler /\ r[n].how = s[n].how
                          /\ r[n].to = s[n].to /\ r[n].forwards = s[n].forwards
                          /\ r[n].slot = s[n].slot
                          /\ r[n].ctx = s[n].ctx /\ r[n].results = s[n].results
  BY <1>2, AgreeFacts
<1>4. s[k].result = Nothing /\ s[k].handler = "none" /\ ~WasDropped(s, k)
  BY <1>2 DEF Ownership, Unmade, Hows, WasDropped
<1>5. Evolves(D, s, r, md)
  <2>1. ASSUME NEW n \in DOMAIN D
        PROVE  /\ s[n].result # Nothing => r[n].result = s[n].result
               /\ Settled(s, n) => r[n].handler \in Final /\ (WasDropped(r, n) <=> WasDropped(s, n))
    BY <1>3, <1>4 DEF Settled, WasDropped
  <2>2. \A x \in 1 .. md : x \in DOMAIN D /\ x # k
    BY <1>2
  <2> QED
    BY <2>1, <2>2 DEF Evolves
<1>6. Derived(D, s, md) /\ Contexts(D, s, md, 0) /\ Triggered(D, s)
  BY DEF Meanings, Derived
<1>7. Triggered(D, r)
  BY <1>3, <1>4, <1>6 DEF Triggered
<1>8. LocalResults(D, r)
  <2> SUFFICES ASSUME NEW n \in DOMAIN D, r[n].local, r[n].alias = n
               PROVE  Settled(r, n) /\ ~WasDropped(r, n)
    BY DEF LocalResults
  <2>1. CASE n # k
    <3>1. s[n].local /\ s[n].alias = n
      BY <2>1, Zenon
    <3>2. Settled(s, n) /\ ~WasDropped(s, n)
      BY <1>6, <3>1 DEF Derived, LocalResults
    <3> QED
      BY <1>5, <3>2, SettledKept
  <2>2. CASE n = k
    <3>1. r[k].result # Nothing
      BY <2>2, Zenon DEF NewEdge
    <3>2. r[k].handler = "none" /\ ~WasDropped(r, k)
      BY <1>3, <1>4 DEF WasDropped
    <3> QED
      BY <2>2, <3>1, <3>2 DEF Settled, Final
  <2> QED
    BY <2>1, <2>2
<1>9. Forwarders(D, r, k)
  <2> SUFFICES ASSUME NEW n \in DOMAIN D, r[n].handler # "none", r[n].forwards
               PROVE  /\ r[n].to \in 1 .. k /\ D[r[n].to].kind = "then"
                      /\ OnLocal(D, r, r[n].to) = FALSE /\ Called(D, r, r[n].to)
    BY DEF Forwarders
  <2> DEFINE x == s[n].to
  <2>1. s[n].handler # "none" /\ s[n].forwards /\ r[n].to = x
    BY <1>3, Zenon
  <2>2. x \in 1 .. md /\ D[x].kind = "then" /\ OnLocal(D, s, x) = FALSE /\ Called(D, s, x)
    BY <1>6, <2>1 DEF Derived, Forwarders
  <2>3. x \in DOMAIN D /\ x <= md + 1 /\ x \in 1 .. k
    BY <1>2, <2>2
  <2>4. OnLocal(D, r, x) = OnLocal(D, s, x) /\ Called(D, r, x)
    BY <1>1, <1>5, <2>2, <2>3, CalledKept
  <2> QED
    BY <2>1, <2>2, <2>3, <2>4
<1>10. Edges(D, r, k)
  <2>1. ASSUME NEW x \in 1 .. md PROVE Edge(D, r, x)
    <3>1. x \in DOMAIN D /\ x # k
      BY <1>2
    <3>2. Edge(D, s, x)
      BY <1>6 DEF Derived, Edges
    <3> QED
      BY <1>1, <1>5, <3>1, <3>2, EdgeKept
  <2>2. Edge(D, r, k)
    <3>1. CASE r[k].alias = k
      <4>1. r[k].result # Nothing => Gives(D, s, k, r[k].result)
        BY <3>1 DEF NewEdge
      <4>2. r[k].result # Nothing => Gives(D, r, k, r[k].result)
        BY <1>1, <1>2, <1>5, <4>1, GivesKept
      <4>3. ASSUME D[k].kind = "then", OnLocal(D, r, k) PROVE r[k].local
        <5>1. OnLocal(D, r, k) = OnLocal(D, s, k)
          BY <1>1, <1>2, <1>5, <4>3, CalledKept
        <5> QED
          BY <3>1, <4>3, <5>1, Zenon DEF NewEdge
      <4> QED
        BY <3>1, <4>2, <4>3, Zenon DEF Edge
    <3>2. CASE r[k].alias # k
      <4>1. D[k].kind = "then" /\ OnLocal(D, s, k) /\ Called(D, s, k)
        BY <3>2 DEF NewEdge
      <4>2. OnLocal(D, r, k) = OnLocal(D, s, k) /\ Called(D, r, k)
        BY <1>1, <1>2, <1>5, <4>1, CalledKept
      <4> QED
        BY <3>2, <4>1, <4>2 DEF Edge
    <3> QED
      BY <3>1, <3>2
  <2>3. \A x \in 1 .. k : x = k \/ x \in 1 .. md
    BY <1>2
  <2> QED
    BY <2>1, <2>2, <2>3 DEF Edges
<1>11. SameShares(D, s, r)
  BY <1>3 DEF SameShares, SameShare, KeepsShare, Shares
<1>12. Contexts(D, r, md, 0)
  BY <1>1, <1>3, <1>5, <1>6, <1>11, ContextsKept DEF SharersKnown
<1>13. Contexts(D, r, k, 0)
  <2>1. ASSUME NEW x \in DOMAIN D, r[x].ctx # {}
        PROVE  Context(D, r, k, 0, x)
    <3>1. s[x].ctx # {} /\ x \in Nat
      BY <1>2, <1>3, <2>1
    <3>2. ~(x > md)
      BY <3>1 DEF Ownership, Unmade
    <3>3. x <= md /\ x <= k /\ x <= k + 1
      BY <1>2, <3>1, <3>2
    <3>4. Context(D, r, md, 0, x)
      BY <1>12, <2>1 DEF Contexts
    <3> QED
      BY <3>3, <3>4 DEF Context
  <2> QED
    BY <1>12, <2>1 DEF Contexts
<1> QED
  BY <1>7, <1>8, <1>9, <1>10, <1>13 DEF Meanings, Derived

-----------------------------------------------------------------------------
(* The steps.                                                               *)
LEMMA MeaningFacts ==
    ASSUME OwnershipInv, MeaningInv
    PROVE  LET D == program.nodes IN
           /\ Ownership(D, f, made, i) /\ Meanings(D, f, made, i)
           /\ Shape(D, f, made) /\ SharersKnown(D, f)
           /\ Derived(D, f, made) /\ Triggered(D, f) /\ Contexts(D, f, made, i)
           /\ DOMAIN f = DOMAIN D /\ Nodes = DOMAIN D /\ DOMAIN D = 1 .. Len(D)
           /\ \A m \in DOMAIN D : DOMAIN f[m] = Fields
           /\ \A m \in DOMAIN D : Desc(m) = D[m]
<1>1. Ownership(program.nodes, f, made, i) /\ Meanings(program.nodes, f, made, i)
  BY DEF OwnershipInv, MeaningInv
<1>2. Shape(program.nodes, f, made) /\ SharersKnown(program.nodes, f)
  BY <1>1, ShapeOfOwnership, SharersOfOwnership
<1>3. /\ Derived(program.nodes, f, made) /\ Triggered(program.nodes, f)
      /\ Contexts(program.nodes, f, made, i)
  BY <1>1 DEF Meanings, Derived
<1> QED
  BY <1>1, <1>2, <1>3, OwnershipFacts

LEMMA MeaningsStay ==
    ASSUME UNCHANGED <<program, made, i, checked>>, Meanings(program.nodes, f', made, i)
    PROVE  MeaningInv'
<1>1. program' = program /\ made' = made /\ i' = i
  OBVIOUS
<1> QED
  BY <1>1 DEF MeaningInv

LEMMA MeaningsMade ==
    ASSUME NEW k, Made(k), i = 0, Meanings(program.nodes, f', k, 0)
    PROVE  MeaningInv'
<1>1. program' = program /\ made' = k /\ i' = 0
  BY DEF Made
<1> QED
  BY <1>1 DEF MeaningInv

LEMMA PhaseStepMeanings ==
    ASSUME OwnershipInv, MeaningInv, UNCHANGED <<program, made, i, checked>>,
           NEW n \in Nodes, Agree(f, f', PhaseFields), \A m \in Nodes : m # n => f'[m] = f[m],
           MovesOn(f, f', n), SameShare(f, f', n)
    PROVE  MeaningInv'
<1> DEFINE D == program.nodes
<1>1. \A m \in DOMAIN D : MovesOn(f, f', m) /\ SameShare(f, f', m)
  <2> SUFFICES ASSUME NEW m \in DOMAIN D PROVE MovesOn(f, f', m) /\ SameShare(f, f', m)
    OBVIOUS
  <2>1. CASE m = n
    BY <2>1
  <2>2. CASE m # n
    <3>1. f'[m] = f[m]
      BY <2>2, MeaningFacts
    <3> QED
      BY <3>1 DEF MovesOn, SameShare, KeepsShare, Shares
  <2> QED
    BY <2>1, <2>2
<1>2. Meanings(D, f', made, i)
  BY <1>1, MeaningFacts, PhaseMeanings
<1> QED
  BY <1>2, MeaningsStay

LEMMA ScheduleMeanings ==
    ASSUME OwnershipInv, MeaningInv, NEW n \in Nodes, Schedule(n) PROVE MeaningInv'
<1> DEFINE D == program.nodes
<1>1. /\ n \in DOMAIN D /\ f[n].handler = "due" /\ UNCHANGED <<program, made, i, checked>>
  BY MeaningFacts DEF Schedule
<1>2. ASSUME /\ Agree(f, f', PhaseFields) /\ \A m \in Nodes : m # n => f'[m] = f[m]
             /\ f'[n].handler \in {"run", "queued"}
      PROVE  MeaningInv'
  <2>1. f'[n].slot = f[n].slot /\ f'[n].to = f[n].to
    BY <1>1, <1>2, MeaningFacts, AgreeFacts DEF PhaseFields
  <2>2. MovesOn(f, f', n) /\ SameShare(f, f', n)
    BY <1>1, <1>2, <2>1 DEF MovesOn, SameShare, KeepsShare, Shares, Final
  <2> QED
    BY <1>1, <1>2, <2>2, PhaseStepMeanings
<1>3. CASE f' = [f EXCEPT ![n].handler = "run", ![n].how = "inline", ![n].on = f[n].caller,
                          ![n].guards = {"caller"}]
  <2>1. /\ Agree(f, f', PhaseFields) /\ \A m \in DOMAIN D : m # n => f'[m] = f[m]
        /\ f'[n].handler = "run"
    BY <1>1, <1>3, MeaningFacts DEF Agree, Fields, Blank, PhaseFields
  <2> QED
    BY <1>2, <2>1, MeaningFacts
<1>4. CASE f' = [f EXCEPT ![n].handler = "queued", ![n].how = "scheduled",
                          ![n].guards = {"caller", "closure"}]
  <2>1. /\ Agree(f, f', PhaseFields) /\ \A m \in DOMAIN D : m # n => f'[m] = f[m]
        /\ f'[n].handler = "queued"
    BY <1>1, <1>4, MeaningFacts DEF Agree, Fields, Blank, PhaseFields
  <2> QED
    BY <1>2, <2>1, MeaningFacts
<1>5. CASE f' = [f EXCEPT ![n].handler = "run", ![n].how = "refused", ![n].guards = {"caller"}]
  <2>1. /\ Agree(f, f', PhaseFields) /\ \A m \in DOMAIN D : m # n => f'[m] = f[m]
        /\ f'[n].handler = "run"
    BY <1>1, <1>5, MeaningFacts DEF Agree, Fields, Blank, PhaseFields
  <2> QED
    BY <1>2, <2>1, MeaningFacts
<1> QED
  BY <1>3, <1>4, <1>5 DEF Schedule

LEMMA RunQueuedMeanings ==
    ASSUME OwnershipInv, MeaningInv, NEW n \in Nodes, RunQueued(n) PROVE MeaningInv'
<1> DEFINE D == program.nodes
<1>1. /\ n \in DOMAIN D /\ f[n].handler = "queued" /\ UNCHANGED <<program, made, i, checked>>
      /\ f' = [f EXCEPT ![n].handler = "run", ![n].on = "worker"]
  BY MeaningFacts DEF RunQueued
<1>2. /\ Agree(f, f', PhaseFields) /\ \A m \in DOMAIN D : m # n => f'[m] = f[m]
      /\ f'[n].handler = "run" /\ f'[n].slot = f[n].slot /\ f'[n].to = f[n].to
  BY <1>1, MeaningFacts DEF Agree, Fields, Blank, PhaseFields
<1>3. MovesOn(f, f', n) /\ SameShare(f, f', n)
  BY <1>1, <1>2 DEF MovesOn, SameShare, KeepsShare, Shares, Final
<1> QED
  BY <1>1, <1>2, <1>3, MeaningFacts, PhaseStepMeanings

LEMMA DropQueuedMeanings ==
    ASSUME OwnershipInv, MeaningInv, NEW n \in Nodes, DropQueued(n) PROVE MeaningInv'
<1> DEFINE D == program.nodes
<1>1. /\ n \in DOMAIN D /\ f[n].handler = "queued" /\ UNCHANGED <<program, made, i, checked>>
      /\ f' = [f EXCEPT ![n].handler = "dropped", ![n].how = "dropped"]
  BY MeaningFacts DEF DropQueued
<1>2. /\ Agree(f, f', PhaseFields) /\ \A m \in DOMAIN D : m # n => f'[m] = f[m]
      /\ f'[n].handler = "dropped" /\ f'[n].slot = f[n].slot /\ f'[n].to = f[n].to
  BY <1>1, MeaningFacts DEF Agree, Fields, Blank, PhaseFields
<1>3. MovesOn(f, f', n) /\ SameShare(f, f', n)
  BY <1>1, <1>2 DEF MovesOn, SameShare, KeepsShare, Shares, Final
<1> QED
  BY <1>1, <1>2, <1>3, MeaningFacts, PhaseStepMeanings

LEMMA SettleMeanings ==
    ASSUME OwnershipInv, MeaningInv, NEW k \in Nodes, NEW th, Settle(k, th) PROVE MeaningInv'
<1> DEFINE D == program.nodes
<1>1. /\ k \in DOMAIN D /\ D[k].kind = "source" /\ f[k].result = Nothing /\ k <= made
      /\ UNCHANGED <<program, made, i, checked>>
  BY MeaningFacts DEF Settle
<1>2. PICK t \in {Value(k, <<>>), Exception(k, <<>>), Broken(k)} : f' = SetResult(f, k, t, th)
  BY DEF Settle
<1>3. t # Nothing
  BY DEF Value, Exception, Broken, Nothing
<1>4. k \in 1 .. made /\ f[k].alias = k
  BY <1>1, MeaningFacts DEF Ownership, Aliases
<1>5. Gives(D, f, k, t)
  BY <1>1 DEF Gives
<1>6. Meanings(D, f', made, i)
  BY <1>1, <1>2, <1>3, <1>4, <1>5, MeaningFacts, FulfilMeanings
<1> QED
  BY <1>1, <1>6, MeaningsStay

\* What Main has not used yet has no continuation.
LEMMA UnusedSlot ==
    ASSUME NEW D, NEW s, NEW md, NEW ii, Ownership(D, s, md, ii), NEW k \in DOMAIN D, k = md + 1,
           NEW j \in DOMAIN D[k].from, ~(j < ii), NEW n, n = s[D[k].from[j]].alias
    PROVE  s[n].handler = "none" /\ ~WasDropped(s, n) /\ n \in DOMAIN D
<1>1. PICK x : x = D[k].from[j]
  OBVIOUS
<1>2. Shape(D, s, md) /\ k <= md + 1 /\ k \notin 1 .. md
  BY ShapeOfOwnership, ProgramShape DEF Shape
<1>3. x \in 1 .. md /\ n = s[x].alias /\ n \in DOMAIN D /\ Uses(D, s, k, x)
  BY <1>1, <1>2, Inputs DEF Uses
<1>4. s[n].handler = "none"
  <2> SUFFICES ASSUME s[n].handler # "none" PROVE FALSE
    OBVIOUS
  <2>1. \/ ThenLink(D, s, md, n, k, s[n].slot, s[n].forwards)
        \/ /\ CollectLink(D, s, md, ii, n, k, s[n].slot, s[n].forwards)
           /\ D[k].from[s[n].slot] = x
        \/ ForwardLink(D, s, md, n, k, s[n].slot, s[n].forwards)
    BY <1>3, ContinuationOfUser
  <2>2. /\ CollectLink(D, s, md, ii, n, k, s[n].slot, s[n].forwards)
        /\ D[k].from[s[n].slot] = x
    BY <1>2, <2>1 DEF ThenLink, ForwardLink
  <2>3. s[n].slot \in DOMAIN D[k].from /\ (k <= md \/ s[n].slot < ii)
    BY <2>2 DEF CollectLink
  <2>4. s[n].slot = j
    <3>1. IsProgram(D)
      BY <1>2 DEF Shape
    <3>2. \A h, l \in DOMAIN D : \A a \in DOMAIN D[h].from, b \in DOMAIN D[l].from :
            D[h].from[a] = D[l].from[b] => h = l /\ a = b
      BY <3>1 DEF IsProgram
    <3>3. \A a, b \in DOMAIN D[k].from : D[k].from[a] = D[k].from[b] => a = b
      BY <3>2
    <3>4. PICK a : a = s[n].slot
      OBVIOUS
    <3>5. D[k].from[a] = D[k].from[j] /\ a \in DOMAIN D[k].from
      BY <1>1, <2>2, <2>3, <3>4
    <3> QED
      BY <3>3, <3>4, <3>5
  <2>5. k \in DOMAIN D /\ ~(k <= md)
    BY <1>2, ProgramShape DEF Shape
  <2> QED
    BY <2>3, <2>4, <2>5
<1>5. ~WasDropped(s, n)
  BY <1>3, <1>4 DEF Ownership, Hows, WasDropped
<1> QED
  BY <1>3, <1>4, <1>5

LEMMA OutcomeIsSomething ==
    ASSUME NEW d, NEW k, NEW t, t # Nothing PROVE Outcome(d, k, t) # Nothing
BY DEF Outcome, Value, Exception, Nothing

\* The state of a ready future is settled.
LEMMA LocalInput ==
    ASSUME OwnershipInv, MeaningInv, NEW k \in Nodes, Making(k, "then"), f[Input(k)].local
    PROVE  /\ Settled(f, Input(k)) /\ ~WasDropped(f, Input(k))
           /\ OnLocal(program.nodes, f, k)
           /\ (Called(program.nodes, f, k) <=> ~FailsFirst(k, f[Input(k)].result))
<1> DEFINE D == program.nodes
<1>1. /\ Input(k) \in DOMAIN D /\ Input(k) = f[D[k].from[1]].alias /\ Desc(k) = D[k]
      /\ k \in DOMAIN D /\ k <= made + 1 /\ D[k].kind = "then"
  BY ThenFacts, ZenonT(30)
<1>2. D[k].from[1] \in DOMAIN D
  BY <1>1, InputFacts
<1>3. f[Input(k)].alias = Input(k)
  <2>1. Aliases(D, f, made)
    BY OwnershipFacts DEF Ownership
  <2> QED
    BY <1>1, <1>2, <2>1 DEF Aliases
<1>4. Settled(f, Input(k)) /\ ~WasDropped(f, Input(k))
  BY <1>1, <1>3, MeaningFacts DEF Derived, LocalResults
<1>5. OnLocal(D, f, k) /\ (Called(D, f, k) <=> ~FailsFirst(k, f[Input(k)].result))
  BY <1>1, <1>4 DEF OnLocal, Called, Fails, FailsFirst
<1> QED
  BY <1>4, <1>5

LEMMA MakeSourceMeanings ==
    ASSUME OwnershipInv, MeaningInv, NEW k \in Nodes, MakeSource(k) PROVE MeaningInv'
<1> DEFINE D == program.nodes
<1>1. /\ i = 0 /\ k = made + 1 /\ k \in DOMAIN D /\ Ownership(D, f, made, 0)
      /\ f[k].alias = k /\ f[k].local = FALSE /\ f[k].result = Nothing /\ Made(k)
      /\ D[k].kind = "source"
  BY MakingFacts DEF MakeSource
<1>2. /\ Agree(f, f', {"local", "alias", "executor", "result"})
      /\ f'[k].alias = k /\ f'[k].local = FALSE /\ f'[k].result = Nothing
      /\ \A m \in DOMAIN D : m # k => f'[m] = f[m]
  BY <1>1, OwnershipFacts DEF MakeSource, Desc, Agree, Fields, Blank
<1>3. NewEdge(D, f, f', k)
  BY <1>1, <1>2 DEF NewEdge
<1>4. Meanings(D, f, made, 0)
  BY <1>1, MeaningFacts
<1>5. Meanings(D, f', k, 0)
  BY <1>1, <1>2, <1>3, <1>4, MakeMeanings
<1> QED
  BY <1>1, <1>5, MeaningsMade

LEMMA MakeReadyFutureMeanings ==
    ASSUME OwnershipInv, MeaningInv, NEW k \in Nodes, MakeReadyFuture(k) PROVE MeaningInv'
<1> DEFINE D == program.nodes
<1>1. /\ i = 0 /\ k = made + 1 /\ k \in DOMAIN D /\ Ownership(D, f, made, 0)
      /\ D[k].kind = "ready" /\ Desc(k) = D[k] /\ f[k].alias = k /\ Made(k)
  BY MakingFacts DEF MakeReadyFuture
<1>2. PICK t : t = IF D[k].ok THEN Value(k, <<>>) ELSE Exception(k, <<>>)
  OBVIOUS
<1>3. f' = [f EXCEPT ![k].local = TRUE, ![k].executor = D[k].executor, ![k].result = t]
  BY <1>1, <1>2 DEF MakeReadyFuture
<1>4. /\ Agree(f, f', {"local", "alias", "executor", "result"})
      /\ f'[k].alias = k /\ f'[k].result = t
      /\ \A m \in DOMAIN D : m # k => f'[m] = f[m]
  BY <1>1, <1>3, OwnershipFacts DEF Agree, Fields, Blank
<1>5. t # Nothing
  BY <1>2 DEF Value, Exception, Nothing
<1>6. Gives(D, f, k, t)
  BY <1>1, <1>2 DEF Gives
<1>7. NewEdge(D, f, f', k)
  BY <1>1, <1>4, <1>5, <1>6 DEF NewEdge
<1>8. Meanings(D, f, made, 0)
  BY <1>1, MeaningFacts
<1>9. Meanings(D, f', k, 0)
  BY <1>1, <1>4, <1>7, <1>8, MakeMeanings
<1> QED
  BY <1>1, <1>9, MeaningsMade

LEMMA ThenSharedMeanings ==
    ASSUME OwnershipInv, MeaningInv, NEW k \in Nodes, ThenShared(k) PROVE MeaningInv'
<1> DEFINE D == program.nodes
<1>1. /\ i = 0 /\ k = made + 1 /\ k \in DOMAIN D /\ D[k].kind = "then" /\ Ownership(D, f, made, 0)
      /\ f[k].alias = k /\ f[k].local = FALSE /\ f[k].result = Nothing
      /\ f[k].executor \in {"none", "ex"}
      /\ Input(k) \in DOMAIN D /\ Input(k) # k /\ Input(k) = f[D[k].from[1]].alias /\ Made(k)
  BY ThenFacts DEF ThenShared
<1>2. PICK n : n = Input(k)
  OBVIOUS
<1>3. PICK q : q = [f EXCEPT ![k].executor = f[n].executor]
  OBVIOUS
<1>4. f' = SetContinuation(q, n, k, 0, FALSE, "outside")
  BY <1>2, <1>3 DEF ThenShared
<1>5. /\ Agree(f, q, {"local", "alias", "executor", "result"})
      /\ q[k].alias = k /\ q[k].local = FALSE /\ q[k].result = Nothing
      /\ q[k].executor = f[n].executor /\ \A m \in DOMAIN D : m # k => q[m] = f[m]
  BY <1>1, <1>3, OwnershipFacts DEF Agree, Fields, Blank
<1>6. Ownership(D, q, k, 0)
  <2>1. \A m \in DOMAIN D : f[m].executor \in {"none", "ex"}
    BY OwnershipFacts DEF Types
  <2>2. \A m \in DOMAIN D : m # k => q[m].executor \in {"none", "ex"}
    BY <1>5, <2>1
  <2>3. q[k].executor \in {"none", "ex"} /\ q[k].local \in BOOLEAN
    BY <1>1, <1>2, <1>5, <2>1
  <2> QED
    BY <1>1, <1>5, <2>2, <2>3, MakeKeepsOwnership
<1>7. Meanings(D, q, k, 0)
  <2>1. Meanings(D, f, made, 0)
    BY <1>1, MeaningFacts
  <2>2. ~OnLocal(D, f, k)
    BY <1>1, Zenon DEF OnLocal, ThenShared
  <2>3. NewEdge(D, f, q, k)
    BY <1>5, <2>2 DEF NewEdge
  <2> QED
    BY <1>1, <1>5, <2>1, <2>3, MakeMeanings
<1>8. n \in DOMAIN D /\ q[n].handler = "none" /\ ~WasDropped(q, n)
  <2>1. 1 \in DOMAIN D[k].from /\ ~(1 < 0)
    <3>1. k \in Nodes /\ k <= made + 1 /\ Desc(k).kind = "then"
      BY <1>1, OwnershipFacts
    <3> QED
      BY <3>1, InputFacts
  <2>2. n = f[D[k].from[1]].alias
    BY <1>1, <1>2
  <2>3. f[n].handler = "none" /\ ~WasDropped(f, n)
    BY <1>1, <2>1, <2>2, UnusedSlot
  <2>4. q[n] = f[n]
    BY <1>1, <1>2, <1>5
  <2> QED
    BY <1>1, <1>2, <2>3, <2>4 DEF WasDropped
<1>9. Meanings(D, f', k, 0)
  <2>1. Shape(D, q, k) /\ SharersKnown(D, q)
    BY <1>6, ShapeOfOwnership, SharersOfOwnership
  <2> QED
    BY <1>4, <1>7, <1>8, <2>1, SubscribeMeanings
<1> QED
  BY <1>1, <1>9, MeaningsMade

LEMMA ThenLocalValueMeanings ==
    ASSUME OwnershipInv, MeaningInv, NEW k \in Nodes, ThenLocalValue(k) PROVE MeaningInv'
<1> DEFINE D == program.nodes
           n == Input(k)
<1>1. /\ i = 0 /\ k = made + 1 /\ k \in DOMAIN D /\ D[k].kind = "then" /\ Ownership(D, f, made, 0)
      /\ f[k].alias = k /\ Desc(k) = D[k] /\ n = f[D[k].from[1]].alias
      /\ Made(k) /\ Making(k, "then") /\ f[n].local /\ D[k].inner = 0
  BY ThenFacts DEF ThenLocalValue
<1>2. Settled(f, n) /\ ~WasDropped(f, n)
  BY <1>1, LocalInput
<1>3. PICK t : t = Outcome(D[k], k, f[n].result)
  OBVIOUS
<1>4. \E e : f' = [f EXCEPT ![k].local = TRUE, ![k].executor = e, ![k].result = t]
  BY <1>1, <1>3 DEF ThenLocalValue, MakeTryCall, Outcome
<1>5. /\ Agree(f, f', {"local", "alias", "executor", "result"})
      /\ f'[k].alias = k /\ f'[k].result = t /\ f'[k].local
      /\ \A m \in DOMAIN D : m # k => f'[m] = f[m]
  BY <1>1, <1>4, OwnershipFacts DEF Agree, Fields, Blank
<1>6. t # Nothing
  BY <1>2, <1>3, OutcomeIsSomething DEF Settled
<1>7. Gives(D, f, k, t)
  BY <1>1, <1>2, <1>3 DEF Gives, ThenGives
<1>8. NewEdge(D, f, f', k)
  BY <1>5, <1>6, <1>7 DEF NewEdge
<1>9. Meanings(D, f, made, 0)
  BY <1>1, MeaningFacts
<1>10. Meanings(D, f', k, 0)
  BY <1>1, <1>5, <1>8, <1>9, MakeMeanings
<1> QED
  BY <1>1, <1>10, MeaningsMade

LEMMA ThenLocalFutureMeanings ==
    ASSUME OwnershipInv, MeaningInv, NEW k \in Nodes, ThenLocalFuture(k) PROVE MeaningInv'
<1> DEFINE D == program.nodes
<1>1. /\ i = 0 /\ k = made + 1 /\ k \in DOMAIN D /\ D[k].kind = "then" /\ Ownership(D, f, made, 0)
      /\ f[k].alias = k /\ Desc(k) = D[k] /\ Input(k) = f[D[k].from[1]].alias
      /\ Made(k) /\ Making(k, "then") /\ f[Input(k)].local /\ D[k].inner # 0
      /\ Input(k) \in DOMAIN D
  BY ThenFacts DEF ThenLocalFuture
<1>2. /\ Settled(f, Input(k)) /\ ~WasDropped(f, Input(k)) /\ OnLocal(D, f, k)
      /\ (Called(D, f, k) <=> ~FailsFirst(k, f[Input(k)].result))
  BY <1>1, LocalInput
<1>3. Meanings(D, f, made, 0)
  BY <1>1, MeaningFacts
<1>4. CASE FailsFirst(k, f[Input(k)].result)
  <2>1. PICK t : t = Outcome(D[k], k, f[Input(k)].result)
    OBVIOUS
  <2>2. f' = [f EXCEPT ![k].local = TRUE, ![k].result = t]
    BY <1>1, <1>4, <2>1 DEF ThenLocalFuture, MakeTryCall, Outcome
  <2>3. /\ Agree(f, f', {"local", "alias", "executor", "result"})
        /\ f'[k].alias = k /\ f'[k].result = t /\ f'[k].local
        /\ \A m \in DOMAIN D : m # k => f'[m] = f[m]
    BY <1>1, <2>2, OwnershipFacts DEF Agree, Fields, Blank
  <2>4. t # Nothing
    BY <1>2, <2>1, OutcomeIsSomething DEF Settled
  <2>5. Gives(D, f, k, t)
    <3>1. Fails(D[k], f[Input(k)].result)
      BY <1>1, <1>4 DEF Fails, FailsFirst
    <3> QED
      BY <1>1, <1>2, <2>1, <3>1 DEF Gives, ThenGives
  <2>6. NewEdge(D, f, f', k)
    BY <2>3, <2>4, <2>5 DEF NewEdge
  <2>7. Meanings(D, f', k, 0)
    BY <1>1, <1>3, <2>3, <2>6, MakeMeanings
  <2> QED
    BY <1>1, <2>7, MeaningsMade
<1>5. CASE ~FailsFirst(k, f[Input(k)].result)
  <2>1. PICK o : o = f[D[k].inner].alias
    OBVIOUS
  <2>2. o \in DOMAIN D /\ o # k
    <3>1. Shape(D, f, made) /\ k <= made + 1
      BY <1>1, MeaningFacts, OwnershipFacts
    <3>2. f[D[k].inner].alias \in DOMAIN D /\ f[D[k].inner].alias # k
      BY <1>1, <3>1, Inputs
    <3> QED
      BY <2>1, <3>2
  <2>3. f' = [f EXCEPT ![k].alias = o, ![k].local = f[o].local,
                       ![o].executor = IF f[o].executor = "none" THEN f[Input(k)].executor
                                       ELSE f[o].executor]
    BY <1>1, <1>5, <2>1, <2>2, ZenonT(60) DEF ThenLocalFuture
  <2>4. DOMAIN f = DOMAIN D /\ k \in DOMAIN D /\ \A m \in DOMAIN D : DOMAIN f[m] = Fields
    BY <1>1, OwnershipFacts, Zenon
  <2>5. /\ DOMAIN f' = DOMAIN f /\ \A m \in DOMAIN D : m # k /\ m # o => f'[m] = f[m]
        /\ f'[k] = [f[k] EXCEPT !.alias = o, !.local = f[o].local]
        /\ f'[o] = [f[o] EXCEPT !.executor = IF f[o].executor = "none"
                                              THEN f[Input(k)].executor ELSE f[o].executor]
    BY <2>2, <2>3, <2>4
  <2>6. Agree(f, f', {"local", "alias", "executor", "result"})
    BY <2>2, <2>4, <2>5, ZenonT(60) DEF Agree, Fields, Blank
  <2>7. f'[k].alias = o /\ \A m \in DOMAIN D : m # k => /\ f'[m].local = f[m].local
                                                        /\ f'[m].alias = f[m].alias
                                                        /\ f'[m].result = f[m].result
    BY <1>1, <2>2, <2>4, <2>5 DEF Fields, Blank
  <2>8. NewEdge(D, f, f', k)
    BY <1>1, <1>2, <1>5, <2>2, <2>7 DEF NewEdge
  <2>9. Meanings(D, f', k, 0)
    BY <1>1, <1>3, <2>6, <2>7, <2>8, MakeMeanings
  <2> QED
    BY <1>1, <2>9, MeaningsMade
<1> QED
  BY <1>4, <1>5, Zenon

\* Only contexts and slots change.
SameButContext(D, s, r) ==
    \A m \in DOMAIN D :
        /\ r[m].alias = s[m].alias /\ r[m].local = s[m].local /\ r[m].result = s[m].result
        /\ r[m].handler = s[m].handler /\ r[m].how = s[m].how /\ r[m].to = s[m].to
        /\ r[m].slot = s[m].slot /\ r[m].forwards = s[m].forwards

LEMMA ButContextContinues ==
    ASSUME NEW D, NEW s, NEW r, NEW md, Shape(D, s, md), Triggered(D, s), SameButContext(D, s, r)
    PROVE  Continues(D, s, r, md) /\ Evolves(D, s, r, md) /\ SameShares(D, s, r)
<1>1. \A k \in 1 .. md : k \in DOMAIN D
  BY ProgramShape DEF Shape
<1>2. Evolves(D, s, r, md)
  BY <1>1 DEF SameButContext, Evolves, Settled, WasDropped
<1>3. Triggered(D, r)
  BY DEF SameButContext, Triggered
<1>4. SameShares(D, s, r)
  BY DEF SameButContext, SameShares, SameShare, KeepsShare, Shares
<1> QED
  BY <1>1, <1>2, <1>3, <1>4, Zenon DEF SameButContext, Continues

LEMMA ButContextDerived ==
    ASSUME NEW D, NEW s, NEW r, NEW md, Shape(D, s, md), Derived(D, s, md), SameButContext(D, s, r)
    PROVE  Derived(D, r, md)
BY ButContextContinues, DerivedKept DEF Derived

LEMMA ButContextKept ==
    ASSUME NEW D, NEW s, NEW r, NEW md, NEW ii, Shape(D, s, md), Triggered(D, s),
           SameButContext(D, s, r),
           NEW k \in DOMAIN D, r[k].ctx = s[k].ctx, r[k].results = s[k].results,
           Context(D, s, md, ii, k)
    PROVE  Context(D, r, md, ii, k)
BY ButContextContinues, ContextKept

LEMMA CollectAllMeanings ==
    ASSUME OwnershipInv, MeaningInv, NEW k \in Nodes, CollectAll(k) PROVE MeaningInv'
<1> DEFINE D == program.nodes
<1>1. /\ i = 0 /\ k = made + 1 /\ k \in DOMAIN D /\ D[k].kind = "collect"
      /\ Ownership(D, f, made, 0) /\ Desc(k) = D[k]
      /\ f[k].alias = k /\ f[k].result = Nothing /\ f[k].handler = "none" /\ f[k].ctx = {}
  BY MakingFacts, ZenonT(60) DEF CollectAll
<1>2. Meanings(D, f, made, 0)
  BY <1>1, MeaningFacts
<1>3. /\ Shape(D, f, made) /\ SharersKnown(D, f) /\ k <= made + 1 /\ DOMAIN f = DOMAIN D
      /\ Triggered(D, f) /\ Contexts(D, f, made, 0) /\ Derived(D, f, made)
      /\ \A j \in DOMAIN D[k].from : j \in Nat \ {0}
  <2>1. Shape(D, f, made) /\ k <= made + 1
    BY <1>1, MeaningFacts, OwnershipFacts
  <2>2. \A j \in DOMAIN D[k].from : j \in Nat \ {0}
    BY <1>1, <2>1, Inputs
  <2> QED
    BY <1>1, <2>1, <2>2, MeaningFacts
<1>4. CASE \A j \in DOMAIN D[k].from : HasResult(f, D[k].from[j])
  <2>1. PICK t : t = Value(k, [j \in DOMAIN D[k].from |-> f[f[D[k].from[j]].alias].result])
    OBVIOUS
  <2>2. f' = [f EXCEPT ![k].local = TRUE, ![k].result = t] /\ Made(k)
    <3>1. \A j \in DOMAIN Desc(k).from : HasResult(f, Desc(k).from[j])
      BY <1>1, <1>4, Zenon
    <3> QED
      BY <1>1, <2>1, <3>1, Zenon DEF CollectAll
  <2>3. /\ Agree(f, f', {"local", "alias", "executor", "result"})
        /\ f'[k].alias = k /\ f'[k].result = t
        /\ \A m \in DOMAIN D : m # k => f'[m] = f[m]
    BY <1>1, <2>2, OwnershipFacts DEF Agree, Fields, Blank
  <2>4. t # Nothing
    BY <2>1 DEF Value, Nothing
  <2>5. ASSUME NEW j \in DOMAIN D[k].from
        PROVE  LET n == f[D[k].from[j]].alias IN Settled(f, n) /\ Passed(f, n) = f[n].result
    <3>1. PICK n : n = f[D[k].from[j]].alias
      OBVIOUS
    <3>2. f[n].handler = "none" /\ ~WasDropped(f, n)
      <4>1. ~(j < 0)
        BY <1>3
      <4> QED
        BY <1>1, <3>1, <4>1, UnusedSlot
    <3>3. f[n].result # Nothing
      BY <1>4, <3>1 DEF HasResult
    <3> QED
      BY <3>1, <3>2, <3>3 DEF Settled, Final, Passed
  <2>6. Gives(D, f, k, t)
    BY <1>1, <2>1, <2>5 DEF Gives, CollectGives
  <2>7. NewEdge(D, f, f', k)
    BY <1>1, <2>3, <2>4, <2>6 DEF NewEdge
  <2>8. Meanings(D, f', k, 0)
    BY <1>1, <1>2, <2>3, <2>7, MakeMeanings
  <2> QED
    BY <1>1, <2>2, <2>8, MeaningsMade
<1>5. CASE ~\A j \in DOMAIN D[k].from : HasResult(f, D[k].from[j])
  <2>1. /\ f' = [f EXCEPT ![k].results = [j \in DOMAIN D[k].from |-> Nothing], ![k].ctx = {0}]
        /\ i' = 1 /\ program' = program /\ made' = made
    BY <1>1, <1>5 DEF CollectAll
  <2>2. /\ Agree(f, f', {"ctx", "results"}) /\ f'[k].ctx = {0}
        /\ f'[k].results = [j \in DOMAIN D[k].from |-> Nothing]
        /\ \A m \in DOMAIN D : m # k => f'[m] = f[m]
    BY <1>1, <2>1, OwnershipFacts DEF Agree, Fields, Blank
  <2>3. SameButContext(D, f, f')
    BY <1>3, <2>2, AgreeFacts DEF SameButContext
  <2>4. Sharers(D, f')
    <3> SUFFICES ASSUME NEW n \in DOMAIN D, Shares(f', n) PROVE f'[n].slot \in f'[f'[n].to].ctx
      BY DEF Sharers
    <3>1. Shares(f, n) /\ f'[n].slot = f[n].slot /\ f'[n].to = f[n].to
      BY <2>3 DEF SameButContext, Shares
    <3>2. f[n].slot \in f[f[n].to].ctx /\ f[n].to \in DOMAIN D
      BY <1>3, <3>1 DEF Contexts, Sharers, SharersKnown
    <3>3. f[n].to # k
      BY <1>1, <3>2
    <3> QED
      BY <2>2, <3>1, <3>2, <3>3
  <2>5. ASSUME NEW x \in DOMAIN D, f'[x].ctx # {} PROVE Context(D, f', made, 1, x)
    <3>1. CASE x = k
      <4>1. \A j \in DOMAIN D[k].from : ~(k <= made \/ j < 1)
        BY <1>1, <1>3, OwnershipFacts
      <4>2. \A j \in DOMAIN D[k].from : j \notin {0}
        BY <1>3
      <4> QED
        BY <1>3, <2>2, <3>1, <4>1, <4>2 DEF Context
    <3>2. CASE x # k
      <4>1. f'[x] = f[x]
        BY <2>2, <3>2
      <4>2. Context(D, f, made, 0, x)
        BY <1>3, <2>5, <4>1 DEF Contexts
      <4>3. x <= made
        <5>1. x <= made + 1 /\ x \in Nat /\ made \in Nat
          BY <4>2, OwnershipFacts DEF Context
        <5> QED
          BY <1>1, <3>2, <5>1
      <4>4. Context(D, f', made, 0, x)
        BY <1>3, <2>3, <4>1, <4>2, ButContextKept
      <4> QED
        BY <4>3, <4>4 DEF Context
    <3> QED
      BY <3>1, <3>2
  <2>6. Derived(D, f', made)
    BY <1>3, <2>3, ButContextDerived
  <2>7. Meanings(D, f', made, 1)
    BY <2>4, <2>5, <2>6 DEF Meanings, Contexts
  <2> QED
    BY <2>1, <2>7 DEF MeaningInv
<1> QED
  BY <1>4, <1>5

\* Main is in CollectAll's loop: what there is of its context.
LEMMA CollectingFacts ==
    ASSUME OwnershipInv, MeaningInv, NEW k \in Nodes, Making(k, "collect"), i > 0
    PROVE  LET D == program.nodes IN
           /\ k = made + 1 /\ k \in DOMAIN D /\ D[k].kind = "collect" /\ Desc(k) = D[k]
           /\ f[k].alias = k /\ f[k].result = Nothing /\ Context(D, f, made, i, k)
           /\ f[k].results = [j \in DOMAIN D[k].from |-> f[k].results[j]]
           /\ \A x \in DOMAIN D : x # k /\ f[x].ctx # {} => x <= made
           /\ i \in Nat /\ made \in Nat /\ ~(k <= made)
           /\ \A j \in DOMAIN D[k].from : j \in Nat \ {0}
<1> DEFINE D == program.nodes
<1>1. /\ k = made + 1 /\ k \in DOMAIN D /\ D[k].kind = "collect" /\ Desc(k) = D[k]
      /\ f[k].alias = k /\ f[k].result = Nothing /\ 0 \in f[k].ctx
  BY LoopFacts
<1>2. i \in Nat /\ made \in Nat /\ k <= made + 1 /\ ~(k <= made)
  BY <1>1, OwnershipFacts
<1>3. Context(D, f, made, i, k)
  BY <1>1, MeaningFacts DEF Contexts
<1>4. ASSUME NEW x \in DOMAIN D, x # k, f[x].ctx # {} PROVE x <= made
  <2>1. x <= made + 1
    BY <1>4, MeaningFacts DEF Contexts, Context
  <2>2. x \in Nat
    BY OwnershipFacts
  <2> QED
    BY <1>1, <1>2, <1>4, <2>1, <2>2
<1>5. \A j \in DOMAIN D[k].from : j \in Nat \ {0}
  BY <1>1, OwnershipFacts, ProgramShape
<1>6. f[k].results = [j \in DOMAIN D[k].from |-> f[k].results[j]]
  BY <1>3 DEF Context
<1> QED
  BY <1>1, <1>2, <1>3, <1>4, <1>5, <1>6

\* The contexts of made futures do not depend on the loop.
LEMMA LoopGoesOn ==
    ASSUME NEW D, NEW s, NEW md, NEW ii, NEW jj, NEW k, k <= md, Context(D, s, md, ii, k)
    PROVE  Context(D, s, md, jj, k)
BY DEF Context

LEMMA CollectCheckMeanings ==
    ASSUME OwnershipInv, MeaningInv, NEW k \in Nodes, CollectCheck(k) PROVE MeaningInv'
<1> DEFINE D == program.nodes
<1>1. /\ Making(k, "collect") /\ i \in DOMAIN D[k].from /\ program' = program /\ made' = made
      /\ i > 0
  <2>1. Making(k, "collect") /\ program' = program /\ made' = made /\ i \in DOMAIN Desc(k).from
    BY DEF CollectCheck
  <2>2. i \in DOMAIN D[k].from /\ k \in DOMAIN D
    BY <2>1, OwnershipFacts
  <2>3. i \in Nat \ {0}
    BY <2>2, OwnershipFacts, ProgramShape
  <2> QED
    BY <2>1, <2>2, <2>3
<1>2. /\ k = made + 1 /\ k \in DOMAIN D /\ D[k].kind = "collect" /\ Desc(k) = D[k]
      /\ f[k].alias = k /\ f[k].result = Nothing /\ Context(D, f, made, i, k)
      /\ f[k].results = [j \in DOMAIN D[k].from |-> f[k].results[j]]
      /\ \A x \in DOMAIN D : x # k /\ f[x].ctx # {} => x <= made
      /\ i \in Nat /\ made \in Nat /\ ~(k <= made)
      /\ \A j \in DOMAIN D[k].from : j \in Nat \ {0}
  BY <1>1, CollectingFacts
<1>3. CASE HasResult(f, D[k].from[i])
  <2>1. PICK n : n = f[D[k].from[i]].alias
    OBVIOUS
  <2>2. n \in DOMAIN D /\ f[n].handler = "none" /\ ~WasDropped(f, n)
    <3>1. ~(i < i) /\ Ownership(D, f, made, i)
      BY <1>2, OwnershipFacts
    <3> QED
      BY <1>1, <1>2, <2>1, <3>1, UnusedSlot
  <2>3. Settled(f, n) /\ Passed(f, n) = f[n].result
    BY <1>3, <2>1, <2>2 DEF HasResult, Settled, Final, Passed
  <2>4. PICK t : t = f[n].result
    OBVIOUS
  <2>5. f' = [f EXCEPT ![k].results[i] = t] /\ i' = i + 1
    BY <1>2, <1>3, <2>1, <2>4 DEF CollectCheck
  <2>6. /\ Agree(f, f', {"ctx", "results"})
        /\ f'[k].results = [f[k].results EXCEPT ![i] = t] /\ f'[k].ctx = f[k].ctx
        /\ \A m \in DOMAIN D : m # k => f'[m] = f[m]
    <3>1. DOMAIN f = DOMAIN D /\ \A m \in DOMAIN D : DOMAIN f[m] = Fields
      BY OwnershipFacts, Zenon
    <3> QED
      BY <1>2, <2>5, <3>1 DEF Agree, Fields, Blank
  <2>7. /\ f'[k].results = [j \in DOMAIN D[k].from |-> f'[k].results[j]]
        /\ f'[k].results[i] = t
        /\ \A j \in DOMAIN D[k].from : j # i => f'[k].results[j] = f[k].results[j]
    BY <1>1, <1>2, <2>6
  <2>8. SameButContext(D, f, f')
    BY <2>6, OwnershipFacts, AgreeFacts DEF SameButContext
  <2>9. /\ Shape(D, f, made) /\ Triggered(D, f) /\ Evolves(D, f, f', made) /\ SameShares(D, f, f')
    BY <2>8, MeaningFacts, ButContextContinues
  <2>10. Context(D, f', made, i + 1, k)
    <3>1. i \notin f[k].ctx
      <4>1. ~(k <= made \/ i < i)
        BY <1>2
      <4> QED
        BY <1>1, <1>2, <4>1, Zenon DEF Context
    <3>2. Slot(D, f', k, i)
      <4>1. f'[D[k].from[i]].alias = n
        BY <1>1, <1>2, <2>1, <2>8, OwnershipFacts, ProgramShape DEF SameButContext
      <4>2. Settled(f', n) /\ Passed(f', n) = t
        BY <2>2, <2>3, <2>4, <2>9, SettledKept
      <4> QED
        BY <2>6, <2>7, <3>1, <4>1, <4>2 DEF Slot
    <3>3. SlotsStay(D, f, f', k, i, 0)
      <4>1. \A j \in DOMAIN D[k].from : f[D[k].from[j]].alias # 0
        BY <1>2, <2>9, Inputs
      <4> QED
        BY <2>6, <2>7, <2>9, <4>1 DEF SlotsStay, SameShares, SameShare
    <3>4. i < i + 1 /\ \A j \in DOMAIN D[k].from : j # i => (j < i + 1 <=> j < i)
      BY <1>2
    <3> QED
      BY <1>2, <2>9, <3>2, <3>3, <3>4, ContextChanged
  <2>11. ASSUME NEW x \in DOMAIN D, x # k, f'[x].ctx # {} PROVE Context(D, f', made, i + 1, x)
    <3>1. f'[x] = f[x] /\ f[x].ctx # {} /\ x <= made
      BY <1>2, <2>6, <2>11
    <3>2. Context(D, f, made, i, x)
      BY <3>1, MeaningFacts DEF Contexts
    <3>3. Context(D, f', made, i, x)
      BY <2>8, <2>9, <3>1, <3>2, ButContextKept
    <3> QED
      BY <3>1, <3>3, LoopGoesOn
  <2>12. Sharers(D, f')
    <3>1. Sharers(D, f) /\ SharersKnown(D, f) /\ \A m \in DOMAIN D : f'[m].ctx = f[m].ctx
      BY <2>6, MeaningFacts DEF Contexts
    <3> QED
      BY <2>8, <3>1 DEF Sharers, SharersKnown, SameButContext, Shares
  <2>13. Meanings(D, f', made, i + 1)
    <3>1. Derived(D, f', made)
      BY <2>8, MeaningFacts, ButContextDerived
    <3> QED
      BY <2>10, <2>11, <2>12, <3>1 DEF Meanings, Contexts
  <2> QED
    BY <1>1, <2>5, <2>13 DEF MeaningInv
<1>4. CASE ~HasResult(f, D[k].from[i])
  <2>1. f' = f /\ i' = i
    BY <1>2, <1>4 DEF CollectCheck
  <2> QED
    BY <1>1, <2>1 DEF MeaningInv
<1> QED
  BY <1>3, <1>4

LEMMA CollectSetContinuationMeanings ==
    ASSUME OwnershipInv, MeaningInv, NEW k \in Nodes, CollectSetContinuation(k)
    PROVE  MeaningInv'
<1> DEFINE D == program.nodes
<1>1. /\ Making(k, "collect") /\ i \in DOMAIN D[k].from /\ program' = program /\ made' = made
      /\ i' = i + 1 /\ i > 0
  <2>1. Making(k, "collect") /\ program' = program /\ made' = made /\ checked /\ i' = i + 1
    BY DEF CollectSetContinuation
  <2>2. k \in DOMAIN D /\ k = made + 1
    BY <2>1, OwnershipFacts DEF Making
  <2>3. i \in DOMAIN D[k].from
    BY <2>1, <2>2 DEF OwnershipInv, Desc
  <2>4. i \in Nat \ {0}
    BY <2>2, <2>3, OwnershipFacts, ProgramShape
  <2> QED
    BY <2>1, <2>3, <2>4
<1>2. /\ k = made + 1 /\ k \in DOMAIN D /\ D[k].kind = "collect" /\ Desc(k) = D[k]
      /\ f[k].alias = k /\ f[k].result = Nothing /\ Context(D, f, made, i, k)
      /\ f[k].results = [j \in DOMAIN D[k].from |-> f[k].results[j]]
      /\ \A x \in DOMAIN D : x # k /\ f[x].ctx # {} => x <= made
      /\ i \in Nat /\ made \in Nat /\ ~(k <= made)
      /\ \A j \in DOMAIN D[k].from : j \in Nat \ {0}
  BY <1>1, CollectingFacts
<1>3. PICK n : n = f[D[k].from[i]].alias
  OBVIOUS
<1>4. PICK q : q = [f EXCEPT ![k].ctx = f[k].ctx \union {i}]
  OBVIOUS
<1>5. f' = SetContinuation(q, n, k, i, FALSE, "outside")
  BY <1>2, <1>3, <1>4 DEF CollectSetContinuation
<1>6. n \in DOMAIN D /\ f[n].handler = "none" /\ ~WasDropped(f, n) /\ n # k
  <2>1. ~(i < i) /\ Ownership(D, f, made, i)
    BY <1>2, OwnershipFacts
  <2>2. n \in DOMAIN D /\ f[n].handler = "none" /\ ~WasDropped(f, n)
    BY <1>1, <1>2, <1>3, <2>1, UnusedSlot
  <2>3. n # k
    BY <1>1, <1>2, <1>3, MeaningFacts, Inputs
  <2> QED
    BY <2>2, <2>3
<1>7. /\ Agree(f, q, {"ctx", "results"}) /\ \A m \in DOMAIN D : m # k => q[m] = f[m]
      /\ q[k].ctx = f[k].ctx \union {i} /\ q[k].results = f[k].results
  BY <1>2, <1>4, OwnershipFacts DEF Agree, Fields, Blank
<1>8. SameButContext(D, f, q) /\ DOMAIN q = DOMAIN D /\ \A m \in DOMAIN D : DOMAIN q[m] = Fields
  BY <1>7, OwnershipFacts, AgreeFacts DEF SameButContext
<1>9. Shape(D, f, made) /\ Derived(D, f, made) /\ Triggered(D, f) /\ Evolves(D, f, q, made)
  BY <1>8, MeaningFacts, ButContextContinues
<1>10. Shape(D, q, made)
  BY <1>8, <1>9 DEF Shape, SameButContext
<1>11. Derived(D, q, made)
  BY <1>8, <1>9, ButContextDerived
<1>12. q[n].handler = "none" /\ ~WasDropped(q, n)
  BY <1>6, <1>8 DEF SameButContext, WasDropped
<1>13. Continues(D, q, f', made) /\ Evolves(D, q, f', made) /\ Derived(D, f', made)
  <2>1. Continues(D, q, f', made)
    BY <1>5, <1>6, <1>10, <1>11, <1>12, SubscribeContinues
  <2> QED
    BY <1>10, <1>11, <2>1, DerivedKept DEF Continues
<1>14. /\ \A m \in DOMAIN D : m # n => f'[m] = q[m]
       /\ f'[n].to = k /\ f'[n].slot = i /\ f'[n].handler \in {"set", "run"}
       /\ f'[n].ctx = f[n].ctx /\ f'[n].results = f[n].results
       /\ \A m \in DOMAIN D : f'[m].alias = f[m].alias
  <2>1. /\ Agree(q, f', {"to", "slot", "forwards", "twice", "handler", "how", "caller",
                         "on", "guards"})
        /\ \A m \in DOMAIN q : m # n => f'[m] = q[m]
        /\ f'[n].to = k /\ f'[n].slot = i
        /\ f'[n].handler = IF q[n].result = Nothing THEN "set" ELSE "run"
    <3>1. n \in DOMAIN q /\ \A m \in DOMAIN q : DOMAIN q[m] = Fields
      BY <1>6, <1>8
    <3>2. PICK forwards : forwards = FALSE
      OBVIOUS
    <3>3. f' = SetContinuation(q, n, k, i, forwards, "outside")
      BY <1>5, <3>2
    <3> QED
      BY <3>1, <3>3, SetContinuationEffect
  <2>2. f'[n].ctx = q[n].ctx /\ f'[n].results = q[n].results
    BY <1>6, <1>8, <2>1, AgreeFacts
  <2>3. \A m \in DOMAIN D : f'[m].alias = f[m].alias
    BY <1>8, <2>1, AgreeFacts DEF SameButContext
  <2> QED
    BY <1>6, <1>7, <1>8, <2>1, <2>2, <2>3
<1>15. Evolves(D, f, f', made)
  <2>1. \A m \in 1 .. made : m \in DOMAIN D
    BY <1>9, ProgramShape DEF Shape
  <2> QED
    BY <1>8, <1>13, <2>1 DEF Evolves, SameButContext, Settled, WasDropped
<1>16. ASSUME NEW m \in DOMAIN D, m # n
       PROVE  KeepsShare(f, f', m) /\ (Shares(f', m) => Shares(f, m))
              /\ f'[m].to = f[m].to /\ f'[m].slot = f[m].slot
  <2>1. f'[m] = q[m]
    BY <1>14, <1>16
  <2> QED
    BY <1>8, <2>1 DEF SameButContext, KeepsShare, Shares
<1>17. f'[k].ctx = f[k].ctx \union {i} /\ f'[k].results = f[k].results
       /\ \A x \in DOMAIN D : x # k => f'[x].ctx = f[x].ctx /\ f'[x].results = f[x].results
  BY <1>2, <1>6, <1>7, <1>14
<1>18. Shares(f', n) /\ ~Shares(f, n)
  BY <1>1, <1>6, <1>14 DEF Shares
<1>19. ASSUME NEW x \in DOMAIN D, f[x].ctx # {}
       PROVE  Context(D, f, made, i, x) /\ \A j \in DOMAIN D[x].from :
                j \in f[x].ctx => f[D[x].from[j]].alias # n
  <2>1. Context(D, f, made, i, x)
    BY <1>19, MeaningFacts DEF Contexts
  <2>2. ASSUME NEW j \in DOMAIN D[x].from, j \in f[x].ctx PROVE f[D[x].from[j]].alias # n
    <3>1. Slot(D, f, x, j)
      BY <2>1, <2>2 DEF Context
    <3>2. Shares(f, f[D[x].from[j]].alias)
      BY <2>2, <3>1 DEF Slot
    <3> QED
      BY <1>18, <3>2
  <2> QED
    BY <2>1, <2>2
<1>20. f[k].ctx # {}
  BY <1>1, LoopFacts
<1>21. Context(D, f', made, i + 1, k)
  <2>1. Slot(D, f', k, i)
    <3>1. f'[D[k].from[i]].alias = n
      BY <1>1, <1>2, <1>3, <1>14, OwnershipFacts, ProgramShape
    <3>2. f'[k].results[i] = Nothing
      BY <1>1, <1>2, <1>17 DEF Context
    <3> QED
      BY <1>14, <1>17, <1>18, <3>1, <3>2 DEF Slot
  <2>2. SlotsStay(D, f, f', k, i, n)
    BY <1>2, <1>16, <1>17, <1>19, <1>20 DEF SlotsStay
  <2>3. i < i + 1 /\ \A j \in DOMAIN D[k].from : j # i => (j < i + 1 <=> j < i)
    BY <1>2
  <2> QED
    BY <1>2, <1>9, <1>15, <2>1, <2>2, <2>3, ContextChanged
<1>22. ASSUME NEW x \in DOMAIN D, x # k, f'[x].ctx # {} PROVE Context(D, f', made, i + 1, x)
  <2>1. f[x].ctx # {} /\ x <= made
    BY <1>2, <1>17, <1>22
  <2>2. Context(D, f, made, i, x)
    BY <1>19, <2>1
  <2>3. f[x].results = [j \in DOMAIN D[x].from |-> f[x].results[j]]
    BY <2>2 DEF Context
  <2>4. SlotsStay(D, f, f', x, 0, n) /\ 0 \notin DOMAIN D[x].from
    <3>1. 0 \notin DOMAIN D[x].from
      BY OwnershipFacts, ProgramShape
    <3> QED
      BY <1>16, <1>17, <1>19, <1>22, <2>1, <2>3, <3>1 DEF SlotsStay
  <2>5. Context(D, f', made, i, x)
    BY <1>9, <1>15, <2>2, <2>4, ContextChanged
  <2> QED
    BY <2>1, <2>5, LoopGoesOn
<1>23. Sharers(D, f')
  <2> SUFFICES ASSUME NEW m \in DOMAIN D, Shares(f', m) PROVE f'[m].slot \in f'[f'[m].to].ctx
    BY DEF Sharers
  <2>1. CASE m = n
    BY <1>14, <1>17, <2>1
  <2>2. CASE m # n
    <3>1. Shares(f, m) /\ f'[m].to = f[m].to /\ f'[m].slot = f[m].slot
      BY <1>16, <2>2
    <3>2. f[m].slot \in f[f[m].to].ctx /\ f[m].to \in DOMAIN D
      BY <3>1, MeaningFacts DEF Contexts, Sharers, SharersKnown
    <3> QED
      BY <1>17, <3>1, <3>2
  <2> QED
    BY <2>1, <2>2
<1>24. Meanings(D, f', made, i + 1)
  BY <1>13, <1>21, <1>22, <1>23 DEF Meanings, Contexts
<1> QED
  BY <1>1, <1>24 DEF MeaningInv

\* The future that a callback returned has not been used.
LEMMA InnerUnused ==
    ASSUME NEW D, NEW s, NEW md, NEW ii, Ownership(D, s, md, ii), NEW n \in DOMAIN D,
           s[n].handler = "run", NEW k, ThenLink(D, s, md, n, k, s[n].slot, s[n].forwards),
           D[k].inner # 0, NEW o, o = s[D[k].inner].alias
    PROVE  o \in DOMAIN D /\ s[o].handler = "none" /\ ~WasDropped(s, o)
<1>1. /\ k \in 1 .. md /\ D[k].kind = "then" /\ s[k].alias = k /\ s[D[k].from[1]].alias = n
  BY DEF ThenLink
<1>2. Shape(D, s, md) /\ k \in DOMAIN D /\ k <= md + 1 /\ IsProgram(D)
  <2>1. Shape(D, s, md)
    BY ShapeOfOwnership
  <2>2. md \in Nat /\ Len(D) \in Nat /\ DOMAIN D = 1 .. Len(D) /\ md <= Len(D) /\ IsProgram(D)
    BY <2>1, ProgramShape DEF Shape
  <2> QED
    BY <1>1, <2>1, <2>2
<1>3. PICK x : x = D[k].inner
  OBVIOUS
<1>4. x \in 1 .. md /\ o \in DOMAIN D /\ o = s[x].alias /\ 1 \in DOMAIN D[k].from
  BY <1>1, <1>2, <1>3, Inputs
<1>5. s[o].handler = "none"
  <2> SUFFICES ASSUME s[o].handler # "none" PROVE FALSE
    OBVIOUS
  <2>1. Uses(D, s, k, x)
    BY <1>1, <1>3 DEF Uses
  <2>2. \/ D[k].from[1] = x
        \/ CollectLink(D, s, md, ii, o, k, s[o].slot, s[o].forwards)
        \/ ForwardLink(D, s, md, o, k, s[o].slot, s[o].forwards)
    BY <1>2, <1>4, <2>1, ContinuationOfUser
  <2>3. D[k].from[1] # x
    BY <1>2, <1>3, <1>4 DEF IsProgram
  <2>4. ~CollectLink(D, s, md, ii, o, k, s[o].slot, s[o].forwards)
    BY <1>1 DEF CollectLink
  <2>5. ~ForwardLink(D, s, md, o, k, s[o].slot, s[o].forwards)
    BY <1>1 DEF ForwardLink
  <2> QED
    BY <2>2, <2>3, <2>4, <2>5
<1>6. ~WasDropped(s, o)
  BY <1>4, <1>5 DEF Ownership, Hows, WasDropped
<1> QED
  BY <1>4, <1>5, <1>6

\* What the callback or forwarder on n, which has run or is destroyed, leaves behind.
Continuation(D, q, md, n, k, forwards) ==
    /\ k \in 1 .. md /\ q[k].alias = k /\ q[k].result = Nothing /\ Settled(q, n)
    /\ WasDropped(q, n) => Gives(D, q, k, Broken(k))
    /\ ~WasDropped(q, n) /\ forwards => Gives(D, q, k, q[n].result)
    /\ ~WasDropped(q, n) /\ ~forwards =>
          IF D[k].inner = 0 \/ Fails(D[k], q[n].result)
            THEN Gives(D, q, k, Outcome(D[k], k, q[n].result))
          ELSE Forwarding(D, q, md, k)

LEMMA ContinuationGives ==
    ASSUME NEW D, NEW s, NEW md, NEW ii, Ownership(D, s, md, ii),
           NEW n, NEW q, Ownership(D, q, md, ii), Finishes(D, s, n, q), Derived(D, q, md),
           s[n].slot = 0, NEW k, k = s[n].to
    PROVE  Continuation(D, q, md, n, k, s[n].forwards)
<1>1. n \in DOMAIN D /\ Holds(s, n) /\ Agree(s, q, {"handler", "guards"}) /\ DOMAIN s = DOMAIN D
      /\ q[n].handler \in {"ran", "gone"}
  BY DEF Finishes, Holds, Holding, Ownership, Types
<1>2. /\ k \in DOMAIN D /\ k \in 1 .. md /\ D[k].kind = "then"
      /\ \/ ThenLink(D, s, md, n, k, s[n].slot, s[n].forwards)
         \/ ForwardLink(D, s, md, n, k, s[n].slot, s[n].forwards)
  BY <1>1, HolderLink
<1>3. \A m \in DOMAIN D :
        /\ q[m].alias = s[m].alias /\ q[m].local = s[m].local /\ q[m].result = s[m].result
        /\ q[m].forwards = s[m].forwards
  BY <1>1, AgreeFacts
<1>4. q[k].result = Nothing /\ q[k].alias = k /\ q[k].local = FALSE
  <2>1. s[k].result = Nothing
    BY <1>1 DEF Ownership, Promises
  <2>2. s[k].alias = k /\ s[k].local = FALSE
    BY <1>2 DEF ThenLink, ForwardLink
  <2> QED
    BY <1>2, <1>3, <2>1, <2>2
<1>5. Settled(q, n)
  BY <1>1 DEF Derived, Triggered, Settled, Final
<1>6. Shape(D, q, md) /\ k <= md + 1
  BY <1>2, ShapeOfOwnership, ProgramShape DEF Shape
<1>7. D[k].from[1] \in DOMAIN D /\ q[D[k].from[1]].alias \in DOMAIN D
      /\ (D[k].inner # 0 => D[k].inner \in DOMAIN D)
  BY <1>2, <1>6, Inputs
<1>8. CASE ThenLink(D, s, md, n, k, s[n].slot, s[n].forwards)
  <2>1. q[D[k].from[1]].alias = n /\ s[n].forwards = FALSE
    BY <1>3, <1>7, <1>8 DEF ThenLink
  <2>2. OnLocal(D, q, k) = FALSE
    <3>1. Edge(D, q, k)
      BY <1>2 DEF Derived, Edges
    <3>2. ~OnLocal(D, q, k)
      BY <1>2, <1>4, <3>1 DEF Edge
    <3>3. q[n].local \in BOOLEAN
      BY <1>1 DEF Ownership, Types
    <3> QED
      BY <2>1, <3>2, <3>3, Zenon DEF OnLocal
  <2>3. WasDropped(q, n) => Gives(D, q, k, Broken(k))
    BY <1>2, <1>5, <2>1 DEF Gives, ThenGives
  <2>4. ~WasDropped(q, n) /\ (D[k].inner = 0 \/ Fails(D[k], q[n].result)) =>
          Gives(D, q, k, Outcome(D[k], k, q[n].result))
    BY <1>2, <1>5, <2>1 DEF Gives, ThenGives
  <2>5. ~WasDropped(q, n) /\ ~Fails(D[k], q[n].result) => Forwarding(D, q, md, k)
    BY <1>2, <1>5, <2>1, <2>2 DEF Forwarding, Called
  <2> QED
    BY <1>2, <1>4, <1>5, <2>1, <2>3, <2>4, <2>5, Zenon DEF Continuation
<1>9. CASE ForwardLink(D, s, md, n, k, s[n].slot, s[n].forwards)
  <2>1. D[k].inner # 0 /\ q[D[k].inner].alias = n /\ s[n].forwards = TRUE
    BY <1>3, <1>7, <1>9 DEF ForwardLink
  <2>2. OnLocal(D, q, k) = FALSE /\ Called(D, q, k)
    <3>1. q[n].handler # "none" /\ q[n].forwards /\ q[n].to = k
      BY <1>1, <1>3, <2>1, AgreeFacts
    <3> QED
      BY <1>1, <3>1 DEF Derived, Forwarders
  <2>3. Gives(D, q, k, IF WasDropped(q, n) THEN Broken(k) ELSE q[n].result)
    BY <1>2, <1>5, <2>1, <2>2 DEF Gives, ThenGives, OnLocal, Called
  <2> QED
    BY <1>2, <1>4, <1>5, <2>1, <2>3, Zenon DEF Continuation
<1> QED
  BY <1>2, <1>8, <1>9


\* The callback or the forwarder on n leaves what its promise stands for.
LEMMA FinishMeanings ==
    ASSUME NEW D, NEW s, NEW md, NEW ii, Ownership(D, s, md, ii),
           NEW n, NEW q, Ownership(D, q, md, ii), Finishes(D, s, n, q), Meanings(D, q, md, ii),
           s[n].slot = 0, NEW k, k = s[n].to, NEW th
    PROVE  /\ WasDropped(q, n) => Meanings(D, SetResult(q, k, Broken(k), th), md, ii)
           /\ ~WasDropped(q, n) /\ s[n].forwards =>
                Meanings(D, SetResult(q, k, q[n].result, th), md, ii)
           /\ ~WasDropped(q, n) /\ ~s[n].forwards /\ (D[k].inner = 0 \/ Fails(D[k], q[n].result)) =>
                Meanings(D, SetResult(q, k, Outcome(D[k], k, q[n].result), th), md, ii)
           /\ s[n].handler = "run" /\ ~WasDropped(q, n) /\ ~s[n].forwards
                /\ ~(D[k].inner = 0 \/ Fails(D[k], q[n].result)) =>
                Meanings(D, SetContinuation(q, q[D[k].inner].alias, k, 0, TRUE, th), md, ii)
<1>1. Shape(D, q, md) /\ SharersKnown(D, q) /\ Derived(D, q, md)
  BY ShapeOfOwnership, SharersOfOwnership DEF Meanings
<1>2. Continuation(D, q, md, n, k, s[n].forwards)
  BY <1>1, ContinuationGives
<1>3. k \in 1 .. md /\ q[k].alias = k /\ q[k].result = Nothing /\ Settled(q, n)
  BY <1>2 DEF Continuation
<1>4. ASSUME NEW t, t # Nothing, Gives(D, q, k, t)
      PROVE  Meanings(D, SetResult(q, k, t, th), md, ii)
  <2>1. PICK r : r = SetResult(q, k, t, th)
    OBVIOUS
  <2>2. Meanings(D, r, md, ii)
    BY <1>1, <1>3, <1>4, <2>1, FulfilMeanings
  <2> QED
    BY <2>1, <2>2
<1>5. q[n].result # Nothing
  BY <1>3 DEF Settled
<1>6. WasDropped(q, n) => Meanings(D, SetResult(q, k, Broken(k), th), md, ii)
  <2>1. Broken(k) # Nothing
    BY DEF Broken, Nothing
  <2> QED
    BY <1>2, <1>4, <2>1 DEF Continuation
<1>7. ~WasDropped(q, n) /\ s[n].forwards => Meanings(D, SetResult(q, k, q[n].result, th), md, ii)
  BY <1>2, <1>4, <1>5 DEF Continuation
<1>8. ~WasDropped(q, n) /\ ~s[n].forwards /\ (D[k].inner = 0 \/ Fails(D[k], q[n].result)) =>
        Meanings(D, SetResult(q, k, Outcome(D[k], k, q[n].result), th), md, ii)
  <2>1. Outcome(D[k], k, q[n].result) # Nothing
    BY <1>5, OutcomeIsSomething
  <2> QED
    BY <1>2, <1>4, <2>1 DEF Continuation
<1>9. ASSUME s[n].handler = "run", ~WasDropped(q, n), ~s[n].forwards,
             ~(D[k].inner = 0 \/ Fails(D[k], q[n].result))
      PROVE  Meanings(D, SetContinuation(q, q[D[k].inner].alias, k, 0, TRUE, th), md, ii)
  <2>1. Forwarding(D, q, md, k)
    BY <1>2, <1>9 DEF Continuation
  <2>2. ThenLink(D, s, md, n, k, s[n].slot, s[n].forwards)
    <3>1. Holds(s, n)
      BY <1>9 DEF Holds, Holding
    <3>2. n \in DOMAIN D
      BY DEF Finishes
    <3> QED
      BY <1>9, <3>1, <3>2, HolderLink DEF ForwardLink
  <2>3. PICK o : o = s[D[k].inner].alias
    OBVIOUS
  <2>4. o \in DOMAIN D /\ s[o].handler = "none" /\ ~WasDropped(s, o)
    <3>1. n \in DOMAIN D
      BY DEF Finishes
    <3> QED
      BY <1>9, <2>2, <2>3, <3>1, InnerUnused
  <2>5. D[k].inner \in DOMAIN D /\ DOMAIN s = DOMAIN D
    <3>1. md \in Nat /\ k <= md + 1 /\ k \in DOMAIN D
      BY <1>1, <1>3, ProgramShape DEF Shape
    <3>2. D[k].inner \in DOMAIN D
      BY <1>1, <1>9, <3>1, Inputs
    <3> QED
      BY <3>2 DEF Ownership, Types
  <2>6. q[D[k].inner].alias = o /\ q[o].handler = "none" /\ ~WasDropped(q, o)
    <3>1. q[D[k].inner].alias = s[D[k].inner].alias /\ q[o].how = s[o].how
      BY <2>4, <2>5, AgreeFacts DEF Finishes
    <3>2. q[o].handler = s[o].handler
      BY <1>9, <2>4 DEF Finishes
    <3> QED
      BY <2>3, <2>4, <3>1, <3>2 DEF WasDropped
  <2>7. PICK forwards : forwards = TRUE
    OBVIOUS
  <2>8. PICK r : r = SetContinuation(q, o, k, 0, forwards, th)
    OBVIOUS
  <2>9. Meanings(D, r, md, ii)
    BY <1>1, <2>1, <2>4, <2>6, <2>8, SubscribeMeanings
  <2> QED
    BY <2>6, <2>7, <2>8, <2>9
<1> QED
  BY <1>6, <1>7, <1>8, <1>9

\* Only the closure on n, and its slot of the context that it shares, change.
LEMMA SlotFilled ==
    ASSUME NEW D, NEW s, NEW r, NEW md, NEW ii, Shape(D, s, md), Triggered(D, s),
           Evolves(D, s, r, md), Contexts(D, s, md, ii),
           NEW n \in DOMAIN D, Shares(s, n), NEW k \in DOMAIN D, k = s[n].to,
           NEW slot \in DOMAIN D[k].from, slot = s[n].slot, k <= md \/ slot < ii,
           \A m \in DOMAIN D : m # n => KeepsShare(s, r, m),
           \A x \in DOMAIN D : x # k => r[x].ctx = s[x].ctx /\ r[x].results = s[x].results,
           r[k].results = [j \in DOMAIN D[k].from |-> r[k].results[j]],
           \A j \in DOMAIN D[k].from : j # slot =>
              (j \in r[k].ctx <=> j \in s[k].ctx) /\ r[k].results[j] = s[k].results[j],
           Slot(D, r, k, slot)
    PROVE  \A x \in DOMAIN D : s[x].ctx # {} => Context(D, r, md, ii, x)
<1>1. ASSUME NEW x \in DOMAIN D, Context(D, s, md, ii, x), NEW j \in DOMAIN D[x].from,
             j \in s[x].ctx, s[D[x].from[j]].alias = n
      PROVE  x = k /\ j = slot
  <2>1. Slot(D, s, x, j)
    BY <1>1 DEF Context
  <2> QED
    BY <1>1, <2>1 DEF Slot
<1>2. Context(D, r, md, ii, k)
  <2>1. s[k].ctx # {}
    BY DEF Contexts, Sharers
  <2>2. Context(D, s, md, ii, k)
    BY <2>1 DEF Contexts
  <2>3. SlotsStay(D, s, r, k, slot, n)
    BY <1>1, <2>2 DEF SlotsStay
  <2> QED
    BY <2>2, <2>3, ContextChanged
<1>3. ASSUME NEW x \in DOMAIN D, x # k, s[x].ctx # {} PROVE Context(D, r, md, ii, x)
  <2>1. Context(D, s, md, ii, x)
    BY <1>3 DEF Contexts
  <2>2. s[x].results = [j \in DOMAIN D[x].from |-> s[x].results[j]] /\ x <= md + 1
    BY <2>1 DEF Context
  <2>3. SlotsStay(D, s, r, x, 0, n)
    <3>1. \A j \in DOMAIN D[x].from : j \in s[x].ctx => s[D[x].from[j]].alias # n
      BY <1>1, <1>3, <2>1
    <3> QED
      BY <1>3, <2>2, <3>1 DEF SlotsStay
  <2>4. \A j \in DOMAIN D[x].from : j # 0
    BY <2>2, Inputs
  <2> QED
    BY <2>1, <2>3, <2>4, ContextChanged
<1> QED
  BY <1>2, <1>3

\* The closure of CollectAll runs.
LEMMA ClosureRuns ==
    ASSUME NEW D, NEW s, NEW r, NEW md, NEW ii, Ownership(D, s, md, ii), Meanings(D, s, md, ii),
           NEW n \in DOMAIN D, s[n].handler = "run", s[n].slot # 0,
           NEW k, k = s[n].to, NEW slot, slot = s[n].slot,
           Agree(s, r, {"handler", "results"}), r[n].handler = "ran",
           \A m \in DOMAIN D : m # n => r[m].handler = s[m].handler,
           \A m \in DOMAIN D : m # k => r[m].results = s[m].results,
           r[k].results = [s[k].results EXCEPT ![slot] = s[n].result]
    PROVE  Meanings(D, r, md, ii)
<1>1. Shape(D, s, md) /\ Derived(D, s, md) /\ Triggered(D, s) /\ Contexts(D, s, md, ii)
      /\ DOMAIN s = DOMAIN D
  BY ShapeOfOwnership DEF Meanings, Derived, Shape
<1>2. Shares(s, n)
  BY DEF Shares
<1>3. /\ k \in DOMAIN D /\ slot \in DOMAIN D[k].from /\ s[D[k].from[slot]].alias = n
      /\ k <= md \/ (k = md + 1 /\ slot < ii)
  BY <1>2, SharerLink
<1>4. slot \in s[k].ctx /\ Context(D, s, md, ii, k)
  BY <1>1, <1>2, <1>3 DEF Contexts, Sharers
<1>5. \A m \in DOMAIN D : /\ r[m].alias = s[m].alias /\ r[m].result = s[m].result
                          /\ r[m].how = s[m].how /\ r[m].to = s[m].to /\ r[m].slot = s[m].slot
                          /\ r[m].ctx = s[m].ctx
  BY <1>1, AgreeFacts
<1>6. Continues(D, s, r, md)
  <2>1. Agree(s, r, ClosureFields)
    BY DEF Agree, ClosureFields, PhaseFields
  <2>2. ASSUME NEW m \in DOMAIN D PROVE MovesOn(s, r, m)
    BY <1>5 DEF MovesOn, Final
  <2> QED
    BY <1>1, <2>1, <2>2, PhaseContinues
<1>7. Evolves(D, s, r, md) /\ Derived(D, r, md)
  BY <1>1, <1>6, DerivedKept DEF Continues
<1>8. \A m \in DOMAIN D : (Shares(r, m) <=> Shares(s, m)) /\ (m # n => KeepsShare(s, r, m))
  BY <1>5 DEF Shares, KeepsShare
<1>9. Sharers(D, r)
  <2>1. \A m \in DOMAIN D : Shares(s, m) => s[m].to \in DOMAIN D
    BY SharerLink
  <2> QED
    BY <1>1, <1>5, <1>8, <2>1 DEF Contexts, Sharers
<1>10. \A x \in DOMAIN D : r[x].ctx # {} => Context(D, r, md, ii, x)
  <2>1. s[k].results = [j \in DOMAIN D[k].from |-> s[k].results[j]]
    BY <1>4 DEF Context
  <2>2. /\ r[k].results = [j \in DOMAIN D[k].from |-> r[k].results[j]]
        /\ r[k].results[slot] = s[n].result
        /\ \A j \in DOMAIN D[k].from : j # slot => r[k].results[j] = s[k].results[j]
    BY <1>3, <2>1
  <2>3. D[k].from[slot] \in DOMAIN D
    <3>1. k <= md + 1
      BY <1>4 DEF Context
    <3> QED
      BY <1>1, <1>3, <3>1, Inputs
  <2>4. Slot(D, r, k, slot)
    <3>1. r[D[k].from[slot]].alias = n /\ slot \in r[k].ctx
      BY <1>3, <1>4, <1>5, <2>3
    <3>2. Shares(r, n) /\ r[n].to = k /\ r[n].slot = slot /\ r[k].results[slot] = r[n].result
      BY <1>2, <1>5, <1>8, <2>2
    <3> QED
      BY <3>1, <3>2 DEF Slot
  <2>5. \A x \in DOMAIN D : s[x].ctx # {} => Context(D, r, md, ii, x)
    BY <1>1, <1>2, <1>3, <1>5, <1>7, <1>8, <2>2, <2>4, SlotFilled
  <2> QED
    BY <1>5, <2>5
<1> QED
  BY <1>7, <1>9, <1>10 DEF Meanings, Contexts

LEMMA RunMeanings ==
    ASSUME OwnershipInv, MeaningInv, NEW n \in Nodes, Run(n) PROVE MeaningInv'
<1> DEFINE D == program.nodes
<1>1. /\ n \in DOMAIN D /\ f[n].handler = "run" /\ UNCHANGED <<program, made, i, checked>>
      /\ f[n].caller \in {"worker", "outside"} /\ f[n].on \in {"worker", "outside"}
      /\ f[n].guards \subseteq {"caller", "closure"} /\ Ownership(D, f, made, i)
      /\ DOMAIN f = DOMAIN D /\ \A m \in DOMAIN D : DOMAIN f[m] = Fields
  BY OwnershipFacts DEF Run, Types
<1>2. Meanings(D, f, made, i) /\ Shape(D, f, made) /\ SharersKnown(D, f)
  BY MeaningFacts
<1>3. PICK q : q = [f EXCEPT ![n].handler = "ran"]
  OBVIOUS
<1>4. f' = Continue(q, n, f[n].on)
  BY <1>3 DEF Run
<1>5. /\ Agree(f, q, {"handler"}) /\ \A m \in DOMAIN D : m # n => q[m] = f[m]
      /\ q[n].handler = "ran" /\ q[n].how = f[n].how /\ q[n].on = f[n].on
      /\ q[n].guards = f[n].guards /\ q[n].caller = f[n].caller /\ q[n].result = f[n].result
      /\ q[n].to = f[n].to /\ q[n].slot = f[n].slot /\ q[n].forwards = f[n].forwards
  BY <1>1, <1>3 DEF Agree, Fields, Blank
<1>6. ~WasDropped(f, n) /\ ~WasDropped(q, n)
  BY <1>1, <1>5 DEF Ownership, Hows, WasDropped
<1>7. CASE f[n].slot # 0
  <2>1. PICK k : k = f[n].to
    OBVIOUS
  <2>2. PICK slot : slot = f[n].slot
    OBVIOUS
  <2>3. f' = [q EXCEPT ![k].results[slot] = f[n].result]
    BY <1>4, <1>5, <1>7, <2>1, <2>2, Zenon DEF Continue
  <2>4. k \in DOMAIN D
    <3>1. Shares(f, n)
      BY <1>1, <1>7 DEF Shares
    <3> QED
      BY <1>1, <2>1, <3>1, SharerLink
  <2>5. DOMAIN q = DOMAIN D /\ \A m \in DOMAIN D : DOMAIN q[m] = Fields
    BY <1>1, <1>5 DEF Agree
  <2>6. /\ Agree(q, f', {"results"})
        /\ \A m \in DOMAIN D : f'[m].handler = q[m].handler
        /\ \A m \in DOMAIN D : m # k => f'[m].results = q[m].results
        /\ f'[k].results = [q[k].results EXCEPT ![slot] = f[n].result]
    BY <2>3, <2>4, <2>5 DEF Agree, Fields, Blank
  <2>7. /\ Agree(f, f', {"handler", "results"}) /\ f'[n].handler = "ran"
        /\ \A m \in DOMAIN D : m # n => f'[m].handler = f[m].handler
        /\ \A m \in DOMAIN D : m # k => f'[m].results = f[m].results
        /\ f'[k].results = [f[k].results EXCEPT ![slot] = f[n].result]
    <3>1. \A m \in DOMAIN D : q[m].results = f[m].results
      BY <1>1, <1>5, AgreeFacts
    <3>2. Agree(f, f', {"handler", "results"})
      BY <1>1, <1>5, <2>6 DEF Agree
    <3> QED
      BY <1>1, <1>5, <2>4, <2>6, <3>1, <3>2
  <2>8. PICK r : r = f'
    OBVIOUS
  <2>9. Meanings(D, r, made, i)
    BY <1>1, <1>2, <1>7, <2>1, <2>2, <2>7, <2>8, ClosureRuns
  <2> QED
    BY <1>1, <2>8, <2>9, MeaningsStay
<1>8. CASE f[n].slot = 0
  <2>1. PICK k : k = f[n].to
    OBVIOUS
  <2>2. PICK th : th = f[n].on
    OBVIOUS
  <2>3. Ownership(D, q, made, i)
    <3>1. PhaseChanges(D, f, n, q)
      <4>1. Agree(f, q, {"handler", "how", "caller", "on", "guards", "results"})
        BY <1>5 DEF Agree
      <4> QED
        BY <1>1, <1>5, <1>6, <4>1 DEF PhaseChanges, Handlers, Holding, WasDropped
    <3> QED
      BY <1>1, <3>1, PhaseKeepsOwnership
  <2>4. Meanings(D, q, made, i)
    <3>1. Agree(f, q, PhaseFields)
      BY <1>5 DEF Agree, PhaseFields
    <3>2. ASSUME NEW m \in DOMAIN D PROVE MovesOn(f, q, m) /\ SameShare(f, q, m)
      <4>1. CASE m = n
        BY <1>1, <1>5, <1>8, <4>1 DEF MovesOn, Final, SameShare, KeepsShare, Shares
      <4>2. CASE m # n
        BY <1>5, <4>2 DEF MovesOn, SameShare, KeepsShare, Shares
      <4> QED
        BY <4>1, <4>2
    <3> QED
      BY <1>2, <3>1, <3>2, PhaseMeanings
  <2>5. Finishes(D, f, n, q)
    <3>1. Agree(f, q, {"handler", "guards"})
      BY <1>5 DEF Agree
    <3> QED
      BY <1>1, <1>5, <3>1 DEF Finishes
  <2>6. PICK r : r = f'
    OBVIOUS
  <2>7. /\ f[n].forwards => Meanings(D, SetResult(q, k, q[n].result, th), made, i)
        /\ ~f[n].forwards /\ (D[k].inner = 0 \/ Fails(D[k], q[n].result)) =>
             Meanings(D, SetResult(q, k, Outcome(D[k], k, q[n].result), th), made, i)
        /\ ~f[n].forwards /\ ~(D[k].inner = 0 \/ Fails(D[k], q[n].result)) =>
             Meanings(D, SetContinuation(q, q[D[k].inner].alias, k, 0, TRUE, th), made, i)
    BY <1>1, <1>6, <1>8, <2>1, <2>3, <2>4, <2>5, FinishMeanings
  <2>8. r = IF f[n].forwards THEN SetResult(q, k, q[n].result, th)
            ELSE IF D[k].inner = 0 \/ Fails(D[k], q[n].result)
              THEN SetResult(q, k, Outcome(D[k], k, q[n].result), th)
            ELSE SetContinuation(q, q[D[k].inner].alias, k, 0, TRUE, th)
    <3>1. Desc(k) = D[k] /\ q[n].to = k /\ q[n].slot = 0 /\ q[n].forwards = f[n].forwards
      BY <1>5, <1>8, <2>1 DEF Desc
    <3> QED
      BY <1>4, <2>2, <2>6, <3>1, Zenon DEF Continue, MakeTryCall, Outcome, FailsFirst, Fails
  <2>9. Meanings(D, r, made, i)
    BY <2>7, <2>8, Zenon
  <2> QED
    BY <1>1, <2>6, <2>9, MeaningsStay
<1> QED
  BY <1>7, <1>8

\* The last owner of CollectAll's context fulfils the promise with its slots.
LEMMA ReleaseMeanings ==
    ASSUME NEW D, NEW s, NEW md, NEW ii, Shape(D, s, md), SharersKnown(D, s),
           Meanings(D, s, md, ii), NEW k \in 1 .. md, D[k].kind = "collect",
           s[k].alias = k, s[k].result = Nothing, Context(D, s, md, ii, k), s[k].ctx = {},
           NEW th, NEW r, r = SetResult(s, k, Value(k, s[k].results), th)
    PROVE  Meanings(D, r, md, ii)
<1>1. PICK t : t = Value(k, s[k].results)
  OBVIOUS
<1>2. t # Nothing
  BY <1>1 DEF Value, Nothing
<1>3. k <= md
  BY DEF Shape
<1>4. ASSUME NEW j \in DOMAIN D[k].from
      PROVE  /\ Settled(s, s[D[k].from[j]].alias)
             /\ s[k].results[j] = Passed(s, s[D[k].from[j]].alias)
  <2>1. Slot(D, s, k, j)
    BY <1>3 DEF Context
  <2> QED
    BY <2>1 DEF Slot
<1>5. s[k].results = [j \in DOMAIN D[k].from |-> Passed(s, s[D[k].from[j]].alias)]
  <2>1. s[k].results = [j \in DOMAIN D[k].from |-> s[k].results[j]]
    BY DEF Context
  <2> QED
    BY <1>4, <2>1
<1>6. Gives(D, s, k, t)
  BY <1>1, <1>4, <1>5 DEF Gives, CollectGives
<1> QED
  BY <1>1, <1>2, <1>6, FulfilMeanings

\* The closure of CollectAll is destroyed, after it ran or instead.
Leaves(D, s, r, n, k, slot) ==
    /\ s[n].handler \in {"ran", "dropped"} /\ s[n].slot # 0 /\ k = s[n].to /\ slot = s[n].slot
    /\ Agree(s, r, {"handler", "guards", "ctx"}) /\ r[n].handler = "gone"
    /\ \A m \in DOMAIN D : m # n => r[m].handler = s[m].handler
    /\ \A m \in DOMAIN D : m # k => r[m].ctx = s[m].ctx
    /\ r[k].ctx = s[k].ctx \ {slot}

LEMMA ClosureGoes ==
    ASSUME NEW D, NEW s, NEW r, NEW md, NEW ii, Ownership(D, s, md, ii), Meanings(D, s, md, ii),
           NEW n \in DOMAIN D, NEW k, NEW slot, Leaves(D, s, r, n, k, slot)
    PROVE  /\ Shape(D, r, md) /\ SharersKnown(D, r) /\ Meanings(D, r, md, ii)
           /\ Context(D, r, md, ii, k)
<1> USE DEF Leaves
<1>1. Shape(D, s, md) /\ Derived(D, s, md) /\ Triggered(D, s) /\ Contexts(D, s, md, ii)
      /\ DOMAIN s = DOMAIN D
  BY ShapeOfOwnership DEF Meanings, Derived, Shape
<1>2. Shares(s, n)
  BY DEF Shares
<1>3. /\ k \in DOMAIN D /\ slot \in DOMAIN D[k].from /\ s[D[k].from[slot]].alias = n
      /\ k <= md \/ (k = md + 1 /\ slot < ii)
  BY <1>2, SharerLink
<1>4. slot \in s[k].ctx /\ Context(D, s, md, ii, k)
  BY <1>1, <1>2, <1>3 DEF Contexts, Sharers
<1>5. \A m \in DOMAIN D : /\ r[m].alias = s[m].alias /\ r[m].result = s[m].result
                          /\ r[m].how = s[m].how /\ r[m].to = s[m].to /\ r[m].slot = s[m].slot
                          /\ r[m].results = s[m].results
  BY <1>1, AgreeFacts
<1>6. Continues(D, s, r, md)
  <2>1. Agree(s, r, ClosureFields)
    BY DEF Agree, ClosureFields, PhaseFields
  <2>2. ASSUME NEW m \in DOMAIN D PROVE MovesOn(s, r, m)
    BY <1>5 DEF MovesOn, Final
  <2> QED
    BY <1>1, <2>1, <2>2, PhaseContinues
<1>7. Evolves(D, s, r, md) /\ Derived(D, r, md)
  BY <1>1, <1>6, DerivedKept DEF Continues
<1>8. \A m \in DOMAIN D : /\ Shares(r, m) => Shares(s, m) /\ m # n
                          /\ m # n => KeepsShare(s, r, m)
  BY <1>5 DEF Shares, KeepsShare
<1>9. Shape(D, r, md)
  <2>1. DOMAIN r = DOMAIN D /\ \A m \in DOMAIN D : DOMAIN r[m] = Fields
    BY <1>1 DEF Agree
  <2> QED
    BY <1>1, <1>5, <2>1 DEF Shape
<1>10. SharersKnown(D, r)
  BY <1>5, <1>8, SharerLink DEF SharersKnown
<1>11. Sharers(D, r)
  <2> SUFFICES ASSUME NEW m \in DOMAIN D, Shares(r, m) PROVE r[m].slot \in r[r[m].to].ctx
    BY DEF Sharers
  <2>1. PICK x : x = s[m].to
    OBVIOUS
  <2>2. Shares(s, m) /\ m # n /\ r[m].to = x /\ r[m].slot = s[m].slot
    BY <1>5, <1>8, <2>1
  <2>3. x \in DOMAIN D /\ s[D[x].from[s[m].slot]].alias = m
    BY <2>1, <2>2, SharerLink
  <2>4. s[m].slot \in s[x].ctx
    BY <1>1, <2>1, <2>2 DEF Contexts, Sharers
  <2>5. x = k => s[m].slot # slot
    BY <1>3, <2>2, <2>3
  <2> QED
    BY <2>2, <2>3, <2>4, <2>5
<1>12. Slot(D, r, k, slot)
  <2>1. D[k].from[slot] \in DOMAIN D
    <3>1. k <= md + 1
      BY <1>4 DEF Context
    <3> QED
      BY <1>1, <1>3, <3>1, Inputs
  <2>2. r[D[k].from[slot]].alias = n /\ slot \notin r[k].ctx
    BY <1>3, <1>5, <2>1
  <2>3. Settled(r, n)
    <3>1. s[n].result # Nothing
      BY <1>1 DEF Triggered
    <3> QED
      BY <1>5, <3>1 DEF Settled, Final
  <2>4. s[k].results[slot] = IF s[n].handler = "ran" THEN s[n].result ELSE Nothing
    <3>1. Slot(D, s, k, slot)
      BY <1>3, <1>4 DEF Context
    <3> QED
      BY <1>3, <1>4, <3>1 DEF Slot
  <2>5. s[n].handler = "dropped" <=> s[n].how = "dropped"
    BY DEF Ownership, Hows
  <2>6. r[k].results[slot] = Passed(r, n)
    BY <1>3, <1>5, <2>4, <2>5 DEF Passed, WasDropped
  <2> QED
    BY <2>2, <2>3, <2>6 DEF Slot
<1>13. \A x \in DOMAIN D : s[x].ctx # {} => Context(D, r, md, ii, x)
  <2>1. r[k].results = [j \in DOMAIN D[k].from |-> r[k].results[j]]
    BY <1>3, <1>4, <1>5 DEF Context
  <2>2. \A j \in DOMAIN D[k].from : j # slot =>
          (j \in r[k].ctx <=> j \in s[k].ctx) /\ r[k].results[j] = s[k].results[j]
    BY <1>3, <1>5
  <2> QED
    BY <1>1, <1>2, <1>3, <1>5, <1>7, <1>8, <1>12, <2>1, <2>2, SlotFilled
<1>14. \A x \in DOMAIN D : r[x].ctx # {} => s[x].ctx # {}
  OBVIOUS
<1> QED
  BY <1>3, <1>4, <1>7, <1>9, <1>10, <1>11, <1>13, <1>14 DEF Meanings, Contexts

\* CollectAll returns: Main no longer owns the context.
LEMMA ReturnMeanings ==
    ASSUME NEW D, NEW s, NEW r, NEW md, NEW ii, Ownership(D, s, md, ii), Meanings(D, s, md, ii),
           NEW k \in DOMAIN D, k = md + 1, D[k].kind = "collect", s[k].alias = k,
           s[k].result = Nothing, Context(D, s, md, ii, k), \A j \in DOMAIN D[k].from : j < ii,
           \A x \in DOMAIN D : x # k /\ s[x].ctx # {} => x <= md,
           Agree(s, r, {"ctx"}), \A m \in DOMAIN D : m # k => r[m].ctx = s[m].ctx,
           r[k].ctx = s[k].ctx \ {0}
    PROVE  /\ Shape(D, r, k) /\ SharersKnown(D, r) /\ Meanings(D, r, k, 0)
           /\ Context(D, r, k, 0, k)
<1>1. /\ Shape(D, s, md) /\ SharersKnown(D, s) /\ Derived(D, s, md) /\ Triggered(D, s)
      /\ Contexts(D, s, md, ii) /\ DOMAIN s = DOMAIN D
  BY ShapeOfOwnership, SharersOfOwnership DEF Meanings, Derived, Shape
<1>2. /\ md \in Nat /\ k \in Nat /\ k \in 1 .. Len(D) /\ DOMAIN D = 1 .. Len(D) /\ Len(D) \in Nat
      /\ k <= k + 1 /\ \A x \in 1 .. k : x \in 1 .. md \/ x = k
  BY <1>1, ProgramShape DEF Shape
<1>3. SameButContext(D, s, r)
  BY <1>1, AgreeFacts DEF SameButContext
<1>4. \A m \in DOMAIN D : r[m].results = s[m].results
  BY <1>1, AgreeFacts
<1>5. /\ Derived(D, r, md) /\ Evolves(D, s, r, md) /\ SameShares(D, s, r)
  BY <1>1, <1>3, ButContextDerived, ButContextContinues
<1>6. Shape(D, r, k)
  <2>1. DOMAIN r = DOMAIN D /\ \A m \in DOMAIN D : DOMAIN r[m] = Fields
    BY <1>1 DEF Agree
  <2>2. k \in 0 .. Len(D)
    BY <1>2
  <2> QED
    BY <1>1, <1>3, <2>1, <2>2 DEF Shape, SameButContext
<1>7. Derived(D, r, k)
  <2>1. Edge(D, r, k)
    BY <1>3 DEF Edge, SameButContext
  <2>2. Edges(D, r, k)
    BY <1>2, <1>5, <2>1 DEF Derived, Edges
  <2>3. Forwarders(D, r, k)
    BY <1>2, <1>5 DEF Derived, Forwarders
  <2> QED
    BY <1>5, <2>2, <2>3 DEF Derived
<1>8. SharersKnown(D, r)
  BY <1>1, <1>3, <1>5 DEF SharersKnown, SameShares, SameShare, SameButContext
<1>9. Sharers(D, r)
  <2> SUFFICES ASSUME NEW m \in DOMAIN D, Shares(r, m) PROVE r[m].slot \in r[r[m].to].ctx
    BY DEF Sharers
  <2>1. Shares(s, m) /\ r[m].to = s[m].to /\ r[m].slot = s[m].slot /\ s[m].slot # 0
    BY <1>3 DEF Shares, SameButContext
  <2>2. s[m].to \in DOMAIN D /\ s[m].slot \in s[s[m].to].ctx
    BY <1>1, <2>1 DEF Contexts, Sharers, SharersKnown
  <2> QED
    BY <2>1, <2>2
<1>10. \A j \in DOMAIN D[k].from : j # 0
  BY <1>1, <1>2, Inputs
<1>11. Context(D, r, md, ii, k)
  <2>1. s[k].results = [j \in DOMAIN D[k].from |-> s[k].results[j]] /\ k <= md + 1
    BY DEF Context
  <2>2. SlotsStay(D, s, r, k, 0, 0)
    <3>1. \A j \in DOMAIN D[k].from : s[D[k].from[j]].alias # 0
      BY <1>1, <2>1, Inputs
    <3> QED
      BY <1>4, <1>5, <2>1, <3>1 DEF SlotsStay, SameShares, SameShare
  <2> QED
    BY <1>1, <1>5, <1>10, <2>2, ContextChanged
<1>12. Context(D, r, k, 0, k)
  BY <1>2, <1>11 DEF Context
<1>13. ASSUME NEW x \in DOMAIN D, r[x].ctx # {} PROVE Context(D, r, k, 0, x)
  <2>1. CASE x = k
    BY <1>12, <2>1
  <2>2. CASE x # k
    <3>1. s[x].ctx # {} /\ r[x].ctx = s[x].ctx /\ x \in Nat
      BY <1>2, <1>13, <2>2
    <3>2. x <= md /\ x <= k /\ x <= k + 1
      BY <1>2, <2>2, <3>1
    <3>3. Context(D, s, md, ii, x)
      BY <1>1, <3>1 DEF Contexts
    <3>4. Context(D, r, md, ii, x)
      BY <1>1, <1>3, <1>4, <3>1, <3>3, ButContextKept
    <3> QED
      BY <3>2, <3>4 DEF Context
  <2> QED
    BY <2>1, <2>2
<1> QED
  BY <1>6, <1>7, <1>8, <1>9, <1>12, <1>13 DEF Meanings, Contexts

LEMMA CollectReturnMeanings ==
    ASSUME OwnershipInv, MeaningInv, NEW k \in Nodes, CollectReturn(k) PROVE MeaningInv'
<1> DEFINE D == program.nodes
<1>1. /\ Making(k, "collect") /\ i = Len(Desc(k).from) + 1 /\ i' = 0 /\ made' = k
      /\ program' = program /\ f' = Release(f, k, 0, "outside")
  BY DEF CollectReturn
<1>2. i > 0 /\ k \in DOMAIN D /\ \A j \in DOMAIN D[k].from : j < i
  <2>1. k \in DOMAIN D /\ Desc(k) = D[k]
    BY OwnershipFacts
  <2>2. Len(D[k].from) \in Nat /\ DOMAIN D[k].from = 1 .. Len(D[k].from)
    BY <2>1, OwnershipFacts DEF IsProgram
  <2> QED
    BY <1>1, <2>1, <2>2
<1>3. /\ k = made + 1 /\ D[k].kind = "collect"
      /\ f[k].alias = k /\ f[k].result = Nothing /\ Context(D, f, made, i, k)
      /\ \A x \in DOMAIN D : x # k /\ f[x].ctx # {} => x <= made
  BY <1>1, <1>2, CollectingFacts
<1>4. PICK q : q = [f EXCEPT ![k].ctx = f[k].ctx \ {0}]
  OBVIOUS
<1>5. /\ Agree(f, q, {"ctx"}) /\ \A m \in DOMAIN D : m # k => q[m].ctx = f[m].ctx
      /\ q[k].ctx = f[k].ctx \ {0} /\ q[k].alias = k /\ q[k].result = Nothing
  <2>1. DOMAIN f = DOMAIN D /\ \A m \in DOMAIN D : DOMAIN f[m] = Fields
    BY OwnershipFacts, Zenon
  <2> QED
    BY <1>2, <1>3, <1>4, <2>1 DEF Agree, Fields, Blank
<1>6. /\ Shape(D, q, k) /\ SharersKnown(D, q) /\ Meanings(D, q, k, 0)
      /\ Context(D, q, k, 0, k)
  BY <1>2, <1>3, <1>5, MeaningFacts, ReturnMeanings
<1>7. PICK r : r = f'
  OBVIOUS
<1>8. Meanings(D, r, k, 0)
  <2>1. CASE f[k].ctx = {0}
    <3>1. q = [f EXCEPT ![k].ctx = {}] /\ q[k].ctx = {} /\ q[k].results = f[k].results
      <4>1. DOMAIN f = DOMAIN D
        BY OwnershipFacts
      <4>2. f[k].ctx \ {0} = {}
        BY <2>1
      <4>3. q[k].results = f[k].results
        BY <1>2, <1>5, <4>1, AgreeFacts
      <4> QED
        BY <1>4, <1>5, <4>2, <4>3, Zenon
    <3>2. PICK th : th = "outside"
      OBVIOUS
    <3>3. r = SetResult(q, k, Value(k, q[k].results), th)
      BY <1>1, <1>7, <2>1, <3>1, <3>2 DEF Release
    <3>4. k \in 1 .. k
      BY <1>2, OwnershipFacts
    <3>5. PICK md, ii : md = k /\ ii = 0
      OBVIOUS
    <3>6. /\ Shape(D, q, md) /\ SharersKnown(D, q) /\ Meanings(D, q, md, ii)
          /\ Context(D, q, md, ii, k) /\ k \in 1 .. md
      BY <1>6, <3>4, <3>5
    <3>7. D[k].kind = "collect" /\ q[k].alias = k /\ q[k].result = Nothing
      BY <1>3, <1>5
    <3>8. Meanings(D, r, md, ii)
      BY <3>1, <3>3, <3>6, <3>7, ReleaseMeanings
    <3> QED
      BY <3>5, <3>8
  <2>2. CASE f[k].ctx # {0}
    <3>1. r = q
      BY <1>1, <1>4, <1>7, <2>2, Zenon DEF Release
    <3> QED
      BY <1>6, <3>1
  <2> QED
    BY <2>1, <2>2
<1> QED
  BY <1>1, <1>7, <1>8 DEF MeaningInv

LEMMA GuardDoneMeanings ==
    ASSUME OwnershipInv, MeaningInv, NEW n \in Nodes, NEW g \in {"caller", "closure"},
           GuardDone(n, g)
    PROVE  MeaningInv'
<1> DEFINE D == program.nodes
<1>1. /\ n \in DOMAIN D /\ UNCHANGED <<program, made, i, checked>>
      /\ f[n].caller \in {"worker", "outside"} /\ f[n].on \in {"worker", "outside"}
      /\ f[n].guards \subseteq {"caller", "closure"} /\ f[n].handler \in Handlers
      /\ Ownership(D, f, made, i) /\ DOMAIN f = DOMAIN D
      /\ \A m \in DOMAIN D : DOMAIN f[m] = Fields
  BY OwnershipFacts DEF GuardDone, Types
<1>2. Meanings(D, f, made, i) /\ Shape(D, f, made) /\ SharersKnown(D, f)
  BY MeaningFacts
<1>3. PICK s : s = [f EXCEPT ![n].guards = f[n].guards \ {g}]
  OBVIOUS
<1>4. PICK th : th = IF g = "closure" /\ f[n].how # "dropped" THEN "worker" ELSE f[n].caller
  OBVIOUS
<1>5. f' = IF s[n].guards = {} THEN DestroyClosure(s, n, th) ELSE s
  BY <1>3, <1>4 DEF GuardDone
<1>6. /\ Agree(f, s, {"guards"}) /\ \A m \in DOMAIN D : m # n => s[m] = f[m]
      /\ s[n].guards = f[n].guards \ {g} /\ s[n].handler = f[n].handler /\ s[n].how = f[n].how
      /\ s[n].caller = f[n].caller /\ s[n].on = f[n].on
      /\ s[n].to = f[n].to /\ s[n].slot = f[n].slot
  BY <1>1, <1>3 DEF Agree, Fields, Blank
<1>7. CASE s[n].guards # {}
  <2>1. f' = s
    BY <1>5, <1>7
  <2>2. Agree(f, s, PhaseFields)
    BY <1>6 DEF Agree, PhaseFields
  <2>3. MovesOn(f, s, n) /\ SameShare(f, s, n)
    BY <1>6 DEF MovesOn, SameShare, KeepsShare, Shares
  <2>4. \A m \in Nodes : m # n => s[m] = f[m]
    BY <1>6, OwnershipFacts
  <2> QED
    BY <1>1, <2>1, <2>2, <2>3, <2>4, PhaseStepMeanings
<1>8. CASE s[n].guards = {}
  <2>1. f' = DestroyClosure(s, n, th)
    BY <1>5, <1>8
  <2>2. f[n].handler \in {"ran", "dropped"}
    BY <1>6, <1>8 DEF GuardDone
  <2>3. PICK q : q = [s EXCEPT ![n].handler = "gone"]
    OBVIOUS
  <2>4. /\ Agree(f, q, {"handler", "guards"})
        /\ \A m \in DOMAIN D : m # n => q[m] = f[m]
        /\ q[n].guards = {} /\ q[n].handler = "gone" /\ q[n].how = f[n].how
        /\ q[n].caller = f[n].caller /\ q[n].on = f[n].on /\ q[n].slot = f[n].slot
        /\ DOMAIN q = DOMAIN D
        /\ \A m \in DOMAIN D : DOMAIN q[m] = Fields
    <3>1. q = [f EXCEPT ![n].guards = {}, ![n].handler = "gone"]
      BY <1>1, <1>3, <1>6, <1>8, <2>3
    <3> QED
      BY <1>1, <3>1 DEF Agree, Fields, Blank
  <2>5. PICK k : k = f[n].to
    OBVIOUS
  <2>6. PICK slot : slot = f[n].slot
    OBVIOUS
  <2>7. PICK r : r = f'
    OBVIOUS
  <2>8. r = IF slot # 0 THEN Release(q, k, slot, th)
            ELSE IF f[n].how = "dropped" THEN SetResult(q, k, Broken(k), th)
            ELSE q
    BY <1>6, <2>1, <2>3, <2>5, <2>6, <2>7, Zenon DEF DestroyClosure
  <2>9. CASE slot = 0
    <3>1. Ownership(D, q, made, i)
      <4>1. Agree(f, q, {"handler", "how", "caller", "on", "guards", "results"})
        BY <2>4 DEF Agree
      <4>2. PhaseChanges(D, f, n, q)
        BY <1>1, <2>2, <2>4, <4>1 DEF PhaseChanges, Handlers, Holding
      <4> QED
        BY <1>1, <4>2, PhaseKeepsOwnership
    <3>2. Meanings(D, q, made, i)
      <4>1. Agree(f, q, PhaseFields)
        BY <2>4 DEF Agree, PhaseFields
      <4>2. q[n].slot = 0
        BY <2>4, <2>6, <2>9
      <4>3. ASSUME NEW m \in DOMAIN D PROVE MovesOn(f, q, m) /\ SameShare(f, q, m)
        <5>1. CASE m = n
          BY <2>2, <2>4, <2>6, <2>9, <4>2, <5>1 DEF MovesOn, Final, SameShare, KeepsShare, Shares
        <5>2. CASE m # n
          BY <2>4, <5>2 DEF MovesOn, SameShare, KeepsShare, Shares
        <5> QED
          BY <5>1, <5>2
      <4> QED
        BY <1>2, <4>1, <4>3, PhaseMeanings
    <3>3. CASE f[n].how = "dropped"
      <4>1. Finishes(D, f, n, q)
        <5>1. f[n].handler = "dropped"
          BY <1>1, <2>2, <3>3 DEF Ownership, Hows
        <5> QED
          BY <1>1, <2>4, <5>1 DEF Finishes
      <4>2. WasDropped(q, n)
        BY <2>4, <3>3 DEF WasDropped
      <4>3. Meanings(D, SetResult(q, k, Broken(k), th), made, i)
        BY <1>1, <2>5, <2>6, <2>9, <3>1, <3>2, <4>1, <4>2, FinishMeanings
      <4> QED
        BY <1>1, <2>7, <2>8, <2>9, <3>3, <4>3, MeaningsStay
    <3>4. CASE f[n].how # "dropped"
      BY <1>1, <2>7, <2>8, <2>9, <3>2, <3>4, MeaningsStay
    <3> QED
      BY <3>3, <3>4
  <2>10. CASE slot # 0
    <3>1. /\ k \in DOMAIN D /\ D[k].kind = "collect" /\ f[k].alias = k
          /\ k <= made \/ (k = made + 1 /\ slot < i)
          /\ slot \in Nat \ {0} /\ slot \in f[k].ctx
      <4>1. Shares(f, n)
        BY <2>2, <2>6, <2>10 DEF Shares
      <4>2. /\ k \in DOMAIN D /\ D[k].kind = "collect" /\ f[k].alias = k
            /\ slot \in DOMAIN D[k].from /\ (k <= made \/ (k = made + 1 /\ slot < i))
        BY <1>1, <2>5, <2>6, <4>1, SharerLink
      <4>3. slot \in f[k].ctx
        <5>1. Sharers(D, f)
          BY MeaningFacts DEF Contexts
        <5> QED
          BY <1>1, <2>5, <2>6, <4>1, <5>1 DEF Sharers
      <4>4. slot \in Nat \ {0}
        <5>1. IsProgram(D)
          BY OwnershipFacts
        <5>2. k \in DOMAIN D /\ slot \in DOMAIN D[k].from
          BY <4>2
        <5> QED
          BY <5>1, <5>2, ProgramShape
      <4> QED
        BY <4>2, <4>3, <4>4
    <3>2. PICK p : p = [q EXCEPT ![k].ctx = q[k].ctx \ {slot}]
      OBVIOUS
    <3>3. q[k].ctx = f[k].ctx /\ q[k].results = f[k].results
      BY <1>1, <2>4, <3>1, AgreeFacts
    <3>4. /\ Agree(q, p, {"ctx"}) /\ p[k].ctx = q[k].ctx \ {slot}
          /\ \A m \in DOMAIN D : p[m].handler = q[m].handler /\ (m # k => p[m].ctx = q[m].ctx)
      BY <2>4, <3>1, <3>2 DEF Agree, Fields, Blank
    <3>5. /\ Agree(f, p, {"handler", "guards", "ctx"}) /\ p[n].handler = "gone"
          /\ \A m \in DOMAIN D : m # n => p[m].handler = f[m].handler
          /\ \A m \in DOMAIN D : m # k => p[m].ctx = f[m].ctx
          /\ p[k].ctx = f[k].ctx \ {slot}
      <4>1. Agree(f, p, {"handler", "guards", "ctx"})
        BY <1>1, <2>4, <3>4 DEF Agree
      <4>2. \A m \in DOMAIN D : q[m].ctx = f[m].ctx
        BY <1>1, <2>4, AgreeFacts
      <4> QED
        BY <1>1, <2>4, <3>3, <3>4, <4>1, <4>2
    <3>6. /\ Shape(D, p, made) /\ SharersKnown(D, p) /\ Meanings(D, p, made, i)
          /\ Context(D, p, made, i, k)
      <4>1. Leaves(D, f, p, n, k, slot)
        BY <2>2, <2>5, <2>6, <2>10, <3>5 DEF Leaves
      <4>2. Ownership(D, f, made, i) /\ Meanings(D, f, made, i) /\ n \in DOMAIN D
        BY <1>1, <1>2
      <4> QED
        BY <4>1, <4>2, ClosureGoes
    <3>7. Meanings(D, r, made, i)
      <4>1. CASE f[k].ctx = {slot}
        <5>1. p = [q EXCEPT ![k].ctx = {}] /\ p[k].ctx = {} /\ p[k].results = q[k].results
          <6>1. q[k].ctx \ {slot} = {}
            BY <3>3, <4>1
          <6>2. p[k].results = q[k].results
            BY <2>4, <3>1, <3>4, AgreeFacts
          <6> QED
            BY <3>2, <3>4, <6>1, <6>2, Zenon
        <5>2. r = SetResult(p, k, Value(k, p[k].results), th)
          BY <2>8, <2>10, <3>3, <4>1, <5>1, Zenon DEF Release
        <5>3. k \in 1 .. made
          <6>1. 0 \notin f[k].ctx
            BY <3>1, <4>1
          <6>2. i > 0 => 0 \in f[made + 1].ctx
            BY <1>1 DEF Ownership, LoopOf
          <6>3. k <= made
            BY <3>1, <6>1, <6>2, OwnershipFacts
          <6> QED
            BY <3>1, <6>3, OwnershipFacts
        <5>4. p[k].alias = k /\ p[k].result = Nothing
          <6>1. f[k].result = Nothing
            BY <1>1, <3>1 DEF Ownership, Promises
          <6> QED
            BY <1>1, <3>1, <3>5, <6>1, AgreeFacts
        <5> QED
          BY <3>1, <3>6, <5>1, <5>2, <5>3, <5>4, ReleaseMeanings
      <4>2. CASE f[k].ctx # {slot}
        <5>1. r = p
          BY <2>8, <2>10, <3>2, <3>3, <4>2, Zenon DEF Release
        <5> QED
          BY <3>6, <5>1
      <4> QED
        BY <4>1, <4>2
    <3> QED
      BY <1>1, <2>7, <3>7, MeaningsStay
  <2> QED
    BY <2>9, <2>10
<1> QED
  BY <1>7, <1>8

LEMMA InitMeanings == ASSUME Init PROVE MeaningInv
<1> DEFINE D == program.nodes
<1>1. \A k \in DOMAIN D : /\ f[k].local = FALSE /\ f[k].handler = "none" /\ f[k].ctx = {}
                          /\ f[k].slot = 0
  BY DEF Init, Nodes, Blank
<1>2. made = 0 /\ i = 0 /\ 1 .. 0 = {}
  BY DEF Init
<1>3. Triggered(D, f) /\ LocalResults(D, f) /\ Forwarders(D, f, made) /\ Edges(D, f, made)
  BY <1>1, <1>2 DEF Triggered, LocalResults, Forwarders, Edges
<1>4. Contexts(D, f, made, i)
  BY <1>1 DEF Contexts, Sharers, Shares
<1> QED
  BY <1>3, <1>4 DEF MeaningInv, Meanings, Derived

LEMMA MeaningStep == ASSUME OwnershipInv, MeaningInv, [Next]_vars PROVE MeaningInv'
<1>1. ASSUME MakeStep PROVE MeaningInv'
  BY <1>1, MakeSourceMeanings, MakeReadyFutureMeanings, ThenSharedMeanings,
     ThenLocalValueMeanings, ThenLocalFutureMeanings, CollectAllMeanings,
     CollectCheckMeanings, CollectSetContinuationMeanings, CollectReturnMeanings
     DEF MakeStep
<1>2. ASSUME NEW k \in Nodes, NEW th \in {"worker", "outside"}, Settle(k, th)
      PROVE  MeaningInv'
  BY <1>2, SettleMeanings
<1>3. ASSUME ContinuationStep PROVE MeaningInv'
  BY <1>3, ScheduleMeanings, RunQueuedMeanings, DropQueuedMeanings, RunMeanings,
     GuardDoneMeanings DEF ContinuationStep
<1>4. ASSUME UNCHANGED vars PROVE MeaningInv'
  <2>1. program' = program /\ made' = made /\ i' = i /\ f' = f
    BY <1>4 DEF vars
  <2> QED
    BY <2>1 DEF MeaningInv
<1> QED
  BY <1>1, <1>2, <1>3, <1>4 DEF Next, Step, Terminated

LEMMA MeaningsAlways == Spec => []MeaningInv
<1>1. Init => OwnershipInv /\ MeaningInv
  BY InitOwnership, InitMeanings
<1>2. OwnershipInv /\ MeaningInv /\ [Next]_vars => (OwnershipInv /\ MeaningInv)'
  BY OwnershipStep, MeaningStep
<1> QED
  BY <1>1, <1>2, PTL DEF Spec

-----------------------------------------------------------------------------
(* Meaning is defined by recursion along from and inner.  Its equation has a *)
(* solution, built up node by node.                                          *)
Means(D, s, M, k) ==
    LET d     == D[k]
        input == d.from[1]
    IN IF d.kind = "source" THEN s[k].result
       ELSE IF d.kind = "ready" THEN IF d.ok THEN Value(k, <<>>) ELSE Exception(k, <<>>)
       ELSE IF d.kind = "collect"
         THEN Value(k, [j \in DOMAIN d.from |->
                 IF WasDropped(s, s[d.from[j]].alias) THEN Nothing ELSE M[d.from[j]]])
       ELSE IF WasDropped(s, s[input].alias) THEN Broken(k)
       ELSE IF Throws(M[input]) /\ ~d.is_try THEN M[input]
       ELSE IF d.throws THEN Exception(k, <<M[input]>>)
       ELSE IF d.inner = 0 THEN Value(k, <<M[input]>>)
       ELSE IF ~s[s[input].alias].local /\ WasDropped(s, s[d.inner].alias) THEN Broken(k)
       ELSE M[d.inner]

Meant(D, s) == CHOOSE M : M = [k \in DOMAIN D |-> Means(D, s, M, k)]

LEMMA MeaningOfState == Meaning = Meant(program.nodes, f)
BY Zenon DEF Meaning, Meant, Means, WasDropped, Dropped, Nodes, Desc

LEMMA SameMeans ==
    ASSUME NEW D, IsProgram(D), NEW s, NEW k \in DOMAIN D, NEW E, NEW F,
           \A x \in 1 .. k - 1 : E[x] = F[x]
    PROVE  Means(D, s, E, k) = Means(D, s, F, k)
<1>1. CASE D[k].kind = "collect"
  <2>1. \A j \in DOMAIN D[k].from : E[D[k].from[j]] = F[D[k].from[j]]
    BY ProgramShape
  <2>2. [j \in DOMAIN D[k].from |->
           IF WasDropped(s, s[D[k].from[j]].alias) THEN Nothing ELSE E[D[k].from[j]]]
        = [j \in DOMAIN D[k].from |->
             IF WasDropped(s, s[D[k].from[j]].alias) THEN Nothing ELSE F[D[k].from[j]]]
    BY <2>1
  <2> QED
    BY <1>1, <2>2, Zenon DEF Means
<1>2. CASE D[k].kind = "then"
  <2>1. E[D[k].from[1]] = F[D[k].from[1]]
    BY <1>2, ProgramShape
  <2>2. D[k].inner # 0 => E[D[k].inner] = F[D[k].inner]
    <3>1. Len(D) \in Nat /\ DOMAIN D = 1 .. Len(D) /\ D[k].inner \in 0 .. k - 1
      BY ProgramShape
    <3>2. D[k].inner # 0 => D[k].inner \in 1 .. k - 1
      BY <3>1
    <3> QED
      BY <3>2
  <2> QED
    BY <1>2, <2>1, <2>2 DEF Means
<1>3. CASE D[k].kind \in {"source", "ready"}
  BY <1>3, Zenon DEF Means
<1> QED
  BY <1>1, <1>2, <1>3 DEF IsProgram

LEMMA MeantOfSome ==
    ASSUME NEW D, IsProgram(D), NEW s, NEW md \in Nat, md <= Len(D)
    PROVE  \E M : M = [k \in 1 .. md |-> Means(D, s, M, k)]
<1> DEFINE Solved(m) == \E M : M = [k \in 1 .. m |-> Means(D, s, M, k)]
           T == {m \in Nat : m <= Len(D) /\ ~Solved(m)}
<1>0. Len(D) \in Nat /\ DOMAIN D = 1 .. Len(D)
  BY ProgramShape
<1>1. SUFFICES ASSUME T # {} PROVE FALSE
  OBVIOUS
<1>2. PICK m \in T : \A y \in T : m <= y
  <2>1. T \subseteq Nat
    OBVIOUS
  <2> QED
    BY <1>1, <2>1, LeastNat
<1>3. m \in Nat /\ m <= Len(D) /\ ~Solved(m)
  BY <1>2
<1>4. m # 0
  <2>1. 1 .. 0 = {}
    OBVIOUS
  <2>2. PICK M : M = [k \in 1 .. 0 |-> Nothing]
    OBVIOUS
  <2>3. M = [k \in 1 .. 0 |-> Means(D, s, M, k)]
    BY <2>1, <2>2
  <2> QED
    BY <1>3, <2>3
<1>5. m - 1 \in Nat /\ m - 1 <= Len(D) /\ ~(m <= m - 1)
  BY <1>0, <1>3, <1>4
<1>6. Solved(m - 1)
  BY <1>2, <1>5
<1>7. PICK E : E = [k \in 1 .. m - 1 |-> Means(D, s, E, k)]
  BY <1>6
<1>8. PICK F : F = [k \in 1 .. m |-> IF k = m THEN Means(D, s, E, m) ELSE E[k]]
  OBVIOUS
<1>9. \A k \in 1 .. m - 1 : E[k] = F[k]
  BY <1>3, <1>8
<1>10. ASSUME NEW k \in 1 .. m PROVE Means(D, s, E, k) = Means(D, s, F, k)
  <2>1. k \in DOMAIN D /\ \A x \in 1 .. k - 1 : x \in 1 .. m - 1
    BY <1>0, <1>3
  <2>2. \A x \in 1 .. k - 1 : E[x] = F[x]
    BY <1>9, <2>1
  <2> QED
    BY <2>1, <2>2, SameMeans
<1>11. ASSUME NEW k \in 1 .. m PROVE F[k] = Means(D, s, E, k)
  <2>1. CASE k = m
    BY <1>8, <2>1
  <2>2. CASE k # m
    <3>1. k \in 1 .. m - 1
      BY <1>3, <2>2
    <3> QED
      BY <1>7, <1>9, <3>1
  <2> QED
    BY <2>1, <2>2
<1>12. F = [k \in 1 .. m |-> Means(D, s, F, k)]
  <2>1. \A k \in 1 .. m : F[k] = Means(D, s, F, k)
    BY <1>10, <1>11
  <2> QED
    BY <1>8, <2>1
<1> QED
  BY <1>3, <1>12

LEMMA MeantFacts ==
    ASSUME NEW D, IsProgram(D), NEW s
    PROVE  \A k \in DOMAIN D : Meant(D, s)[k] = Means(D, s, Meant(D, s), k)
<1>1. Len(D) \in Nat /\ DOMAIN D = 1 .. Len(D)
  BY ProgramShape
<1>2. PICK md : md = Len(D)
  OBVIOUS
<1>3. \E M : M = [k \in 1 .. md |-> Means(D, s, M, k)]
  <2>1. md \in Nat /\ md <= Len(D)
    BY <1>1, <1>2
  <2> QED
    BY <2>1, MeantOfSome
<1>4. \E M : M = [k \in DOMAIN D |-> Means(D, s, M, k)]
  BY <1>1, <1>2, <1>3
<1>5. Meant(D, s) = [k \in DOMAIN D |-> Means(D, s, Meant(D, s), k)]
  BY <1>4 DEF Meant
<1> QED
  BY <1>5

\* What a future has is what it means, if that is so of all earlier ones.
LEMMA MeaningOfOne ==
    ASSUME NEW D, NEW s, NEW md, NEW ii, Ownership(D, s, md, ii), Derived(D, s, md),
           NEW k \in 1 .. md, NEW M, s[s[k].alias].result # Nothing,
           \A x \in 1 .. k - 1 :
              s[s[x].alias].result # Nothing => s[s[x].alias].result = M[x]
    PROVE  s[s[k].alias].result = Means(D, s, M, k)
<1>1. Shape(D, s, md) /\ Aliases(D, s, md)
  BY ShapeOfOwnership DEF Ownership
<1>2. k \in DOMAIN D /\ k <= md + 1 /\ IsProgram(D)
  <2>1. md \in Nat /\ Len(D) \in Nat /\ DOMAIN D = 1 .. Len(D) /\ md <= Len(D) /\ IsProgram(D)
    BY <1>1, ProgramShape DEF Shape
  <2> QED
    BY <2>1
<1>3. Edge(D, s, k)
  BY DEF Derived, Edges
<1>4. ASSUME NEW x \in 1 .. k - 1, Settled(s, s[x].alias) PROVE M[x] = s[s[x].alias].result
  BY <1>4 DEF Settled
<1>5. \A j \in DOMAIN D[k].from : D[k].from[j] \in 1 .. k - 1
  BY <1>1, <1>2, Inputs
<1>6. D[k].kind = "then" => D[k].from[1] \in 1 .. k - 1
  BY <1>2, ProgramShape
<1>7. D[k].inner # 0 => D[k].inner \in 1 .. k - 1
  BY <1>1, <1>2, Inputs
<1>8. CASE s[k].alias # k
  <2>1. PICK a : a = D[k].from[1]
    OBVIOUS
  <2>2. PICK b : b = D[k].inner
    OBVIOUS
  <2>3. D[k].kind = "then" /\ b # 0 /\ s[k].alias = s[b].alias
    BY <1>1, <1>2, <1>8, <2>2 DEF Aliases
  <2>4. /\ s[s[a].alias].local /\ Settled(s, s[a].alias) /\ ~WasDropped(s, s[a].alias)
        /\ ~Fails(D[k], s[s[a].alias].result)
    BY <1>3, <1>8, <2>1, Zenon DEF Edge, OnLocal, Called
  <2>5. M[a] = s[s[a].alias].result
    BY <1>4, <1>6, <2>1, <2>3, <2>4
  <2>6. M[b] = s[s[b].alias].result
    BY <1>7, <2>2, <2>3
  <2>7. ~D[k].throws /\ ~(Throws(M[a]) /\ ~D[k].is_try)
    BY <2>4, <2>5 DEF Fails
  <2>8. Means(D, s, M, k) = M[b]
    BY <2>1, <2>2, <2>3, <2>4, <2>7 DEF Means
  <2> QED
    BY <2>3, <2>6, <2>8
<1>9. CASE s[k].alias = k
  <2>1. PICK t : t = s[k].result
    OBVIOUS
  <2>2. Gives(D, s, k, t)
    BY <1>3, <1>9, <2>1 DEF Edge
  <2>3. CASE D[k].kind \in {"source", "ready"}
    BY <1>9, <2>1, <2>2, <2>3 DEF Gives, Means
  <2>4. CASE D[k].kind = "collect"
    <3>1. /\ \A j \in DOMAIN D[k].from : Settled(s, s[D[k].from[j]].alias)
          /\ t = Value(k, [j \in DOMAIN D[k].from |-> Passed(s, s[D[k].from[j]].alias)])
      BY <2>2, <2>4 DEF Gives, CollectGives
    <3>2. ASSUME NEW j \in DOMAIN D[k].from
          PROVE  Passed(s, s[D[k].from[j]].alias)
                 = IF WasDropped(s, s[D[k].from[j]].alias) THEN Nothing ELSE M[D[k].from[j]]
      <4>1. M[D[k].from[j]] = s[s[D[k].from[j]].alias].result
        BY <1>4, <1>5, <3>1
      <4> QED
        BY <4>1 DEF Passed
    <3>3. [j \in DOMAIN D[k].from |-> Passed(s, s[D[k].from[j]].alias)]
          = [j \in DOMAIN D[k].from |->
               IF WasDropped(s, s[D[k].from[j]].alias) THEN Nothing ELSE M[D[k].from[j]]]
      BY <3>2
    <3>4. Means(D, s, M, k)
          = Value(k, [j \in DOMAIN D[k].from |->
               IF WasDropped(s, s[D[k].from[j]].alias) THEN Nothing ELSE M[D[k].from[j]]])
      BY <2>4 DEF Means
    <3> QED
      BY <1>9, <2>1, <3>1, <3>3, <3>4
  <2>5. CASE D[k].kind = "then"
    <3>1. PICK a : a = D[k].from[1]
      OBVIOUS
    <3>2. PICK b : b = D[k].inner
      OBVIOUS
    <3>3. PICK n : n = s[a].alias
      OBVIOUS
    <3>4. PICK o : o = s[b].alias
      OBVIOUS
    <3>5. /\ Settled(s, n)
          /\ IF WasDropped(s, n) THEN t = Broken(k)
             ELSE IF b = 0 \/ Fails(D[k], s[n].result) THEN t = Outcome(D[k], k, s[n].result)
             ELSE /\ s[n].local = FALSE /\ Settled(s, o)
                  /\ t = IF WasDropped(s, o) THEN Broken(k) ELSE s[o].result
      BY <2>2, <2>5, <3>1, <3>2, <3>3, <3>4 DEF Gives, ThenGives
    <3>6. M[a] = s[n].result
      BY <1>4, <1>6, <2>5, <3>1, <3>3, <3>5
    <3>7. b # 0 /\ Settled(s, o) => M[b] = s[o].result
      BY <1>4, <1>7, <3>2, <3>4
    <3>8. Means(D, s, M, k) =
            IF WasDropped(s, n) THEN Broken(k)
            ELSE IF Throws(M[a]) /\ ~D[k].is_try THEN M[a]
            ELSE IF D[k].throws THEN Exception(k, <<M[a]>>)
            ELSE IF b = 0 THEN Value(k, <<M[a]>>)
            ELSE IF ~s[n].local /\ WasDropped(s, o) THEN Broken(k)
            ELSE M[b]
      BY <2>5, <3>1, <3>2, <3>3, <3>4 DEF Means
    <3>9. t = Means(D, s, M, k)
      <4>1. CASE WasDropped(s, n)
        BY <3>5, <3>8, <4>1
      <4>2. CASE ~WasDropped(s, n) /\ (b = 0 \/ Fails(D[k], s[n].result))
        <5>1. PICK u : u = s[n].result
          OBVIOUS
        <5>2. t = Outcome(D[k], k, u) /\ M[a] = u
          BY <3>5, <3>6, <4>2, <5>1
        <5>3. Means(D, s, M, k) =
                IF Throws(u) /\ ~D[k].is_try THEN u
                ELSE IF D[k].throws THEN Exception(k, <<u>>)
                ELSE IF b = 0 THEN Value(k, <<u>>)
                ELSE IF ~s[n].local /\ WasDropped(s, o) THEN Broken(k)
                ELSE M[b]
          BY <3>8, <4>2, <5>2, Zenon
        <5>4. CASE ~D[k].is_try /\ Throws(u)
          BY <5>2, <5>3, <5>4, Zenon DEF Outcome
        <5>5. CASE ~(~D[k].is_try /\ Throws(u)) /\ D[k].throws
          BY <5>2, <5>3, <5>5 DEF Outcome
        <5>6. CASE ~(~D[k].is_try /\ Throws(u)) /\ ~D[k].throws
          <6>1. b = 0
            BY <4>2, <5>1, <5>6 DEF Fails
          <6> QED
            BY <5>2, <5>3, <5>6, <6>1 DEF Outcome
        <5> QED
          BY <5>4, <5>5, <5>6
      <4>3. CASE ~WasDropped(s, n) /\ ~(b = 0 \/ Fails(D[k], s[n].result))
        <5>1. /\ s[n].local = FALSE /\ Settled(s, o)
              /\ t = IF WasDropped(s, o) THEN Broken(k) ELSE s[o].result
          BY <3>5, <4>3
        <5>2. ~D[k].throws /\ ~(Throws(M[a]) /\ ~D[k].is_try) /\ b # 0
          BY <3>6, <4>3 DEF Fails
        <5>3. M[b] = s[o].result
          BY <3>7, <5>1, <5>2
        <5> QED
          BY <3>8, <4>3, <5>1, <5>2, <5>3
      <4> QED
        BY <4>1, <4>2, <4>3
    <3> QED
      BY <1>9, <2>1, <3>9
  <2> QED
    BY <1>2, <2>3, <2>4, <2>5 DEF IsProgram
<1> QED
  BY <1>8, <1>9

LEMMA MeaningsAgree == ASSUME OwnershipInv, MeaningInv PROVE ResultsAgree
<1> DEFINE D == program.nodes
           T == {k \in 1 .. made : f[f[k].alias].result # Nothing
                                   /\ f[f[k].alias].result # Meaning[k]}
<1>1. /\ Ownership(D, f, made, i) /\ Derived(D, f, made) /\ IsProgram(D) /\ made \in Nat
      /\ \A k \in 1 .. made : k \in Nat /\ k \in DOMAIN D
  BY MeaningFacts, OwnershipFacts
<1>2. T = {}
  <2> SUFFICES ASSUME T # {} PROVE FALSE
    OBVIOUS
  <2>1. PICK k \in T : \A y \in T : k <= y
    <3>1. T \subseteq Nat
      BY <1>1
    <3> QED
      BY <3>1, LeastNat
  <2>2. k \in 1 .. made /\ f[f[k].alias].result # Nothing /\ f[f[k].alias].result # Meaning[k]
    OBVIOUS
  <2>3. ASSUME NEW x \in 1 .. k - 1, f[f[x].alias].result # Nothing
        PROVE  f[f[x].alias].result = Meaning[x]
    <3>1. x \in 1 .. made /\ ~(k <= x)
      BY <1>1, <2>2
    <3> QED
      BY <2>1, <2>3, <3>1
  <2>4. PICK M : M = Meaning
    OBVIOUS
  <2>5. f[f[k].alias].result = Means(D, f, M, k)
    BY <1>1, <2>2, <2>3, <2>4, MeaningOfOne
  <2>6. M[k] = Means(D, f, M, k)
    BY <1>1, <2>2, <2>4, MeaningOfState, MeantFacts
  <2> QED
    BY <2>2, <2>4, <2>5, <2>6
<1>3. ASSUME NEW k \in Nodes, k <= made, HasResult(f, k)
      PROVE  f[f[k].alias].result = Meaning[k]
  <2>1. k \in 1 .. made
    BY <1>1, <1>3, OwnershipFacts
  <2> QED
    BY <1>2, <1>3, <2>1 DEF HasResult
<1> QED
  BY <1>3 DEF ResultsAgree

\* ChainResultsAgree: whichever thread is first, and whatever the executor refuses or
\* destroys, a future made by MakeReadyFuture, Then or CollectAll (future_helper.hpp;
\* future.hpp, ThenImpl and MakeTryCall) has the result that its program means.
THEOREM ChainResultsAgree == Spec => []ResultsAgree
BY OwnershipAlways, MeaningsAlways, MeaningsAgree, PTL
=============================================================================
