------------------------- MODULE FutureChainProofs -------------------------
(***************************************************************************)
(* Theorems about FutureChain, for every program of futures.               *)
(*                                                                         *)
(* The parts of the invariant, and the effect of every channel operation,  *)
(* are stated of any descriptors D and any value s of f, so that they can  *)
(* be used of the state in the middle of a step and of the one after it.   *)
(***************************************************************************)
EXTENDS FutureChain, WellFoundedInduction, TLAPS

-----------------------------------------------------------------------------
(* What the assumptions say of the descriptors of one program.              *)
IsProgram(D) ==
    /\ Len(D) \in Nat /\ DOMAIN D = 1 .. Len(D)
    /\ \A k \in DOMAIN D :
        /\ D[k].kind \in {"source", "ready", "then", "collect"}
        /\ D[k].executor \in {"none", "ex"}
        /\ Len(D[k].from) \in Nat /\ DOMAIN D[k].from = 1 .. Len(D[k].from)
        /\ \A x \in DOMAIN D[k].from : D[k].from[x] \in 1 .. k - 1
        /\ D[k].kind = "then" => DOMAIN D[k].from = {1}
        /\ D[k].inner \in 0 .. k - 1
    /\ \A k, l \in DOMAIN D :
        /\ \A x \in DOMAIN D[k].from, y \in DOMAIN D[l].from :
              D[k].from[x] = D[l].from[y] => k = l /\ x = y
        /\ \A x \in DOMAIN D[k].from : D[l].inner # D[k].from[x]
        /\ D[k].inner = D[l].inner /\ D[k].inner # 0 => k = l

-----------------------------------------------------------------------------
(* The inductive invariant, of descriptors D, a value s of f, made = md and *)
(* i = ii.                                                                  *)
Fields == DOMAIN Blank(0)

\* The types; and no result, no continuation was set twice.
Types(D, s) ==
    /\ DOMAIN s = DOMAIN D
    /\ \A k \in DOMAIN D :
        /\ DOMAIN s[k] = Fields
        /\ s[k].local \in BOOLEAN
        /\ s[k].alias \in 1 .. k
        /\ s[k].executor \in {"none", "ex"}
        /\ s[k].handler \in Handlers
        /\ s[k].caller \in {"worker", "outside"} /\ s[k].on \in {"worker", "outside"}
        /\ s[k].guards \subseteq {"caller", "closure"}
        /\ s[k].ctx \subseteq 0 .. Len(D[k].from)
        /\ s[k].twice = FALSE

\* Main has not touched the futures it has not made, but for the context of the
\* CollectAll it is in.
Unmade(D, s, md, ii) ==
    \A k \in DOMAIN D : k > md =>
        /\ s[k].alias = k /\ s[k].local = FALSE
        /\ s[k].result = Nothing /\ s[k].handler = "none"
        /\ s[k].ctx # {} => k = md + 1 /\ ii > 0

LoopOf(D, s, md, ii) ==
    ii > 0 => /\ md + 1 \in DOMAIN D /\ D[md + 1].kind = "collect"
              /\ ii \in 1 .. Len(D[md + 1].from) + 1
              /\ 0 \in s[md + 1].ctx

\* A future that stands for another one, whose state its callback's future had.
\* All but the last future of a state were moved into such a callback.
Aliases(D, s, md) ==
    /\ \A k \in DOMAIN D : s[k].alias # k =>
        /\ D[k].kind = "then" /\ D[k].inner # 0
        /\ s[k].alias = s[D[k].inner].alias /\ s[s[k].alias].alias = s[k].alias
    /\ \A x, y \in DOMAIN D : x < y /\ y <= md /\ s[x].alias = s[y].alias =>
        \E z \in 1 .. md : s[z].alias # z /\ D[z].inner = x

\* A continuation of state n, which k has put there: the callback of a Then, the
\* closure of CollectAll for its input slot, the forwarder of a callback's future.
ThenLink(D, s, md, n, k, slot, forwards) ==
    /\ slot = 0 /\ forwards = FALSE
    /\ k \in 1 .. md /\ D[k].kind = "then" /\ s[k].alias = k /\ s[k].local = FALSE
    /\ s[D[k].from[1]].alias = n

CollectLink(D, s, md, ii, n, k, slot, forwards) ==
    /\ forwards = FALSE
    /\ k \in DOMAIN D /\ slot \in DOMAIN D[k].from
    /\ D[k].kind = "collect" /\ s[k].alias = k
    /\ s[D[k].from[slot]].alias = n
    /\ k <= md \/ (k = md + 1 /\ slot < ii)

ForwardLink(D, s, md, n, k, slot, forwards) ==
    /\ slot = 0 /\ forwards = TRUE
    /\ k \in 1 .. md /\ D[k].kind = "then" /\ s[k].alias = k /\ s[k].local = FALSE
    /\ D[k].inner # 0 /\ s[D[k].inner].alias = n
    /\ s[s[D[k].from[1]].alias].handler \in {"ran", "gone"}

Link(D, s, md, ii, n, k, slot, forwards) ==
    \/ ThenLink(D, s, md, n, k, slot, forwards)
    \/ CollectLink(D, s, md, ii, n, k, slot, forwards)
    \/ ForwardLink(D, s, md, n, k, slot, forwards)

Links(D, s, md, ii) ==
    \A n \in DOMAIN D : s[n].handler # "none" =>
        n <= md /\ Link(D, s, md, ii, n, s[n].to, s[n].slot, s[n].forwards)

\* A continuation that has not run, or will be destroyed instead, holds its promise,
\* and the owners of a context hold CollectAll's: these are not fulfilled.
Holding == {"set", "due", "queued", "run", "dropped"}

Holds(s, n) == s[n].handler \in Holding /\ s[n].slot = 0

Promises(D, s) ==
    /\ \A n \in DOMAIN D : Holds(s, n) => s[s[n].to].result = Nothing
    /\ \A k \in DOMAIN D : s[k].ctx # {} =>
          D[k].kind = "collect" /\ s[k].result = Nothing /\ s[k].local = FALSE

Hows(D, s) ==
    \A n \in DOMAIN D : /\ s[n].how = "dropped" => s[n].handler \in {"dropped", "gone"}
                        /\ s[n].handler = "dropped" => s[n].how = "dropped"

Ownership(D, s, md, ii) ==
    /\ IsProgram(D) /\ md \in 0 .. Len(D) /\ ii \in Nat
    /\ Types(D, s) /\ Unmade(D, s, md, ii) /\ LoopOf(D, s, md, ii) /\ Aliases(D, s, md)
    /\ Links(D, s, md, ii) /\ Promises(D, s) /\ Hows(D, s)

OwnershipInv ==
    /\ program \in Programs /\ checked \in BOOLEAN
    /\ checked => i \in DOMAIN Desc(made + 1).from
    /\ Ownership(program.nodes, f, made, i)

-----------------------------------------------------------------------------
(* The executors, of descriptors D and a value s of f.                      *)
Fails(d, t) == d.throws \/ (~d.is_try /\ Throws(t))

Loses(D, s, k) ==
    LET n == s[D[k].from[1]].alias IN
    D[k].inner # 0 /\ s[n].local /\ Fails(D[k], s[n].result)

\* The equation of InheritedExecutor, of which it is a solution.
Inherits(D, s, E, k) ==
    IF D[k].kind = "collect" THEN "none"
    ELSE IF D[k].kind # "then" THEN D[k].executor
    ELSE IF Loses(D, s, k) THEN "none"
    ELSE E[D[k].from[1]]

Inherited(D, s, E) == E = [k \in DOMAIN D |-> Inherits(D, s, E, k)]

Executors(D, s) == CHOOSE E : Inherited(D, s, E)

\* Only a Try handed over by MakeReadyFuture or Then is in a LocalState.
SourcesShared(D, s) == \A k \in DOMAIN D : D[k].kind = "source" => s[k].local = FALSE

\* A continuation that ran outside was triggered, refused or on a state without executor.
Placed(D, s) ==
    \A n \in DOMAIN D : s[n].handler \in {"run", "ran"} /\ s[n].on = "outside" =>
        s[n].how \in {"trigger", "refused"} \/ s[n].executor = "none"

\* A state has the executor its future inherits.
Equipped(D, s, md) ==
    \A k \in 1 .. md : Executors(D, s)[k] = "ex" => s[s[k].alias].executor = "ex"

ExecutorInv ==
    /\ SourcesShared(program.nodes, f) /\ Placed(program.nodes, f)
    /\ Equipped(program.nodes, f, made)

-----------------------------------------------------------------------------
(* The descriptors.                                                         *)
LEMMA SequenceFacts ==
    ASSUME NEW S, NEW q \in Seq(S)
    PROVE  /\ Len(q) \in Nat /\ DOMAIN q = 1 .. Len(q)
           /\ \A x \in DOMAIN q : q[x] \in S
OBVIOUS

LEMMA ProgramFacts == ASSUME program \in Programs PROVE IsProgram(program.nodes)
<1>1. Len(program.nodes) \in Nat /\ DOMAIN program.nodes = 1 .. Len(program.nodes)
  BY ProgramsAssumption
<1>2. ASSUME NEW k \in DOMAIN program.nodes
      PROVE  LET d == program.nodes[k] IN
             /\ d.kind \in {"source", "ready", "then", "collect"}
             /\ d.executor \in {"none", "ex"}
             /\ Len(d.from) \in Nat /\ DOMAIN d.from = 1 .. Len(d.from)
             /\ \A x \in DOMAIN d.from : d.from[x] \in 1 .. k - 1
             /\ d.kind = "then" => DOMAIN d.from = {1}
             /\ d.inner \in 0 .. k - 1
  <2> DEFINE d == program.nodes[k]
  <2>1. /\ d.kind \in {"source", "ready", "then", "collect"}
        /\ d.executor \in {"none", "ex"} /\ d.from \in Seq(1 .. k - 1)
        /\ d.kind = "then" => Len(d.from) = 1
        /\ d.inner \in 0 .. k - 1
    BY ProgramsAssumption
  <2>2. /\ Len(d.from) \in Nat /\ DOMAIN d.from = 1 .. Len(d.from)
        /\ \A x \in DOMAIN d.from : d.from[x] \in 1 .. k - 1
    BY <2>1, SequenceFacts
  <2> QED
    BY <2>1, <2>2
<1>3. ASSUME NEW k \in DOMAIN program.nodes, NEW l \in DOMAIN program.nodes
      PROVE  LET d == program.nodes[k]  e == program.nodes[l] IN
             /\ \A x \in DOMAIN d.from, y \in DOMAIN e.from : d.from[x] = e.from[y] => k = l /\ x = y
             /\ \A x \in DOMAIN d.from : e.inner # d.from[x]
             /\ d.inner = e.inner /\ d.inner # 0 => k = l
  BY UsedOnceAssumption
<1> QED
  BY <1>1, <1>2, <1>3 DEF IsProgram

LEMMA ProgramShape ==
    ASSUME NEW D, IsProgram(D)
    PROVE  /\ Len(D) \in Nat /\ DOMAIN D = 1 .. Len(D)
           /\ \A k \in DOMAIN D, x \in Nat : x \in DOMAIN D[k].from => x # 0
           /\ \A k \in DOMAIN D : \A x \in DOMAIN D[k].from : x \in Nat \ {0}
           /\ \A k \in DOMAIN D : \A x \in DOMAIN D[k].from : D[k].from[x] \in 1 .. k - 1
           /\ \A k \in DOMAIN D : \A x \in DOMAIN D[k].from : D[k].from[x] \in DOMAIN D
           /\ \A k \in DOMAIN D : D[k].kind = "then" => D[k].from[1] \in 1 .. k - 1
           /\ \A k \in DOMAIN D : D[k].kind = "then" => D[k].from[1] \in DOMAIN D
           /\ \A k \in DOMAIN D : D[k].inner \in 0 .. k - 1
           /\ \A k \in DOMAIN D : D[k].inner # 0 => D[k].inner \in DOMAIN D
<1>1. Len(D) \in Nat /\ DOMAIN D = 1 .. Len(D)
  BY DEF IsProgram
<1>2. \A k \in DOMAIN D : \A x \in DOMAIN D[k].from : x \in Nat \ {0} /\ D[k].from[x] \in 1 .. k - 1
  BY DEF IsProgram
<1>3. \A k \in DOMAIN D : D[k].kind = "then" => 1 \in DOMAIN D[k].from
  BY DEF IsProgram
<1>4. \A k \in DOMAIN D : D[k].inner \in 0 .. k - 1
  BY DEF IsProgram
<1>5. \A k \in DOMAIN D, x \in Nat : x \in 1 .. k - 1 => x \in DOMAIN D
  BY <1>1
<1> QED
  BY <1>1, <1>2, <1>3, <1>4, <1>5

LEMMA LeastNat == ASSUME NEW T, T \subseteq Nat, T # {} PROVE \E x \in T : \A y \in T : x <= y
<1>1. PICK R : R = OpToRel(<, Nat)
  OBVIOUS
<1>2. IsWellFoundedOn(R, Nat)
  BY <1>1, NatLessThanWellFounded
<1>3. PICK x \in T : \A y \in T : ~(<<y, x>> \in R)
  BY <1>2, WFMin
<1>4. \A y, z \in Nat : <<y, z>> \in R <=> y < z
  BY <1>1, Zenon DEF OpToRel
<1>5. \A y \in T : y \in Nat /\ x \in Nat /\ ~(y < x)
  BY <1>3, <1>4
<1> QED
  BY <1>5, SMT

\* Two futures that were used, each by a Then, a CollectAll or as the future of a
\* callback that runs on a shared state, do not share a state.
Uses(D, s, k, x) ==
    (\E a \in DOMAIN D[k].from : D[k].from[a] = x) \/ (D[k].inner = x /\ s[k].alias = k)

LEMMA UsersDiffer ==
    ASSUME NEW D, NEW s, NEW md, IsProgram(D), md \in 0 .. Len(D), Aliases(D, s, md),
           NEW k \in DOMAIN D, NEW l \in DOMAIN D, NEW x \in 1 .. md, NEW y \in 1 .. md,
           s[x].alias = s[y].alias,
           Uses(D, s, k, x), Uses(D, s, l, y)
    PROVE  x = y /\ k = l
<1>0. Len(D) \in Nat /\ DOMAIN D = 1 .. Len(D)
  BY DEF IsProgram
<1>1. ASSUME NEW p \in 1 .. md, NEW q \in 1 .. md, p < q, s[p].alias = s[q].alias,
             NEW h \in DOMAIN D,
             Uses(D, s, h, p)
      PROVE  FALSE
  <2>1. p \in DOMAIN D /\ q \in DOMAIN D /\ q <= md
    BY <1>0
  <2>2. PICK z \in 1 .. md : s[z].alias # z /\ D[z].inner = p
    BY <1>1, <2>1 DEF Aliases
  <2>3. z \in DOMAIN D /\ p # 0
    BY <1>0
  <2>4. \A a \in DOMAIN D[h].from : D[h].from[a] # p
    <3>1. \A a \in DOMAIN D[h].from : D[z].inner # D[h].from[a]
      BY <2>3, ZenonT(60) DEF IsProgram
    <3> QED
      BY <2>2, <3>1
  <2>5. D[h].inner = p => h = z
    BY <2>2, <2>3 DEF IsProgram
  <2> QED
    BY <1>1, <2>2, <2>4, <2>5 DEF Uses
<1>2. x = y
  <2>1. ~(x < y)
    BY <1>1
  <2>2. ~(y < x)
    BY <1>1
  <2> QED
    BY <2>1, <2>2
<1>3. k = l
  <2>1. x # 0
    BY <1>0
  <2> QED
    BY <1>2, <2>1, SMTT(30) DEF IsProgram, Uses
<1> QED
  BY <1>2, <1>3

-----------------------------------------------------------------------------
(* The channel operations, field by field.                                  *)

\* r differs from s in the fields X only.
Agree(s, r, X) ==
    /\ DOMAIN r = DOMAIN s
    /\ \A m \in DOMAIN s : /\ DOMAIN r[m] = Fields
                           /\ \A x \in Fields \ X : r[m][x] = s[m][x]

LEMMA SetResultEffect ==
    ASSUME NEW s, \A m \in DOMAIN s : DOMAIN s[m] = Fields,
           NEW k \in DOMAIN s, NEW t, NEW th, NEW r, r = SetResult(s, k, t, th)
    PROVE  /\ Agree(s, r, {"result", "twice", "handler", "caller"})
           /\ \A m \in DOMAIN s : m # k => r[m] = s[m]
           /\ r[k].result = t /\ r[k].twice = (s[k].twice \/ s[k].result # Nothing)
           /\ r[k].handler = IF s[k].handler = "set" THEN "due" ELSE s[k].handler
           /\ r[k].caller = IF s[k].handler = "set" THEN th ELSE s[k].caller
BY DEF SetResult, Agree, Fields, Blank

LEMMA SetContinuationEffect ==
    ASSUME NEW s, \A m \in DOMAIN s : DOMAIN s[m] = Fields,
           NEW n \in DOMAIN s, NEW to, NEW slot, NEW forwards, NEW th,
           NEW r, r = SetContinuation(s, n, to, slot, forwards, th)
    PROVE  /\ Agree(s, r, {"to", "slot", "forwards", "twice", "handler", "how", "caller",
                           "on", "guards"})
           /\ \A m \in DOMAIN s : m # n => r[m] = s[m]
           /\ r[n].to = to /\ r[n].slot = slot /\ r[n].forwards = forwards
           /\ r[n].twice = (s[n].twice \/ s[n].handler # "none")
           /\ r[n].handler = IF s[n].result = Nothing THEN "set" ELSE "run"
           /\ r[n].how = IF s[n].result = Nothing THEN s[n].how ELSE "trigger"
           /\ r[n].caller = th /\ r[n].on = th
           /\ r[n].guards = IF s[n].result = Nothing THEN {} ELSE {"caller"}
<1> DEFINE Written == {"to", "slot", "forwards", "twice", "handler", "how", "caller", "on", "guards"}
<1>1. DOMAIN r = DOMAIN s /\ \A m \in DOMAIN s : m # n => r[m] = s[m]
  BY ZenonT(60) DEF SetContinuation
<1>2. DOMAIN r[n] = Fields /\ \A x \in Fields \ Written : r[n][x] = s[n][x]
  <2>1. DOMAIN r[n] = DOMAIN s[n] /\ DOMAIN s[n] = Fields
    BY ZenonT(60) DEF SetContinuation
  <2>2. \A x \in DOMAIN s[n] : x \notin Written => r[n][x] = s[n][x]
    BY ZenonT(60) DEF SetContinuation
  <2> QED
    BY <2>1, <2>2
<1>3. Agree(s, r, Written)
  BY <1>1, <1>2 DEF Agree
<1>4. r[n].to = to /\ r[n].slot = slot /\ r[n].forwards = forwards
  BY DEF SetContinuation, Fields, Blank
<1>5. r[n].twice = (s[n].twice \/ s[n].handler # "none")
  BY DEF SetContinuation, Fields, Blank
<1>6. r[n].handler = IF s[n].result = Nothing THEN "set" ELSE "run"
  BY DEF SetContinuation, Fields, Blank
<1>7. r[n].how = IF s[n].result = Nothing THEN s[n].how ELSE "trigger"
  BY DEF SetContinuation, Fields, Blank
<1>8. r[n].caller = th /\ r[n].on = th
  BY DEF SetContinuation, Fields, Blank
<1>9. r[n].guards = IF s[n].result = Nothing THEN {} ELSE {"caller"}
  BY DEF SetContinuation, Fields, Blank
<1> QED
  BY <1>1, <1>3, <1>4, <1>5, <1>6, <1>7, <1>8, <1>9

\* What the parts of the invariant read of the fields that are kept.
LEMMA AgreeFacts ==
    ASSUME NEW s, NEW r, NEW X, Agree(s, r, X)
    PROVE  /\ DOMAIN r = DOMAIN s /\ \A m \in DOMAIN s : DOMAIN r[m] = Fields
           /\ "local" \notin X => \A m \in DOMAIN s : r[m].local = s[m].local
           /\ "alias" \notin X => \A m \in DOMAIN s : r[m].alias = s[m].alias
           /\ "executor" \notin X => \A m \in DOMAIN s : r[m].executor = s[m].executor
           /\ "result" \notin X => \A m \in DOMAIN s : r[m].result = s[m].result
           /\ "handler" \notin X => \A m \in DOMAIN s : r[m].handler = s[m].handler
           /\ "to" \notin X => \A m \in DOMAIN s : r[m].to = s[m].to
           /\ "slot" \notin X => \A m \in DOMAIN s : r[m].slot = s[m].slot
           /\ "forwards" \notin X => \A m \in DOMAIN s : r[m].forwards = s[m].forwards
           /\ "how" \notin X => \A m \in DOMAIN s : r[m].how = s[m].how
           /\ "caller" \notin X => \A m \in DOMAIN s : r[m].caller = s[m].caller
           /\ "on" \notin X => \A m \in DOMAIN s : r[m].on = s[m].on
           /\ "guards" \notin X => \A m \in DOMAIN s : r[m].guards = s[m].guards
           /\ "results" \notin X => \A m \in DOMAIN s : r[m].results = s[m].results
           /\ "ctx" \notin X => \A m \in DOMAIN s : r[m].ctx = s[m].ctx
           /\ "twice" \notin X => \A m \in DOMAIN s : r[m].twice = s[m].twice
BY DEF Agree, Fields, Blank

-----------------------------------------------------------------------------
(* Who holds a promise holds it alone.                                      *)
LEMMA HolderLink ==
    ASSUME NEW D, NEW s, NEW md, NEW ii, Ownership(D, s, md, ii), NEW n \in DOMAIN D, Holds(s, n)
    PROVE  /\ \/ ThenLink(D, s, md, n, s[n].to, s[n].slot, s[n].forwards)
              \/ ForwardLink(D, s, md, n, s[n].to, s[n].slot, s[n].forwards)
           /\ s[n].to \in DOMAIN D /\ s[n].to \in 1 .. md /\ D[s[n].to].kind = "then"
<1>1. s[n].handler # "none" /\ s[n].slot = 0 /\ IsProgram(D) /\ md \in 0 .. Len(D)
  BY DEF Holds, Holding, Ownership
<1>2. ~CollectLink(D, s, md, ii, n, s[n].to, s[n].slot, s[n].forwards)
  BY <1>1, ProgramShape DEF CollectLink
<1>3. \/ ThenLink(D, s, md, n, s[n].to, s[n].slot, s[n].forwards)
      \/ ForwardLink(D, s, md, n, s[n].to, s[n].slot, s[n].forwards)
  BY <1>1, <1>2 DEF Ownership, Links, Link
<1>4. s[n].to \in 1 .. md /\ D[s[n].to].kind = "then"
  BY <1>3 DEF ThenLink, ForwardLink
<1> QED
  BY <1>1, <1>3, <1>4, ProgramShape

LEMMA HoldsAlone ==
    ASSUME NEW D, NEW s, NEW md, NEW ii, Ownership(D, s, md, ii),
           NEW n \in DOMAIN D, NEW m \in DOMAIN D, Holds(s, n), Holds(s, m), s[n].to = s[m].to
    PROVE  n = m
<1> DEFINE k == s[n].to
<1>1. \/ ThenLink(D, s, md, n, k, s[n].slot, s[n].forwards)
      \/ ForwardLink(D, s, md, n, k, s[n].slot, s[n].forwards)
  BY HolderLink
<1>2. \/ ThenLink(D, s, md, m, k, s[m].slot, s[m].forwards)
      \/ ForwardLink(D, s, md, m, k, s[m].slot, s[m].forwards)
  BY HolderLink
<1>3. ThenLink(D, s, md, n, k, s[n].slot, s[n].forwards) =>
        s[D[k].from[1]].alias = n /\ s[n].forwards = FALSE
  BY Zenon DEF ThenLink
<1>4. ForwardLink(D, s, md, n, k, s[n].slot, s[n].forwards) =>
        /\ s[D[k].inner].alias = n /\ s[n].forwards = TRUE
        /\ s[s[D[k].from[1]].alias].handler \in {"ran", "gone"}
  BY Zenon DEF ForwardLink
<1>5. ThenLink(D, s, md, m, k, s[m].slot, s[m].forwards) =>
        s[D[k].from[1]].alias = m /\ s[m].forwards = FALSE
  BY Zenon DEF ThenLink
<1>6. ForwardLink(D, s, md, m, k, s[m].slot, s[m].forwards) =>
        /\ s[D[k].inner].alias = m /\ s[m].forwards = TRUE
        /\ s[s[D[k].from[1]].alias].handler \in {"ran", "gone"}
  BY Zenon DEF ForwardLink
<1>7. s[n].handler \notin {"ran", "gone"} /\ s[m].handler \notin {"ran", "gone"}
  BY DEF Holds, Holding
<1> QED
  BY <1>1, <1>2, <1>3, <1>4, <1>5, <1>6, <1>7, Zenon

LEMMA SameAliases ==
    ASSUME NEW D, NEW s, NEW r, NEW md \in 0 .. Len(D), IsProgram(D), Types(D, s), Aliases(D, s, md),
           \A m \in DOMAIN D : r[m].alias = s[m].alias
    PROVE  Aliases(D, r, md)
<1>1. \A k \in DOMAIN D : s[k].alias \in DOMAIN D
  BY ProgramShape DEF Types
<1>2. ASSUME NEW k \in DOMAIN D, r[k].alias # k
      PROVE  /\ D[k].kind = "then" /\ D[k].inner # 0
             /\ r[k].alias = r[D[k].inner].alias /\ r[r[k].alias].alias = r[k].alias
  <2>1. D[k].kind = "then" /\ D[k].inner # 0
        /\ s[k].alias = s[D[k].inner].alias /\ s[s[k].alias].alias = s[k].alias
    BY <1>2 DEF Aliases
  <2>2. D[k].inner \in DOMAIN D /\ s[k].alias \in DOMAIN D
    BY <1>1, <2>1, ProgramShape
  <2> QED
    BY <2>1, <2>2
<1>3. ASSUME NEW x \in DOMAIN D, NEW y \in DOMAIN D, x < y, y <= md, r[x].alias = r[y].alias
      PROVE  \E z \in 1 .. md : r[z].alias # z /\ D[z].inner = x
  <2>1. PICK z \in 1 .. md : s[z].alias # z /\ D[z].inner = x
    BY <1>3 DEF Aliases
  <2>2. z \in DOMAIN D
    BY ProgramShape
  <2> QED
    BY <2>1, <2>2
<1> QED
  BY <1>2, <1>3 DEF Aliases

\* The links depend on the aliases and on what the continuations are.
LEMMA SameLink ==
    ASSUME NEW D, NEW s, NEW r, NEW md \in 0 .. Len(D), NEW ii \in Nat, NEW jj \in Nat, ii <= jj,
           IsProgram(D), Types(D, s),
           \A m \in DOMAIN D :
              /\ r[m].alias = s[m].alias /\ r[m].local = s[m].local
              /\ s[m].handler \in {"ran", "gone"} => r[m].handler \in {"ran", "gone"},
           NEW n, NEW k, NEW slot, NEW forwards, Link(D, s, md, ii, n, k, slot, forwards)
    PROVE  Link(D, r, md, jj, n, k, slot, forwards)
<1>1. \A m \in DOMAIN D : s[m].alias \in DOMAIN D
  BY ProgramShape DEF Types
<1>2. CASE ThenLink(D, s, md, n, k, slot, forwards)
  <2>1. k \in DOMAIN D /\ D[k].kind = "then" /\ D[k].from[1] \in DOMAIN D
    BY <1>2, ProgramShape DEF ThenLink
  <2> QED
    BY <1>2, <2>1 DEF ThenLink, Link
<1>3. CASE CollectLink(D, s, md, ii, n, k, slot, forwards)
  <2>1. /\ k \in DOMAIN D /\ slot \in DOMAIN D[k].from /\ slot \in Nat
        /\ D[k].from[slot] \in DOMAIN D
    BY <1>3, ProgramShape DEF CollectLink
  <2>2. slot < ii => slot < jj
    BY <2>1
  <2> QED
    BY <1>3, <2>1, <2>2 DEF CollectLink, Link
<1>4. CASE ForwardLink(D, s, md, n, k, slot, forwards)
  <2>1. k \in DOMAIN D /\ D[k].kind = "then" /\ D[k].inner # 0
    BY <1>4, ProgramShape DEF ForwardLink
  <2>2. D[k].from[1] \in DOMAIN D /\ D[k].inner \in DOMAIN D
    BY <2>1, ProgramShape
  <2>3. /\ s[D[k].from[1]].alias \in DOMAIN D
        /\ r[D[k].from[1]].alias = s[D[k].from[1]].alias
    BY <1>1, <2>2
  <2>4. r[r[D[k].from[1]].alias].handler \in {"ran", "gone"}
    BY <1>4, <2>3 DEF ForwardLink
  <2>5. r[k].alias = k /\ r[k].local = FALSE /\ r[D[k].inner].alias = n
    BY <1>4, <2>1, <2>2 DEF ForwardLink
  <2> QED
    BY <1>4, <2>1, <2>4, <2>5 DEF ForwardLink, Link
<1> QED
  BY <1>2, <1>3, <1>4 DEF Link

LEMMA SameLinks ==
    ASSUME NEW D, NEW s, NEW r, NEW md \in 0 .. Len(D), NEW ii \in Nat, NEW jj \in Nat, ii <= jj,
           IsProgram(D), Types(D, s), Links(D, s, md, ii),
           \A m \in DOMAIN D :
              /\ r[m].alias = s[m].alias /\ r[m].local = s[m].local /\ r[m].to = s[m].to
              /\ r[m].slot = s[m].slot /\ r[m].forwards = s[m].forwards
              /\ r[m].handler # "none" => s[m].handler # "none"
              /\ s[m].handler \in {"ran", "gone"} => r[m].handler \in {"ran", "gone"}
    PROVE  Links(D, r, md, jj)
<1> SUFFICES ASSUME NEW n \in DOMAIN D, r[n].handler # "none"
             PROVE  n <= md /\ Link(D, r, md, jj, n, s[n].to, s[n].slot, s[n].forwards)
  BY DEF Links
<1>1. n <= md /\ Link(D, s, md, ii, n, s[n].to, s[n].slot, s[n].forwards)
  BY DEF Links
<1> QED
  BY <1>1, SameLink

\* A promise nobody holds any more is fulfilled: a source's, or one whose holder ran.
LEMMA FulfilKeepsOwnership ==
    ASSUME NEW D, NEW s, NEW md, NEW ii, Ownership(D, s, md, ii),
           NEW k \in 1 .. md, s[k].result = Nothing, s[k].ctx = {},
           \A n \in DOMAIN D : Holds(s, n) => s[n].to # k,
           NEW t, NEW th \in {"worker", "outside"}, NEW r, r = SetResult(s, k, t, th)
    PROVE  Ownership(D, r, md, ii)
<1>1. IsProgram(D) /\ md \in 0 .. Len(D) /\ ii \in Nat /\ k \in DOMAIN D /\ DOMAIN s = DOMAIN D
      /\ \A m \in DOMAIN s : DOMAIN s[m] = Fields
  BY DEF Ownership, IsProgram, Types
<1>2. /\ Agree(s, r, {"result", "twice", "handler", "caller"})
      /\ \A m \in DOMAIN s : m # k => r[m] = s[m]
      /\ r[k].result = t /\ r[k].twice = (s[k].twice \/ s[k].result # Nothing)
      /\ r[k].handler = IF s[k].handler = "set" THEN "due" ELSE s[k].handler
      /\ r[k].caller = IF s[k].handler = "set" THEN th ELSE s[k].caller
  BY <1>1, SetResultEffect
<1>3. DOMAIN r = DOMAIN D /\ \A m \in DOMAIN D :
        /\ DOMAIN r[m] = Fields
        /\ r[m].local = s[m].local /\ r[m].alias = s[m].alias /\ r[m].executor = s[m].executor
        /\ r[m].to = s[m].to /\ r[m].slot = s[m].slot /\ r[m].forwards = s[m].forwards
        /\ r[m].how = s[m].how /\ r[m].on = s[m].on /\ r[m].guards = s[m].guards
        /\ r[m].ctx = s[m].ctx
  BY <1>1, <1>2, AgreeFacts
<1>4. \A m \in DOMAIN D : /\ r[m].handler = s[m].handler
                             \/ (s[m].handler = "set" /\ r[m].handler = "due")
                          /\ m # k => r[m].result = s[m].result
  BY <1>1, <1>2
<1>5. Types(D, r)
  <2>1. Types(D, s)
    BY DEF Ownership
  <2>2. r[k].twice = FALSE /\ \A m \in DOMAIN D : r[m].twice = FALSE
    BY <1>1, <1>2, <2>1, Zenon DEF Types
  <2>3. \A m \in DOMAIN D : /\ r[m].caller \in {"worker", "outside"}
                             /\ r[m].handler \in Handlers
    BY <1>1, <1>2, <2>1 DEF Types, Handlers
  <2> QED
    BY <1>3, <2>1, <2>2, <2>3 DEF Types
<1>6. Unmade(D, r, md, ii)
  BY <1>1, <1>3, <1>4 DEF Ownership, Unmade
<1>7. LoopOf(D, r, md, ii)
  BY <1>1, <1>3 DEF Ownership, LoopOf
<1>8. Aliases(D, r, md)
  BY <1>1, <1>3, SameAliases DEF Ownership
<1>9. Links(D, r, md, ii)
  BY <1>1, <1>3, <1>4, SameLinks DEF Ownership
<1>10. Promises(D, r)
  <2>1. \A n \in DOMAIN D : Holds(r, n) => Holds(s, n)
    BY <1>3, <1>4 DEF Holds, Holding
  <2>2. \A n \in DOMAIN D : Holds(s, n) => s[n].to \in DOMAIN D
    BY HolderLink
  <2> QED
    BY <1>1, <1>3, <1>4, <2>1, <2>2 DEF Ownership, Promises
<1>11. Hows(D, r)
  BY <1>1, <1>3, <1>4 DEF Ownership, Hows
<1> QED
  BY <1>1, <1>5, <1>6, <1>7, <1>8, <1>9, <1>10, <1>11 DEF Ownership

\* A continuation is put on a state that had none.
LEMMA SubscribeKeepsOwnership ==
    ASSUME NEW D, NEW s, NEW md, NEW ii, Ownership(D, s, md, ii),
           NEW n \in 1 .. md, s[n].handler = "none",
           NEW k \in DOMAIN D, NEW slot, NEW forwards, NEW th \in {"worker", "outside"},
           Link(D, s, md, ii, n, k, slot, forwards), slot = 0 => s[k].result = Nothing,
           NEW r, r = SetContinuation(s, n, k, slot, forwards, th)
    PROVE  Ownership(D, r, md, ii)
<1>1. IsProgram(D) /\ md \in 0 .. Len(D) /\ ii \in Nat /\ n \in DOMAIN D /\ DOMAIN s = DOMAIN D
      /\ \A m \in DOMAIN s : DOMAIN s[m] = Fields
  <2>1. IsProgram(D) /\ md \in 0 .. Len(D) /\ ii \in Nat /\ Types(D, s)
    BY DEF Ownership
  <2>2. n \in DOMAIN D
    BY <2>1, ProgramShape
  <2> QED
    BY <2>1, <2>2 DEF Types
<1>2. /\ Agree(s, r, {"to", "slot", "forwards", "twice", "handler", "how", "caller",
                      "on", "guards"})
      /\ \A m \in DOMAIN s : m # n => r[m] = s[m]
      /\ r[n].to = k /\ r[n].slot = slot /\ r[n].forwards = forwards
      /\ r[n].twice = (s[n].twice \/ s[n].handler # "none")
      /\ r[n].handler = IF s[n].result = Nothing THEN "set" ELSE "run"
      /\ r[n].how = IF s[n].result = Nothing THEN s[n].how ELSE "trigger"
      /\ r[n].caller = th /\ r[n].on = th
      /\ r[n].guards = IF s[n].result = Nothing THEN {} ELSE {"caller"}
  BY <1>1, SetContinuationEffect
<1>3. DOMAIN r = DOMAIN D /\ \A m \in DOMAIN D :
        /\ DOMAIN r[m] = Fields
        /\ r[m].local = s[m].local /\ r[m].alias = s[m].alias /\ r[m].executor = s[m].executor
        /\ r[m].result = s[m].result /\ r[m].ctx = s[m].ctx
  BY <1>1, <1>2, AgreeFacts
<1>4. r[n].handler \in {"set", "run"} /\ s[n].how # "dropped"
  BY <1>1, <1>2 DEF Ownership, Hows
<1>5. Types(D, r)
  <2>1. Types(D, s)
    BY DEF Ownership
  <2>2. r[n].twice = FALSE /\ \A m \in DOMAIN D : r[m].twice = FALSE
    <3>1. s[n].twice = FALSE /\ \A m \in DOMAIN D : s[m].twice = FALSE
      BY <1>1, <2>1 DEF Types
    <3>2. r[n].twice = FALSE
      BY <1>2, <3>1, Zenon
    <3> QED
      BY <1>1, <1>2, <3>1, <3>2
  <2>3. \A m \in DOMAIN D : /\ r[m].caller \in {"worker", "outside"}
                             /\ r[m].on \in {"worker", "outside"}
                             /\ r[m].guards \subseteq {"caller", "closure"}
                             /\ r[m].handler \in Handlers
    BY <1>1, <1>2, <2>1 DEF Types, Handlers
  <2> QED
    BY <1>3, <2>1, <2>2, <2>3 DEF Types
<1>6. Unmade(D, r, md, ii)
  BY <1>1, <1>2, <1>3 DEF Ownership, Unmade
<1>7. LoopOf(D, r, md, ii)
  BY <1>1, <1>3 DEF Ownership, LoopOf
<1>8. Aliases(D, r, md)
  BY <1>1, <1>3, SameAliases DEF Ownership
<1>9. Links(D, r, md, ii)
  <2>1. \A m \in DOMAIN D : s[m].handler \in {"ran", "gone"} => r[m].handler \in {"ran", "gone"}
    BY <1>1, <1>2
  <2>2. Link(D, r, md, ii, n, k, slot, forwards)
    BY <1>1, <1>3, <2>1, SameLink, SMTT(30) DEF Ownership
  <2>3. ASSUME NEW m \in DOMAIN D, m # n, s[m].handler # "none"
        PROVE  m <= md /\ Link(D, r, md, ii, m, s[m].to, s[m].slot, s[m].forwards)
    <3>1. m <= md /\ Link(D, s, md, ii, m, s[m].to, s[m].slot, s[m].forwards)
      BY <2>3 DEF Ownership, Links
    <3> QED
      BY <1>1, <1>3, <2>1, <3>1, SameLink, SMTT(30) DEF Ownership
  <2> QED
    BY <1>1, <1>2, <2>2, <2>3 DEF Links
<1>10. Promises(D, r)
  <2>1. \A m \in DOMAIN D : m # n /\ Holds(r, m) => Holds(s, m) /\ r[m].to = s[m].to
    BY <1>1, <1>2 DEF Holds
  <2>2. \A m \in DOMAIN D : Holds(s, m) => s[m].to \in DOMAIN D /\ s[s[m].to].result = Nothing
    BY HolderLink DEF Ownership, Promises
  <2>3. \A m \in DOMAIN D : Holds(r, m) => r[r[m].to].result = Nothing
    BY <1>2, <1>3, <2>1, <2>2 DEF Holds
  <2> QED
    BY <1>3, <2>3 DEF Ownership, Promises
<1>11. Hows(D, r)
  BY <1>1, <1>2, <1>4 DEF Ownership, Hows
<1> QED
  BY <1>1, <1>5, <1>6, <1>7, <1>8, <1>9, <1>10, <1>11 DEF Ownership

\* A continuation goes on: it becomes due, is scheduled, runs, is dropped, is destroyed.
PhaseChanges(D, s, n, r) ==
    /\ n \in DOMAIN D
    /\ Agree(s, r, {"handler", "how", "caller", "on", "guards", "results"})
    /\ \A m \in DOMAIN D : m # n => /\ r[m].handler = s[m].handler /\ r[m].how = s[m].how
                                    /\ r[m].caller = s[m].caller /\ r[m].on = s[m].on
                                    /\ r[m].guards = s[m].guards
    /\ r[n].handler \in Handlers
    /\ r[n].handler # "none" => s[n].handler # "none"
    /\ s[n].handler \in {"ran", "gone"} => r[n].handler \in {"ran", "gone"}
    /\ r[n].handler \in Holding => s[n].handler \in Holding
    /\ r[n].how = "dropped" => r[n].handler \in {"dropped", "gone"}
    /\ r[n].handler = "dropped" => r[n].how = "dropped"
    /\ r[n].caller \in {"worker", "outside"} /\ r[n].on \in {"worker", "outside"}
    /\ r[n].guards \subseteq {"caller", "closure"}

LEMMA PhaseKeepsOwnership ==
    ASSUME NEW D, NEW s, NEW md, NEW ii, Ownership(D, s, md, ii),
           NEW n, NEW r, PhaseChanges(D, s, n, r)
    PROVE  Ownership(D, r, md, ii)
<1> USE DEF PhaseChanges
<1>1. IsProgram(D) /\ md \in 0 .. Len(D) /\ ii \in Nat /\ DOMAIN s = DOMAIN D
  BY DEF Ownership, Types
<1>2. DOMAIN r = DOMAIN D /\ \A m \in DOMAIN D :
        /\ DOMAIN r[m] = Fields
        /\ r[m].local = s[m].local /\ r[m].alias = s[m].alias /\ r[m].executor = s[m].executor
        /\ r[m].result = s[m].result /\ r[m].ctx = s[m].ctx /\ r[m].twice = s[m].twice
        /\ r[m].to = s[m].to /\ r[m].slot = s[m].slot /\ r[m].forwards = s[m].forwards
  BY <1>1, AgreeFacts, SMTT(30)
<1>3. \A m \in DOMAIN D : /\ s[m].handler \in {"ran", "gone"} => r[m].handler \in {"ran", "gone"}
                          /\ r[m].handler \in Holding => s[m].handler \in Holding
                          /\ r[m].handler # "none" => s[m].handler # "none"
  OBVIOUS
<1>4. Types(D, r)
  <2>1. Types(D, s)
    BY DEF Ownership
  <2>2. \A m \in DOMAIN D : /\ r[m].caller \in {"worker", "outside"}
                             /\ r[m].on \in {"worker", "outside"}
                             /\ r[m].guards \subseteq {"caller", "closure"}
                             /\ r[m].handler \in Handlers
    BY <2>1 DEF Types
  <2> QED
    BY <1>2, <2>1, <2>2 DEF Types
<1>5. Unmade(D, r, md, ii)
  <2>1. \A m \in DOMAIN D : s[m].handler = "none" => r[m].handler = "none"
    BY <1>3
  <2> QED
    BY <1>2, <2>1 DEF Ownership, Unmade
<1>6. LoopOf(D, r, md, ii)
  BY <1>1, <1>2 DEF Ownership, LoopOf
<1>7. Aliases(D, r, md)
  BY <1>1, <1>2, SameAliases DEF Ownership
<1>8. Links(D, r, md, ii)
  BY <1>1, <1>2, <1>3, SameLinks DEF Ownership
<1>9. Promises(D, r)
  <2>1. \A m \in DOMAIN D : Holds(r, m) => Holds(s, m)
    BY <1>2, <1>3 DEF Holds
  <2>2. \A m \in DOMAIN D : Holds(s, m) => s[m].to \in DOMAIN D
    BY HolderLink
  <2> QED
    BY <1>2, <2>1, <2>2 DEF Ownership, Promises
<1>10. Hows(D, r)
  BY <1>1, <1>2 DEF Ownership, Hows
<1> QED
  BY <1>1, <1>4, <1>5, <1>6, <1>7, <1>8, <1>9, <1>10 DEF Ownership

\* The context of the CollectAll that Main is in, or of one that is made, changes hands.
ContextChanges(D, s, md, ii, k, r, jj) ==
    /\ k \in DOMAIN D /\ Agree(s, r, {"ctx", "results"}) /\ jj \in Nat /\ ii <= jj
    /\ \A m \in DOMAIN D : m # k => r[m].ctx = s[m].ctx
    /\ r[k].ctx \subseteq 0 .. Len(D[k].from)
    /\ r[k].ctx # {} =>
          /\ D[k].kind = "collect" /\ s[k].result = Nothing /\ s[k].local = FALSE
          /\ k <= md \/ (k = md + 1 /\ jj > 0)
    /\ LoopOf(D, r, md, jj)

LEMMA ContextKeepsOwnership ==
    ASSUME NEW D, NEW s, NEW md, NEW ii, Ownership(D, s, md, ii),
           NEW k, NEW r, NEW jj, ContextChanges(D, s, md, ii, k, r, jj)
    PROVE  Ownership(D, r, md, jj)
<1> USE DEF ContextChanges
<1>1. IsProgram(D) /\ md \in 0 .. Len(D) /\ ii \in Nat /\ DOMAIN s = DOMAIN D
  BY DEF Ownership, Types
<1>2. DOMAIN r = DOMAIN D /\ \A m \in DOMAIN D :
        /\ DOMAIN r[m] = Fields
        /\ r[m].local = s[m].local /\ r[m].alias = s[m].alias /\ r[m].executor = s[m].executor
        /\ r[m].result = s[m].result /\ r[m].twice = s[m].twice
        /\ r[m].to = s[m].to /\ r[m].slot = s[m].slot /\ r[m].forwards = s[m].forwards
        /\ r[m].handler = s[m].handler /\ r[m].how = s[m].how
        /\ r[m].caller = s[m].caller /\ r[m].on = s[m].on /\ r[m].guards = s[m].guards
  BY <1>1, AgreeFacts, SMTT(30)
<1>3. ASSUME NEW m \in DOMAIN D, r[m].ctx # {}
      PROVE  /\ D[m].kind = "collect" /\ s[m].result = Nothing /\ s[m].local = FALSE
             /\ m > md => m = md + 1 /\ jj > 0
  <2>1. CASE m = k
    BY <1>1, <1>3, <2>1, ProgramShape
  <2>2. CASE m # k
    <3>1. s[m].ctx # {}
      BY <1>3, <2>2
    <3>2. m > md => m = md + 1 /\ jj > 0
      BY <1>1, <3>1 DEF Ownership, Unmade
    <3> QED
      BY <3>1, <3>2 DEF Ownership, Promises
  <2> QED
    BY <2>1, <2>2
<1>4. Types(D, r)
  <2>1. Types(D, s)
    BY DEF Ownership
  <2>2. \A m \in DOMAIN D : r[m].ctx \subseteq 0 .. Len(D[m].from)
    BY <2>1 DEF Types
  <2> QED
    BY <1>2, <2>1, <2>2 DEF Types
<1>5. Unmade(D, r, md, jj)
  BY <1>2, <1>3 DEF Ownership, Unmade
<1>6. Aliases(D, r, md)
  BY <1>1, <1>2, SameAliases DEF Ownership
<1>7. Links(D, r, md, jj)
  BY <1>1, <1>2, SameLinks DEF Ownership
<1>8. Promises(D, r)
  <2>1. \A m \in DOMAIN D : Holds(r, m) => Holds(s, m)
    BY <1>2 DEF Holds
  <2>2. \A m \in DOMAIN D : Holds(s, m) => s[m].to \in DOMAIN D
    BY HolderLink
  <2> QED
    BY <1>2, <1>3, <2>1, <2>2 DEF Ownership, Promises
<1>9. Hows(D, r)
  BY <1>1, <1>2 DEF Ownership, Hows
<1> QED
  BY <1>1, <1>4, <1>5, <1>6, <1>7, <1>8, <1>9 DEF Ownership

LEMMA ReleaseKeepsOwnership ==
    ASSUME NEW D, NEW s, NEW md, NEW ii, Ownership(D, s, md, ii),
           NEW k \in DOMAIN D, NEW owner, k <= md \/ owner # 0, D[k].kind = "collect",
           NEW th \in {"worker", "outside"}, NEW r, r = Release(s, k, owner, th)
    PROVE  Ownership(D, r, md, ii)
<1>1. IsProgram(D) /\ md \in 0 .. Len(D) /\ ii \in Nat /\ DOMAIN s = DOMAIN D
      /\ \A m \in DOMAIN s : DOMAIN s[m] = Fields
  BY DEF Ownership, Types
<1>2. ASSUME NEW q, q = [s EXCEPT ![k].ctx = s[k].ctx \ {owner}]
      PROVE  Ownership(D, q, md, ii)
  <2>1. /\ Agree(s, q, {"ctx"}) /\ Agree(s, q, {"ctx", "results"})
        /\ \A m \in DOMAIN D : m # k => q[m] = s[m]
        /\ q[k].ctx = s[k].ctx \ {owner}
    BY <1>1, <1>2 DEF Agree, Fields, Blank
  <2>2. LoopOf(D, q, md, ii)
    <3>1. ii > 0 /\ k = md + 1 => owner # 0
      BY <1>1
    <3> QED
      BY <1>1, <2>1, <3>1 DEF Ownership, LoopOf
  <2>3. q[k].ctx \subseteq 0 .. Len(D[k].from)
    BY <2>1 DEF Ownership, Types
  <2>4. q[k].ctx # {} => /\ D[k].kind = "collect" /\ s[k].result = Nothing /\ s[k].local = FALSE
                         /\ k <= md \/ (k = md + 1 /\ ii > 0)
    <3>1. q[k].ctx # {} => s[k].ctx # {}
      BY <2>1
    <3>2. s[k].ctx # {} => k <= md \/ (k = md + 1 /\ ii > 0)
      BY <1>1, ProgramShape DEF Ownership, Unmade
    <3> QED
      BY <3>1, <3>2 DEF Ownership, Promises
  <2> QED
    <3>1. ii <= ii /\ \A m \in DOMAIN D : m # k => q[m].ctx = s[m].ctx
      BY <1>1, <2>1
    <3> QED
      BY <1>1, <2>1, <2>2, <2>3, <2>4, <3>1, ContextKeepsOwnership DEF ContextChanges
<1>3. CASE s[k].ctx = {owner}
  <2> DEFINE q == [s EXCEPT ![k].ctx = s[k].ctx \ {owner}]
  <2> HIDE DEF q
  <2>1. q = [s EXCEPT ![k].ctx = {}]
    BY <1>3 DEF q
  <2>2. Ownership(D, q, md, ii)
    BY <1>2 DEF q
  <2>3. q[k].ctx = {} /\ q[k].result = s[k].result
    BY <1>1, <2>1 DEF Fields, Blank
  <2>4. s[k].result = Nothing
    BY <1>3 DEF Ownership, Promises
  <2>5. \A n \in DOMAIN D : Holds(q, n) => q[n].to # k
    BY <2>2, HolderLink
  <2>6. k \in 1 .. md
    <3>1. ASSUME k > md
          PROVE  0 \in s[k].ctx
      <4>1. s[k].ctx # {}
        BY <1>3
      <4>2. k = md + 1 /\ ii > 0
        BY <3>1, <4>1 DEF Ownership, Unmade
      <4> QED
        BY <4>2 DEF Ownership, LoopOf
    <3> QED
      BY <1>1, <1>3, <3>1, ProgramShape
  <2>7. r = SetResult(q, k, Value(k, s[k].results), th)
    BY <1>3, <2>1 DEF Release
  <2> QED
    BY <2>2, <2>3, <2>4, <2>5, <2>6, <2>7, FulfilKeepsOwnership
<1>4. CASE s[k].ctx # {owner}
  BY <1>2, <1>4 DEF Release
<1> QED
  BY <1>3, <1>4

\* Main has made one more future, which stands for itself or for the one that the
\* callback of a Then on a LocalState returned.
LEMMA MakeKeepsOwnership ==
    ASSUME NEW D, NEW s, NEW md, Ownership(D, s, md, 0), NEW k \in DOMAIN D, k = md + 1,
           NEW r, Agree(s, r, {"local", "alias", "executor", "result"}),
           \A m \in DOMAIN D : m # k => /\ r[m].local = s[m].local /\ r[m].alias = s[m].alias
                                        /\ r[m].result = s[m].result,
           \A m \in DOMAIN D : m # k => r[m].executor \in {"none", "ex"},
           r[k].local \in BOOLEAN, r[k].executor \in {"none", "ex"},
           \/ r[k].alias = k
           \/ D[k].kind = "then" /\ D[k].inner # 0 /\ r[k].alias = s[D[k].inner].alias
    PROVE  Ownership(D, r, k, 0)
<1>1. IsProgram(D) /\ md \in 0 .. Len(D) /\ DOMAIN s = DOMAIN D /\ Types(D, s)
      /\ k \in 1 .. Len(D) /\ DOMAIN D = 1 .. Len(D) /\ Len(D) \in Nat
  BY ProgramShape DEF Ownership, Types
<1>2. DOMAIN r = DOMAIN D /\ \A m \in DOMAIN D :
        /\ DOMAIN r[m] = Fields
        /\ r[m].twice = s[m].twice /\ r[m].ctx = s[m].ctx
        /\ r[m].to = s[m].to /\ r[m].slot = s[m].slot /\ r[m].forwards = s[m].forwards
        /\ r[m].handler = s[m].handler /\ r[m].how = s[m].how
        /\ r[m].caller = s[m].caller /\ r[m].on = s[m].on /\ r[m].guards = s[m].guards
  BY <1>1, AgreeFacts
<1>3. r[k].alias # k =>
        /\ D[k].kind = "then" /\ D[k].inner # 0 /\ D[k].inner \in DOMAIN D
        /\ D[k].inner < k /\ D[k].inner <= md
        /\ r[k].alias = s[D[k].inner].alias
        /\ r[k].alias \in 1 .. D[k].inner /\ r[k].alias \in DOMAIN D /\ r[k].alias < k
  <2> HAVE r[k].alias # k
  <2>1. D[k].kind = "then" /\ D[k].inner # 0 /\ r[k].alias = s[D[k].inner].alias
    OBVIOUS
  <2>2. D[k].inner \in DOMAIN D /\ D[k].inner \in 0 .. k - 1
    BY <1>1, <2>1, ProgramShape
  <2>3. s[D[k].inner].alias \in 1 .. D[k].inner
    BY <1>1, <2>2 DEF Types
  <2> QED
    BY <1>1, <2>1, <2>2, <2>3
<1>4. Types(D, r)
  <2>1. r[k].alias \in 1 .. k
    BY <1>1, <1>3
  <2> QED
    BY <1>1, <1>2, <2>1 DEF Types
<1>5. Unmade(D, r, k, 0)
  <2>1. \A m \in DOMAIN D : m > k => m # k /\ m > md
    BY <1>1
  <2>2. \A m \in DOMAIN D : m > md => s[m].ctx = {}
    BY DEF Ownership, Unmade
  <2> QED
    BY <1>1, <1>2, <2>1, <2>2 DEF Ownership, Unmade
<1>6. LoopOf(D, r, k, 0)
  BY DEF LoopOf
<1>7. Aliases(D, r, k)
  <2>0. /\ Aliases(D, s, md)
        /\ \A x \in DOMAIN D : s[x].alias \in 1 .. x /\ s[x].alias \in DOMAIN D
        /\ \A x \in DOMAIN D : s[s[x].alias].alias = s[x].alias
    <3>1. \A x \in DOMAIN D : s[x].alias \in 1 .. x /\ s[x].alias \in DOMAIN D
      BY <1>1 DEF Types
    <3>2. \A x \in DOMAIN D : s[s[x].alias].alias = s[x].alias
      BY DEF Ownership, Aliases
    <3> QED
      BY <3>1, <3>2 DEF Ownership
  <2>1. ASSUME NEW x \in DOMAIN D, r[x].alias # x
        PROVE  /\ D[x].kind = "then" /\ D[x].inner # 0
               /\ r[x].alias = r[D[x].inner].alias /\ r[r[x].alias].alias = r[x].alias
    <3>1. CASE x = k
      <4>1. r[k].alias # k /\ D[k].inner # k /\ r[k].alias # k
        BY <1>1, <1>3, <2>1, <3>1
      <4>2. r[D[k].inner].alias = s[D[k].inner].alias
        BY <1>3, <4>1
      <4>3. r[r[k].alias].alias = s[r[k].alias].alias
        BY <1>3, <4>1
      <4> QED
        BY <1>3, <2>0, <3>1, <4>1, <4>2, <4>3
    <3>2. CASE x # k
      <4>1. /\ D[x].kind = "then" /\ D[x].inner # 0 /\ s[x].alias # x
            /\ s[x].alias = s[D[x].inner].alias /\ s[s[x].alias].alias = s[x].alias
        BY <2>0, <2>1, <3>2 DEF Aliases
      <4>2. x <= md
        BY <1>1, <4>1 DEF Ownership, Unmade
      <4>3. D[x].inner \in DOMAIN D /\ D[x].inner # k /\ s[x].alias # k
        BY <1>1, <2>0, <4>1, <4>2, ProgramShape DEF Ownership
      <4> QED
        BY <2>0, <3>2, <4>1, <4>3
    <3> QED
      BY <3>1, <3>2
  <2>2. ASSUME NEW x \in DOMAIN D, NEW y \in DOMAIN D, x < y, y <= k, r[x].alias = r[y].alias
        PROVE  \E z \in 1 .. k : r[z].alias # z /\ D[z].inner = x
    <3>0. x # k /\ r[x].alias = s[x].alias /\ x <= md
      BY <1>1, <2>2
    <3>1. CASE y # k
      <4>1. y <= md /\ s[x].alias = s[y].alias
        <5>1. r[y].alias = s[y].alias
          BY <3>1
        <5>2. y <= md
          BY <1>1, <2>2, <3>1
        <5> QED
          BY <2>2, <3>0, <5>1, <5>2
      <4>2. PICK z \in 1 .. md : s[z].alias # z /\ D[z].inner = x
        BY <2>0, <2>2, <4>1 DEF Aliases
      <4>3. z \in DOMAIN D /\ z # k /\ z \in 1 .. k
        BY <1>1
      <4> QED
        BY <4>2, <4>3
    <3>2. CASE y = k
      <4>1. r[k].alias # k
        <5>1. s[x].alias \in 1 .. x /\ r[k].alias = s[x].alias
          BY <2>0, <2>2, <3>0, <3>2
        <5> QED
          BY <1>1, <2>2, <3>0, <5>1
      <4> DEFINE b == D[k].inner
      <4>2. b \in DOMAIN D /\ b <= md /\ b # 0 /\ s[x].alias = s[b].alias
        BY <1>3, <2>2, <3>0, <3>2, <4>1
      <4>3. CASE x = b
        BY <1>1, <4>1, <4>3
      <4>4. CASE x < b
        <5>1. PICK z \in 1 .. md : s[z].alias # z /\ D[z].inner = x
          BY <2>0, <4>2, <4>4 DEF Aliases
        <5>2. z \in DOMAIN D /\ z # k /\ z \in 1 .. k
          BY <1>1
        <5> QED
          BY <5>1, <5>2
      <4>5. CASE b < x
        <5>1. PICK z \in 1 .. md : s[z].alias # z /\ D[z].inner = b
          BY <2>0, <3>0, <4>2, <4>5 DEF Aliases
        <5>2. z \in DOMAIN D /\ z # k
          BY <1>1
        <5> QED
          BY <1>1, <4>2, <5>1, <5>2 DEF IsProgram
      <4> QED
        BY <1>1, <4>2, <4>3, <4>4, <4>5
    <3> QED
      BY <3>1, <3>2
  <2> QED
    BY <2>1, <2>2 DEF Aliases
<1>8. Links(D, r, k, 0)
  <2> SUFFICES ASSUME NEW n \in DOMAIN D, n <= md, NEW h, NEW slot, NEW forwards,
                      Link(D, s, md, 0, n, h, slot, forwards)
               PROVE  n <= k /\ Link(D, r, k, 0, n, h, slot, forwards)
    BY <1>2 DEF Ownership, Links
  <2>2. \A x \in DOMAIN D : x < k => /\ r[x].alias = s[x].alias /\ r[x].local = s[x].local
                                       /\ s[x].alias \in DOMAIN D
    BY <1>1 DEF Types
  <2>3. n <= k /\ \A x \in 1 .. md : x \in 1 .. k /\ x \in DOMAIN D /\ x < k
    BY <1>1
  <2>4. CASE ThenLink(D, s, md, n, h, slot, forwards)
    <3>1. h \in DOMAIN D /\ h < k /\ D[h].kind = "then" /\ h \in 1 .. k
      BY <2>3, <2>4 DEF ThenLink
    <3>2. D[h].from[1] \in DOMAIN D /\ D[h].from[1] < k
      BY <1>1, <3>1, ProgramShape
    <3> QED
      BY <2>2, <2>3, <2>4, <3>1, <3>2 DEF ThenLink, Link
  <2>5. CASE CollectLink(D, s, md, 0, n, h, slot, forwards)
    <3>1. h \in DOMAIN D /\ slot \in DOMAIN D[h].from /\ slot \in Nat \ {0}
      BY <1>1, <2>5, ProgramShape DEF CollectLink
    <3>2. h <= md /\ h < k /\ h <= k
      BY <1>1, <2>5, <3>1 DEF CollectLink
    <3>3. D[h].from[slot] \in DOMAIN D /\ D[h].from[slot] \in 1 .. h - 1
      BY <1>1, <3>1, ProgramShape
    <3>4. D[h].from[slot] < k
      BY <1>1, <3>1, <3>2, <3>3
    <3> QED
      BY <2>2, <2>3, <2>5, <3>1, <3>2, <3>3, <3>4 DEF CollectLink, Link
  <2>6. CASE ForwardLink(D, s, md, n, h, slot, forwards)
    <3>1. h \in DOMAIN D /\ h < k /\ D[h].kind = "then" /\ h \in 1 .. k /\ D[h].inner # 0
      BY <2>3, <2>6 DEF ForwardLink
    <3>2. /\ D[h].from[1] \in DOMAIN D /\ D[h].from[1] < k
          /\ D[h].inner \in DOMAIN D /\ D[h].inner < k
      <4>1. /\ D[h].from[1] \in DOMAIN D /\ D[h].from[1] \in 1 .. h - 1
            /\ D[h].inner \in DOMAIN D /\ D[h].inner \in 0 .. h - 1
        BY <1>1, <3>1, ProgramShape
      <4> QED
        BY <1>1, <3>1, <4>1
    <3>3. /\ r[D[h].from[1]].alias = s[D[h].from[1]].alias /\ s[D[h].from[1]].alias \in DOMAIN D
          /\ r[D[h].inner].alias = s[D[h].inner].alias
      BY <2>2, <3>2
    <3>4. r[r[D[h].from[1]].alias].handler \in {"ran", "gone"}
      BY <1>2, <2>6, <3>3 DEF ForwardLink
    <3>5. /\ r[h].alias = h /\ r[h].local = FALSE /\ r[D[h].inner].alias = n
          /\ slot = 0 /\ forwards = TRUE
      BY <2>2, <2>6, <3>1, <3>3 DEF ForwardLink
    <3> QED
      BY <2>3, <3>1, <3>4, <3>5, Zenon DEF ForwardLink, Link
  <2> QED
    BY <2>3, <2>4, <2>5, <2>6 DEF Link
<1>9. Promises(D, r)
  <2>1. \A m \in DOMAIN D : Holds(r, m) => Holds(s, m)
    BY <1>2 DEF Holds
  <2>2. \A m \in DOMAIN D : Holds(s, m) => s[m].to \in DOMAIN D /\ s[m].to # k
    BY <1>1, HolderLink
  <2>3. s[k].ctx = {}
    BY <1>1 DEF Ownership, Unmade
  <2> QED
    BY <1>2, <2>1, <2>2, <2>3 DEF Ownership, Promises
<1>10. Hows(D, r)
  BY <1>1, <1>2 DEF Ownership, Hows
<1> QED
  BY <1>1, <1>4, <1>5, <1>6, <1>7, <1>8, <1>9, <1>10 DEF Ownership

\* CollectAll returns: its context is only shared with the closures now.
LEMMA ReturnKeepsOwnership ==
    ASSUME NEW D, NEW s, NEW md, NEW ii, Ownership(D, s, md, ii),
           NEW k \in DOMAIN D, k = md + 1, ii > 0, ii = Len(D[k].from) + 1,
           NEW th \in {"worker", "outside"}, NEW r, r = Release(s, k, 0, th)
    PROVE  Ownership(D, r, k, 0)
<1> DEFINE q == [s EXCEPT ![k].ctx = s[k].ctx \ {0}]
<1> HIDE DEF q
<1>1. IsProgram(D) /\ md \in 0 .. Len(D) /\ ii \in Nat /\ DOMAIN s = DOMAIN D
      /\ (\A m \in DOMAIN s : DOMAIN s[m] = Fields) /\ Types(D, s)
      /\ k \in 1 .. Len(D) /\ DOMAIN D = 1 .. Len(D) /\ Len(D) \in Nat /\ k \in Nat
  BY ProgramShape DEF Ownership, Types
<1>2. /\ Agree(s, q, {"ctx"}) /\ \A m \in DOMAIN D : m # k => q[m].ctx = s[m].ctx
      /\ q[k].ctx = s[k].ctx \ {0}
  BY <1>1 DEF q, Agree, Fields, Blank
<1>3. DOMAIN q = DOMAIN D /\ \A m \in DOMAIN D :
        /\ DOMAIN q[m] = Fields
        /\ q[m].local = s[m].local /\ q[m].alias = s[m].alias /\ q[m].executor = s[m].executor
        /\ q[m].result = s[m].result /\ q[m].twice = s[m].twice
        /\ q[m].to = s[m].to /\ q[m].slot = s[m].slot /\ q[m].forwards = s[m].forwards
        /\ q[m].handler = s[m].handler /\ q[m].how = s[m].how
        /\ q[m].caller = s[m].caller /\ q[m].on = s[m].on /\ q[m].guards = s[m].guards
  BY <1>1, <1>2, AgreeFacts
<1>4. \A m \in DOMAIN D : q[m].ctx # {} => s[m].ctx # {}
  BY <1>2
<1>5. D[k].kind = "collect" /\ s[k].ctx # {} /\ s[k].result = Nothing
  BY DEF Ownership, LoopOf, Promises
<1>6. \A m \in DOMAIN D : m > k => m > md /\ m # md + 1
  BY <1>1
<1>7. Ownership(D, q, k, 0)
  <2>1. Types(D, q)
    <3>1. \A m \in DOMAIN D : q[m].ctx \subseteq 0 .. Len(D[m].from)
      BY <1>1, <1>2 DEF Types
    <3> QED
      BY <1>1, <1>3, <3>1 DEF Types
  <2>2. Unmade(D, q, k, 0)
    BY <1>3, <1>4, <1>6 DEF Ownership, Unmade
  <2>3. LoopOf(D, q, k, 0)
    BY DEF LoopOf
  <2>4. Aliases(D, s, k)
    <3>1. \A x \in DOMAIN D : s[x].alias \in 1 .. x
      BY <1>1 DEF Types
    <3>2. s[k].alias = k
      BY <1>1 DEF Ownership, Unmade
    <3>3. ASSUME NEW x \in DOMAIN D, NEW y \in DOMAIN D, x < y, y <= k, s[x].alias = s[y].alias
          PROVE  \E z \in 1 .. k : s[z].alias # z /\ D[z].inner = x
      <4>1. y # k
        BY <1>1, <3>1, <3>2, <3>3
      <4>2. y <= md
        BY <1>1, <3>3, <4>1, SMT
      <4>3. PICK z \in 1 .. md : s[z].alias # z /\ D[z].inner = x
        BY <3>3, <4>2 DEF Ownership, Aliases
      <4> QED
        BY <1>1, <4>3
    <3> QED
      BY <3>3 DEF Ownership, Aliases
  <2>5. Aliases(D, q, k)
    BY <1>1, <1>3, <2>4, SameAliases
  <2>6. Links(D, s, k, 0)
    <3> SUFFICES ASSUME NEW n \in DOMAIN D, n <= md, NEW h, NEW slot, NEW forwards,
                        Link(D, s, md, ii, n, h, slot, forwards)
                 PROVE  n <= k /\ Link(D, s, k, 0, n, h, slot, forwards)
      BY DEF Ownership, Links
    <3>1. n <= k /\ \A x \in 1 .. md : x \in 1 .. k
      BY <1>1
    <3>2. ThenLink(D, s, md, n, h, slot, forwards) => ThenLink(D, s, k, n, h, slot, forwards)
      BY <3>1 DEF ThenLink
    <3>3. ForwardLink(D, s, md, n, h, slot, forwards) => ForwardLink(D, s, k, n, h, slot, forwards)
      BY <3>1, Zenon DEF ForwardLink
    <3>4. CollectLink(D, s, md, ii, n, h, slot, forwards) =>
            CollectLink(D, s, k, 0, n, h, slot, forwards)
      BY <1>1 DEF CollectLink
    <3> QED
      BY <3>1, <3>2, <3>3, <3>4 DEF Link
  <2>7. Links(D, q, k, 0)
    <3>1. k \in 0 .. Len(D) /\ 0 <= 0
      BY <1>1
    <3> QED
      BY <1>1, <1>3, <2>6, <3>1, SameLinks
  <2>8. Promises(D, q)
    <3>1. \A m \in DOMAIN D : Holds(q, m) => Holds(s, m)
      BY <1>3 DEF Holds
    <3>2. \A m \in DOMAIN D : Holds(s, m) => s[m].to \in DOMAIN D
      BY HolderLink
    <3> QED
      BY <1>3, <1>4, <3>1, <3>2 DEF Ownership, Promises
  <2>9. Hows(D, q)
    BY <1>3 DEF Ownership, Hows
  <2> QED
    BY <1>1, <2>1, <2>2, <2>3, <2>5, <2>7, <2>8, <2>9 DEF Ownership
<1>8. CASE s[k].ctx = {0}
  <2>1. q[k].ctx = {}
    BY <1>2, <1>8
  <2>2. \A n \in DOMAIN D : Holds(q, n) => q[n].to # k
    BY <1>5, <1>7, HolderLink
  <2>3. r = SetResult(q, k, Value(k, s[k].results), th)
    BY <1>8 DEF Release, q
  <2>4. k \in 1 .. k /\ q[k].result = Nothing
    BY <1>1, <1>3, <1>5
  <2> QED
    BY <1>7, <2>1, <2>2, <2>3, <2>4, FulfilKeepsOwnership
<1>9. CASE s[k].ctx # {0}
  BY <1>7, <1>9 DEF Release, q
<1> QED
  BY <1>8, <1>9

-----------------------------------------------------------------------------
(* Whose continuation a state has: that of the one future that was made from *)
(* it, if it was.                                                            *)
LEMMA ContinuationOfUser ==
    ASSUME NEW D, NEW s, NEW md, NEW ii, Ownership(D, s, md, ii),
           NEW k \in DOMAIN D, NEW x \in 1 .. md,
           Uses(D, s, k, x),
           NEW n, n = s[x].alias, s[n].handler # "none"
    PROVE  /\ n \in DOMAIN D /\ s[n].to = k
           /\ \/ /\ ThenLink(D, s, md, n, k, s[n].slot, s[n].forwards)
                 /\ D[k].from[1] = x
              \/ /\ CollectLink(D, s, md, ii, n, k, s[n].slot, s[n].forwards)
                 /\ D[k].from[s[n].slot] = x
              \/ /\ ForwardLink(D, s, md, n, k, s[n].slot, s[n].forwards)
                 /\ D[k].inner = x
<1> SUFFICES ASSUME NEW h, h = s[n].to, NEW slot, slot = s[n].slot
             PROVE  /\ n \in DOMAIN D /\ h = k
                    /\ \/ ThenLink(D, s, md, n, h, slot, s[n].forwards) /\ D[h].from[1] = x
                       \/ CollectLink(D, s, md, ii, n, h, slot, s[n].forwards) /\ D[h].from[slot] = x
                       \/ ForwardLink(D, s, md, n, h, slot, s[n].forwards) /\ D[h].inner = x
  OBVIOUS
<1>0. IsProgram(D) /\ md \in 0 .. Len(D) /\ ii \in Nat /\ Types(D, s) /\ Aliases(D, s, md)
  BY DEF Ownership
<1>1. IsProgram(D) /\ md \in 0 .. Len(D) /\ Aliases(D, s, md)
      /\ md \in Nat /\ Len(D) \in Nat /\ DOMAIN D = 1 .. Len(D)
  BY <1>0, ProgramShape
<1>2. x \in DOMAIN D /\ n \in DOMAIN D
  BY <1>0, <1>1, ProgramShape DEF Types
<1>3. Link(D, s, md, ii, n, h, slot, s[n].forwards)
  BY <1>2 DEF Ownership, Links
<1>4. CASE ThenLink(D, s, md, n, h, slot, s[n].forwards)
  <2>1. h \in DOMAIN D /\ D[h].kind = "then" /\ h <= md
    BY <1>1, <1>4 DEF ThenLink
  <2>2. D[h].from[1] \in 1 .. h - 1 /\ 1 \in DOMAIN D[h].from
    <3>1. DOMAIN D[h].from = {1}
      BY <1>1, <2>1 DEF IsProgram
    <3>2. 1 \in DOMAIN D[h].from
      BY <3>1
    <3> QED
      BY <1>1, <2>1, <3>2, ProgramShape
  <2>3. D[h].from[1] \in 1 .. md
    BY <1>1, <2>1, <2>2
  <2>4. s[D[h].from[1]].alias = s[x].alias
    BY <1>4 DEF ThenLink
  <2>5. Uses(D, s, h, D[h].from[1])
    BY <2>2, Zenon DEF Uses
  <2>6. D[h].from[1] = x /\ h = k
    <3>1. PICK y : y = D[h].from[1]
      OBVIOUS
    <3>2. y \in 1 .. md /\ s[y].alias = s[x].alias /\ Uses(D, s, h, y) /\ h \in DOMAIN D
      BY <2>1, <2>3, <2>4, <2>5, <3>1, Zenon
    <3>3. y = x /\ h = k
      BY <1>1, <3>2, UsersDiffer, ZenonT(60)
    <3> QED
      BY <3>1, <3>3, Zenon
  <2> QED
    BY <1>2, <1>4, <2>6, SMTT(30)
<1>5. CASE CollectLink(D, s, md, ii, n, h, slot, s[n].forwards)
  <2>0. h \in DOMAIN D /\ slot \in DOMAIN D[h].from /\ (h <= md \/ h = md + 1)
    BY <1>5, Zenon DEF CollectLink
  <2>1. h \in DOMAIN D /\ slot \in DOMAIN D[h].from /\ h <= md + 1
    BY <1>1, <2>0
  <2>2. D[h].from[slot] \in 1 .. h - 1
    BY <1>1, <2>1, ProgramShape
  <2>3. D[h].from[slot] \in 1 .. md
    <3>1. h \in Nat /\ h <= md + 1 /\ md \in Nat
      BY <1>1, <2>1
    <3>2. \A y : y \in 1 .. h - 1 => y \in 1 .. md
      BY <3>1
    <3> QED
      BY <2>2, <3>2, Zenon
  <2>4. s[D[h].from[slot]].alias = s[x].alias
    BY <1>5 DEF CollectLink
  <2>5. Uses(D, s, h, D[h].from[slot])
    BY <2>1 DEF Uses
  <2>6. D[h].from[slot] = x /\ h = k
    <3>1. PICK y : y = D[h].from[slot]
      OBVIOUS
    <3>2. y \in 1 .. md /\ s[y].alias = s[x].alias /\ Uses(D, s, h, y) /\ h \in DOMAIN D
      BY <2>1, <2>3, <2>4, <2>5, <3>1, Zenon
    <3>3. y = x /\ h = k
      BY <1>1, <3>2, UsersDiffer, ZenonT(60)
    <3> QED
      BY <3>1, <3>3, Zenon
  <2> QED
    BY <1>2, <1>5, <2>6
<1>6. CASE ForwardLink(D, s, md, n, h, slot, s[n].forwards)
  <2>0. h \in 1 .. md /\ D[h].inner # 0 /\ s[h].alias = h
    BY <1>6, Zenon DEF ForwardLink
  <2>1. h \in DOMAIN D /\ h <= md /\ D[h].inner # 0 /\ s[h].alias = h
    BY <1>1, <2>0
  <2>2. D[h].inner \in 0 .. h - 1
    BY <1>1, <2>1, ProgramShape
  <2>3. D[h].inner \in 1 .. md
    BY <1>1, <2>1, <2>2
  <2>4. s[D[h].inner].alias = s[x].alias
    BY <1>6, Zenon DEF ForwardLink
  <2>5. Uses(D, s, h, D[h].inner)
    BY <2>1 DEF Uses
  <2>6. D[h].inner = x /\ h = k
    <3>1. PICK y : y = D[h].inner
      OBVIOUS
    <3>2. y \in 1 .. md /\ s[y].alias = s[x].alias /\ Uses(D, s, h, y) /\ h \in DOMAIN D
      BY <2>1, <2>3, <2>4, <2>5, <3>1, Zenon
    <3>3. y = x /\ h = k
      BY <1>1, <3>2, UsersDiffer, ZenonT(60)
    <3> QED
      BY <3>1, <3>3, Zenon
  <2> QED
    BY <1>2, <1>6, <2>6
<1> QED
  BY <1>3, <1>4, <1>5, <1>6 DEF Link

-----------------------------------------------------------------------------
(* The invariant holds at first, and every step keeps it.                   *)
LEMMA InitOwnership == ASSUME Init PROVE OwnershipInv
<1> DEFINE D == program.nodes
<1>1. IsProgram(D) /\ Len(D) \in Nat /\ DOMAIN D = 1 .. Len(D)
  BY ProgramFacts, ProgramShape DEF Init
<1>2. DOMAIN f = DOMAIN D /\ \A k \in DOMAIN D :
        /\ DOMAIN f[k] = Fields
        /\ f[k].local = FALSE /\ f[k].alias = k /\ f[k].executor = "none" /\ f[k].result = Nothing
        /\ f[k].handler = "none" /\ f[k].how = "none" /\ f[k].caller = "outside"
        /\ f[k].on = "outside" /\ f[k].guards = {} /\ f[k].ctx = {} /\ f[k].twice = FALSE
  BY DEF Init, Nodes, Blank, Fields
<1>3. Types(D, f)
  <2>1. \A k \in DOMAIN D : k \in 1 .. k
    BY <1>1
  <2> QED
    BY <1>2, <2>1 DEF Types, Handlers
<1>4. Unmade(D, f, 0, 0) /\ LoopOf(D, f, 0, 0) /\ Links(D, f, 0, 0) /\ Hows(D, f)
  BY <1>2 DEF Unmade, LoopOf, Links, Hows
<1>5. Aliases(D, f, 0)
  BY <1>1, <1>2 DEF Aliases
<1>6. Promises(D, f)
  BY <1>2 DEF Promises, Holds, Holding
<1>7. Ownership(D, f, 0, 0)
  BY <1>1, <1>3, <1>4, <1>5, <1>6 DEF Ownership
<1> QED
  BY <1>7 DEF Init, OwnershipInv

LEMMA OwnershipNext ==
    ASSUME OwnershipInv, program' = program, Ownership(program.nodes, f', made', i'),
           checked' = FALSE \/ (checked' = TRUE /\ i' \in DOMAIN program.nodes[made' + 1].from)
    PROVE  OwnershipInv'
BY DEF OwnershipInv, Desc

LEMMA OwnershipFacts ==
    ASSUME OwnershipInv
    PROVE  LET D == program.nodes IN
           /\ Ownership(D, f, made, i) /\ IsProgram(D) /\ Nodes = DOMAIN D
           /\ made \in 0 .. Len(D) /\ i \in Nat /\ Len(D) \in Nat /\ DOMAIN D = 1 .. Len(D)
           /\ DOMAIN f = DOMAIN D /\ Types(D, f)
           /\ \A m \in DOMAIN D : DOMAIN f[m] = Fields
           /\ \A m \in DOMAIN D : Desc(m) = D[m]
           /\ \A m \in DOMAIN D : m > made => f[m].alias = m /\ f[m].handler = "none"
           /\ checked \in BOOLEAN
<1>1. Ownership(program.nodes, f, made, i) /\ checked \in BOOLEAN
  BY DEF OwnershipInv
<1>2. IsProgram(program.nodes) /\ Types(program.nodes, f) /\ made \in 0 .. Len(program.nodes)
      /\ i \in Nat /\ Unmade(program.nodes, f, made, i)
  BY <1>1 DEF Ownership
<1> QED
  BY <1>1, <1>2, ProgramShape DEF Nodes, Desc, Types, Unmade

LEMMA OwnershipKept ==
    ASSUME OwnershipInv, UNCHANGED <<program, made, i, checked>>,
           Ownership(program.nodes, f', made, i)
    PROVE  OwnershipInv'
<1>1. /\ program \in Programs /\ checked \in BOOLEAN
      /\ checked => i \in DOMAIN Desc(made + 1).from
  BY DEF OwnershipInv
<1>2. program' = program /\ made' = made /\ i' = i /\ checked' = checked
  OBVIOUS
<1> QED
  BY <1>1, <1>2 DEF OwnershipInv, Desc

\* Main makes a future when it is not in a CollectAll, or starts one.
LEMMA MakingFacts ==
    ASSUME OwnershipInv, NEW k \in Nodes, NEW kind, Making(k, kind), kind # "collect" \/ i = 0
    PROVE  /\ i = 0 /\ checked = FALSE /\ k = made + 1 /\ k \in DOMAIN program.nodes
           /\ program.nodes[k].kind = kind
           /\ Ownership(program.nodes, f, made, 0)
           /\ k <= made + 1 /\ Desc(k) = program.nodes[k]
           /\ f[k].alias = k /\ f[k].local = FALSE /\ f[k].result = Nothing
           /\ f[k].handler = "none" /\ f[k].ctx = {} /\ f[k].executor \in {"none", "ex"}
<1> DEFINE D == program.nodes
<1>1. k = made + 1 /\ k \in DOMAIN D /\ D[k].kind = kind
  BY DEF Making, Nodes, Desc
<1>2. i = 0
  <2>1. i > 0 => D[made + 1].kind = "collect"
    BY OwnershipFacts DEF Ownership, LoopOf
  <2>2. i \in Nat
    BY OwnershipFacts
  <2> QED
    BY <1>1, <2>1, <2>2
<1>3. checked = FALSE
  <2>1. 0 \notin DOMAIN D[k].from
    BY <1>1, OwnershipFacts, ProgramShape
  <2> QED
    BY <1>1, <1>2, <2>1 DEF OwnershipInv, Desc
<1>4. /\ f[k].alias = k /\ f[k].local = FALSE /\ f[k].result = Nothing
      /\ f[k].handler = "none" /\ f[k].ctx = {}
  <2>1. k > made /\ ~(i > 0)
    BY <1>1, <1>2, OwnershipFacts
  <2>2. Unmade(D, f, made, i)
    BY OwnershipFacts DEF Ownership
  <2> QED
    BY <1>1, <2>1, <2>2 DEF Unmade
<1>5. k <= made + 1 /\ Desc(k) = D[k]
  BY <1>1, OwnershipFacts
<1>6. f[k].executor \in {"none", "ex"}
  BY <1>1, OwnershipFacts DEF Types
<1> QED
  BY <1>1, <1>2, <1>3, <1>4, <1>5, <1>6, OwnershipFacts

LEMMA MadeStep ==
    ASSUME OwnershipInv, NEW k \in Nodes, i = 0, checked = FALSE, Made(k),
           Ownership(program.nodes, f', k, 0)
    PROVE  OwnershipInv'
BY OwnershipNext DEF Made

LEMMA MakeSourceStep ==
    ASSUME OwnershipInv, NEW k \in Nodes, MakeSource(k) PROVE OwnershipInv'
<1> DEFINE D == program.nodes
<1>1. /\ i = 0 /\ checked = FALSE /\ k = made + 1 /\ k \in DOMAIN D
      /\ Ownership(D, f, made, 0)
  BY MakingFacts DEF MakeSource
<1>2. /\ Agree(f, f', {"local", "alias", "executor", "result"})
      /\ f'[k].executor = D[k].executor /\ f'[k].alias = f[k].alias /\ f'[k].local = f[k].local
      /\ \A m \in DOMAIN D : m # k => f'[m] = f[m]
  BY <1>1, OwnershipFacts DEF MakeSource, Desc, Agree, Fields, Blank
<1>3. D[k].executor \in {"none", "ex"} /\ f[k].alias = k /\ f[k].local \in BOOLEAN
  BY <1>1, OwnershipFacts DEF IsProgram, Types, Ownership, Unmade
<1>4. \A m \in DOMAIN D : m # k => f'[m].executor \in {"none", "ex"}
  BY <1>2, OwnershipFacts DEF Types
<1>5. Ownership(D, f', k, 0)
  BY <1>1, <1>2, <1>3, <1>4, MakeKeepsOwnership
<1> QED
  BY <1>1, <1>5, MadeStep DEF MakeSource

LEMMA MakeReadyFutureStep ==
    ASSUME OwnershipInv, NEW k \in Nodes, MakeReadyFuture(k) PROVE OwnershipInv'
<1> DEFINE D == program.nodes
<1>1. /\ i = 0 /\ checked = FALSE /\ k = made + 1 /\ k \in DOMAIN D
      /\ Ownership(D, f, made, 0)
  BY MakingFacts DEF MakeReadyFuture
<1>2. /\ Agree(f, f', {"local", "alias", "executor", "result"})
      /\ f'[k].executor = D[k].executor /\ f'[k].alias = f[k].alias /\ f'[k].local = TRUE
      /\ \A m \in DOMAIN D : m # k => f'[m] = f[m]
  BY <1>1, OwnershipFacts DEF MakeReadyFuture, Desc, Agree, Fields, Blank
<1>3. D[k].executor \in {"none", "ex"} /\ f[k].alias = k /\ f'[k].local \in BOOLEAN
  <2>1. D[k].executor \in {"none", "ex"}
    BY <1>1, OwnershipFacts DEF IsProgram
  <2> QED
    BY <1>2, <2>1, MakingFacts DEF MakeReadyFuture
<1>4. \A m \in DOMAIN D : m # k => f'[m].executor \in {"none", "ex"}
  BY <1>2, OwnershipFacts DEF Types
<1>5. Ownership(D, f', k, 0)
  BY <1>1, <1>2, <1>3, <1>4, MakeKeepsOwnership
<1> QED
  BY <1>1, <1>5, MadeStep DEF MakeReadyFuture

\* The state a Then is on.
LEMMA InputFacts ==
    ASSUME OwnershipInv, NEW k \in Nodes, k <= made + 1, Desc(k).kind = "then"
    PROVE  LET D == program.nodes IN
           /\ Input(k) = f[D[k].from[1]].alias
           /\ D[k].from[1] \in 1 .. made /\ D[k].from[1] \in DOMAIN D /\ D[k].from[1] # k
           /\ Input(k) \in DOMAIN D /\ Input(k) \in 1 .. made /\ Input(k) # k
           /\ 1 \in DOMAIN D[k].from /\ Uses(D, f, k, D[k].from[1])
<1> DEFINE D == program.nodes
<1>1. k \in DOMAIN D /\ D[k].kind = "then" /\ k \in Nat /\ made \in Nat
  BY OwnershipFacts
<1>2. 1 \in DOMAIN D[k].from /\ D[k].from[1] \in 1 .. k - 1 /\ D[k].from[1] \in DOMAIN D
  <2>1. DOMAIN D[k].from = {1}
    BY <1>1, OwnershipFacts DEF IsProgram
  <2>2. 1 \in DOMAIN D[k].from
    BY <2>1
  <2> QED
    BY <1>1, <2>2, OwnershipFacts, ProgramShape
<1>3. Input(k) = f[D[k].from[1]].alias
  BY DEF Input, Desc
<1>4. f[D[k].from[1]].alias \in 1 .. D[k].from[1]
  BY <1>2, OwnershipFacts DEF Types
<1>5. Uses(D, f, k, D[k].from[1])
  BY <1>2 DEF Uses
<1> QED
  BY <1>1, <1>2, <1>3, <1>4, <1>5, OwnershipFacts, SMTT(30)

\* Main makes a Then.
LEMMA ThenFacts ==
    ASSUME OwnershipInv, NEW k \in Nodes, Making(k, "then")
    PROVE  LET D == program.nodes IN
           /\ i = 0 /\ checked = FALSE /\ k <= made + 1 /\ Ownership(D, f, made, 0)
           /\ k = made + 1 /\ k \in DOMAIN D /\ D[k].kind = "then" /\ D[k].kind # "source"
           /\ f[k].alias = k /\ f[k].handler = "none" /\ Desc(k) = D[k]
           /\ f[k].local = FALSE /\ f[k].result = Nothing /\ f[k].executor \in {"none", "ex"}
           /\ Input(k) \in DOMAIN D /\ Input(k) # k /\ Input(k) = f[D[k].from[1]].alias
<1> DEFINE D == program.nodes
<1>1. PICK kind : kind = "then"
  OBVIOUS
<1>2. kind # "collect" /\ kind # "source" /\ Making(k, kind)
  BY <1>1
<1>3. /\ i = 0 /\ checked = FALSE /\ k = made + 1 /\ k \in DOMAIN D
      /\ D[k].kind = kind
      /\ Ownership(D, f, made, 0)
      /\ k <= made + 1 /\ Desc(k) = D[k]
      /\ f[k].alias = k /\ f[k].local = FALSE /\ f[k].result = Nothing
      /\ f[k].handler = "none" /\ f[k].ctx = {} /\ f[k].executor \in {"none", "ex"}
  BY <1>2, MakingFacts, ZenonT(30)
<1>4. Input(k) \in DOMAIN D /\ Input(k) # k /\ Input(k) = f[D[k].from[1]].alias
  BY <1>1, <1>3, InputFacts
<1> QED
  BY <1>1, <1>2, <1>3, <1>4, Zenon

LEMMA ThenSharedStep ==
    ASSUME OwnershipInv, NEW k \in Nodes, ThenShared(k) PROVE OwnershipInv'
<1> DEFINE D == program.nodes
<1>1. /\ i = 0 /\ checked = FALSE /\ k = made + 1 /\ k \in DOMAIN D /\ D[k].kind = "then"
      /\ Ownership(D, f, made, 0) /\ k <= made + 1 /\ Desc(k).kind = "then"
      /\ f[k].alias = k /\ f[k].local = FALSE /\ f[k].result = Nothing
  <2>1. Making(k, "then")
    BY Zenon DEF ThenShared
  <2>2. Desc(k).kind = "then"
    BY <2>1, Zenon DEF Making
  <2> QED
    BY <2>1, <2>2, ThenFacts, ZenonT(30)
<1>2. PICK n : n = Input(k)
  OBVIOUS
<1>3. /\ n = f[D[k].from[1]].alias /\ D[k].from[1] \in 1 .. made
      /\ n \in DOMAIN D /\ n \in 1 .. made /\ n # k /\ Uses(D, f, k, D[k].from[1])
      /\ D[k].from[1] # k /\ D[k].from[1] \in DOMAIN D
  BY <1>1, <1>2, InputFacts
<1>4. PICK q : q = [f EXCEPT ![k].executor = f[n].executor]
  OBVIOUS
<1>5. f' = SetContinuation(q, n, k, 0, FALSE, "outside")
  BY <1>2, <1>4 DEF ThenShared
<1>6. /\ Agree(f, q, {"local", "alias", "executor", "result"})
      /\ q[k].executor = f[n].executor /\ q[k].alias = f[k].alias /\ q[k].local = f[k].local
      /\ q[k].result = f[k].result
      /\ \A m \in DOMAIN D : m # k => q[m] = f[m]
  BY <1>1, <1>4, OwnershipFacts DEF Agree, Fields, Blank
<1>7. /\ f[n].executor \in {"none", "ex"} /\ f[k].alias = k /\ f[k].local = FALSE
      /\ f[k].result = Nothing /\ q[k].local \in BOOLEAN
  <2>1. f[n].executor \in {"none", "ex"}
    BY <1>3, OwnershipFacts DEF Types
  <2> QED
    BY <1>1, <1>6, <2>1
<1>8. \A m \in DOMAIN D : m # k => /\ q[m].executor \in {"none", "ex"} /\ q[m].alias = f[m].alias
                                   /\ q[m].local = f[m].local /\ q[m].result = f[m].result
  BY <1>6, OwnershipFacts DEF Types
<1>9. Ownership(D, q, k, 0)
  BY <1>1, <1>6, <1>7, <1>8, MakeKeepsOwnership
<1>10. f[n].handler = "none"
  <2> SUFFICES ASSUME f[n].handler # "none" PROVE FALSE
    BY Zenon
  <2>1. \/ ThenLink(D, f, made, n, k, f[n].slot, f[n].forwards)
        \/ CollectLink(D, f, made, 0, n, k, f[n].slot, f[n].forwards)
        \/ ForwardLink(D, f, made, n, k, f[n].slot, f[n].forwards)
    BY <1>1, <1>3, ContinuationOfUser, Zenon
  <2>2. k \notin 1 .. made
    BY <1>1, OwnershipFacts
  <2> QED
    BY <1>1, <2>1, <2>2 DEF ThenLink, CollectLink, ForwardLink
<1>11. Link(D, q, k, 0, n, k, 0, FALSE)
  <2>1. k \in 1 .. k
    BY <1>1, OwnershipFacts, SMTT(30)
  <2>2. q[D[k].from[1]].alias = n /\ q[k].alias = k /\ q[k].local = FALSE
    BY <1>3, <1>6, <1>7
  <2> QED
    BY <1>1, <2>1, <2>2 DEF ThenLink, Link
<1>12. Ownership(D, f', k, 0)
  <2>1. n \in 1 .. k /\ q[n].handler = "none" /\ q[k].result = Nothing
    <3>1. n \in 1 .. k
      BY <1>1, <1>3, OwnershipFacts
    <3> QED
      BY <1>3, <1>6, <1>7, <1>10, <3>1, Zenon
  <2> QED
    BY <1>1, <1>5, <1>9, <1>11, <2>1, SubscribeKeepsOwnership, Zenon
<1> QED
  BY <1>1, <1>12, MadeStep DEF ThenShared

LEMMA ThenLocalValueStep ==
    ASSUME OwnershipInv, NEW k \in Nodes, ThenLocalValue(k) PROVE OwnershipInv'
<1> DEFINE D == program.nodes
<1>1. /\ i = 0 /\ checked = FALSE /\ k = made + 1 /\ k \in DOMAIN D /\ D[k].kind = "then"
      /\ Ownership(D, f, made, 0) /\ k <= made + 1 /\ Desc(k).kind = "then"
      /\ f[k].alias = k /\ f[k].local = FALSE
  <2>1. Making(k, "then")
    BY Zenon DEF ThenLocalValue
  <2>2. Desc(k).kind = "then"
    BY <2>1, Zenon DEF Making
  <2> QED
    BY <2>1, <2>2, ThenFacts, ZenonT(30)
<1>2. /\ Agree(f, f', {"local", "alias", "executor", "result"})
      /\ f'[k].executor = f[Input(k)].executor /\ f'[k].alias = f[k].alias /\ f'[k].local = TRUE
      /\ \A m \in DOMAIN D : m # k => f'[m] = f[m]
  BY <1>1, OwnershipFacts DEF ThenLocalValue, Agree, Fields, Blank
<1>3. f[Input(k)].executor \in {"none", "ex"} /\ f[k].alias = k /\ f'[k].local \in BOOLEAN
  <2>1. f[Input(k)].executor \in {"none", "ex"}
    BY <1>1, InputFacts, OwnershipFacts DEF Types
  <2> QED
    BY <1>1, <1>2, <2>1
<1>4. \A m \in DOMAIN D : m # k => f'[m].executor \in {"none", "ex"}
  BY <1>2, OwnershipFacts DEF Types
<1>5. Ownership(D, f', k, 0)
  BY <1>1, <1>2, <1>3, <1>4, MakeKeepsOwnership
<1> QED
  BY <1>1, <1>5, MadeStep DEF ThenLocalValue

LEMMA ThenLocalFutureStep ==
    ASSUME OwnershipInv, NEW k \in Nodes, ThenLocalFuture(k) PROVE OwnershipInv'
<1> DEFINE D == program.nodes
<1>1. /\ i = 0 /\ checked = FALSE /\ k = made + 1 /\ k \in DOMAIN D /\ D[k].kind = "then"
      /\ Ownership(D, f, made, 0) /\ k <= made + 1 /\ Desc(k).kind = "then"
      /\ D[k].inner # 0 /\ Desc(k).inner = D[k].inner
  <2>1. Making(k, "then") /\ Desc(k).inner # 0
    BY Zenon DEF ThenLocalFuture
  <2>2. Desc(k).kind = "then" /\ Desc(k) = D[k]
    BY <2>1, Zenon DEF Making, Desc
  <2> QED
    BY <2>1, <2>2, ThenFacts, ZenonT(30)
<1>2. f[k].alias = k /\ f[k].local \in BOOLEAN /\ f[k].executor \in {"none", "ex"}
  <2>1. Making(k, "then")
    BY Zenon DEF ThenLocalFuture
  <2>2. f[k].alias = k /\ f[k].local = FALSE /\ f[k].executor \in {"none", "ex"}
    BY <2>1, ThenFacts, ZenonT(30)
  <2> QED
    BY <2>2
<1>3. CASE FailsFirst(k, f[Input(k)].result)
  <2>1. f' = [f EXCEPT ![k].local = TRUE, ![k].result = MakeTryCall(k, f[Input(k)].result)]
    BY <1>3 DEF ThenLocalFuture
  <2>2. /\ Agree(f, f', {"local", "alias", "executor", "result"})
        /\ f'[k].executor = f[k].executor /\ f'[k].alias = f[k].alias /\ f'[k].local = TRUE
        /\ \A m \in DOMAIN D : m # k => f'[m] = f[m]
    BY <1>1, <2>1, OwnershipFacts DEF Agree, Fields, Blank
  <2>3. /\ f'[k].alias = k /\ f'[k].local \in BOOLEAN /\ f'[k].executor \in {"none", "ex"}
        /\ \A m \in DOMAIN D : m # k =>
             /\ f'[m].executor \in {"none", "ex"} /\ f'[m].alias = f[m].alias
             /\ f'[m].local = f[m].local /\ f'[m].result = f[m].result
    BY <1>2, <2>2, OwnershipFacts DEF Types
  <2>4. Ownership(D, f', k, 0)
    BY <1>1, <1>2, <2>2, <2>3, MakeKeepsOwnership
  <2> QED
    BY <1>1, <2>4, MadeStep, Zenon DEF ThenLocalFuture
<1>4. CASE ~FailsFirst(k, f[Input(k)].result)
  <2>1. PICK o : o = f[D[k].inner].alias
    OBVIOUS
  <2>2. f' = [f EXCEPT ![k].alias = o, ![k].local = f[o].local,
                       ![o].executor = IF f[o].executor = "none" THEN f[Input(k)].executor
                                       ELSE f[o].executor]
    <3>1. k # o
      <4>1. D[k].inner \in DOMAIN D /\ D[k].inner \in 1 .. k - 1
        BY <1>1, OwnershipFacts, ProgramShape
      <4>2. o \in 1 .. D[k].inner
        BY <2>1, <4>1, OwnershipFacts DEF Types
      <4> QED
        BY <1>1, <4>1, <4>2, OwnershipFacts
    <3> QED
      BY <1>1, <1>4, <2>1, <3>1, Zenon DEF ThenLocalFuture
  <2>3. o \in DOMAIN D /\ o # k
    <3>1. D[k].inner \in DOMAIN D /\ D[k].inner \in 1 .. k - 1
      BY <1>1, OwnershipFacts, ProgramShape
    <3>2. o \in 1 .. D[k].inner
      BY <2>1, <3>1, OwnershipFacts DEF Types
    <3> QED
      BY <1>1, <3>1, <3>2, OwnershipFacts
  <2>4. /\ Agree(f, f', {"local", "alias", "executor", "result"})
        /\ f'[k].executor = f[k].executor /\ f'[k].alias = o /\ f'[k].local = f[o].local
        /\ f'[o].executor \in {f[o].executor, f[Input(k)].executor}
        /\ f'[o].local = f[o].local /\ f'[o].alias = f[o].alias /\ f'[o].result = f[o].result
        /\ \A m \in DOMAIN D : m # k /\ m # o => f'[m] = f[m]
    <3>1. DOMAIN f = DOMAIN D /\ k \in DOMAIN D /\ \A m \in DOMAIN D : DOMAIN f[m] = Fields
      BY <1>1, OwnershipFacts, Zenon
    <3>2. /\ DOMAIN f' = DOMAIN f /\ \A m \in DOMAIN D : m # k /\ m # o => f'[m] = f[m]
          /\ f'[k] = [f[k] EXCEPT !.alias = o, !.local = f[o].local]
          /\ f'[o] = [f[o] EXCEPT !.executor = IF f[o].executor = "none"
                                                THEN f[Input(k)].executor ELSE f[o].executor]
      BY <2>2, <2>3, <3>1
    <3>3. Agree(f, f', {"local", "alias", "executor", "result"})
      BY <2>3, <3>1, <3>2, ZenonT(60) DEF Agree, Fields, Blank
    <3>4. f'[k].executor = f[k].executor /\ f'[k].alias = o /\ f'[k].local = f[o].local
      BY <3>1, <3>2 DEF Fields, Blank
    <3>5. /\ f'[o].executor \in {f[o].executor, f[Input(k)].executor}
          /\ f'[o].local = f[o].local /\ f'[o].alias = f[o].alias /\ f'[o].result = f[o].result
      BY <2>3, <3>1, <3>2 DEF Fields, Blank
    <3> QED
      BY <3>2, <3>3, <3>4, <3>5
  <2>5. \A m \in DOMAIN D : m # k => /\ f'[m].executor \in {"none", "ex"}
                                     /\ f'[m].local = f[m].local /\ f'[m].alias = f[m].alias
                                     /\ f'[m].result = f[m].result
    <3>1. f[Input(k)].executor \in {"none", "ex"} /\ f[o].executor \in {"none", "ex"}
      BY <1>1, <2>3, InputFacts, OwnershipFacts DEF Types
    <3>2. \A m \in DOMAIN D : f[m].executor \in {"none", "ex"}
      BY OwnershipFacts DEF Types
    <3> QED
      BY <2>4, <3>1, <3>2
  <2>6. f'[k].local \in BOOLEAN
    BY <2>3, <2>4, OwnershipFacts, ZenonT(60) DEF Types
  <2>7. f'[k].executor \in {"none", "ex"} /\ f'[k].alias = f[D[k].inner].alias
    BY <1>2, <2>1, <2>4
  <2>8. Ownership(D, f', k, 0)
    <3>1. /\ Ownership(D, f, made, 0) /\ k \in DOMAIN D /\ k = made + 1
          /\ Agree(f, f', {"local", "alias", "executor", "result"})
      BY <1>1, <2>4
    <3>2. D[k].kind = "then" /\ D[k].inner # 0 /\ f'[k].alias = f[D[k].inner].alias
      BY <1>1, <2>7
    <3> QED
      BY <2>5, <2>6, <2>7, <3>1, <3>2, MakeKeepsOwnership
  <2> QED
    BY <1>1, <2>8, MadeStep, Zenon DEF ThenLocalFuture
<1> QED
  BY <1>3, <1>4, Zenon

LEMMA CollectAllStep ==
    ASSUME OwnershipInv, NEW k \in Nodes, CollectAll(k) PROVE OwnershipInv'
<1> DEFINE D == program.nodes
<1>1. /\ i = 0 /\ checked = FALSE /\ k = made + 1 /\ k \in DOMAIN D /\ D[k].kind = "collect"
      /\ Ownership(D, f, made, 0) /\ k <= made + 1 /\ Desc(k) = D[k]
      /\ f[k].alias = k /\ f[k].local = FALSE /\ f[k].result = Nothing
      /\ f[k].handler = "none" /\ f[k].ctx = {} /\ f[k].executor \in {"none", "ex"}
  <2>1. PICK kind : kind = "collect"
    OBVIOUS
  <2>2. Making(k, kind) /\ (kind # "collect" \/ i = 0)
    BY <2>1 DEF CollectAll
  <2>3. /\ i = 0 /\ checked = FALSE /\ k = made + 1 /\ k \in DOMAIN D
        /\ D[k].kind = kind
        /\ Ownership(D, f, made, 0)
        /\ k <= made + 1 /\ Desc(k) = D[k]
        /\ f[k].alias = k /\ f[k].local = FALSE /\ f[k].result = Nothing
        /\ f[k].handler = "none" /\ f[k].ctx = {} /\ f[k].executor \in {"none", "ex"}
    BY <2>2, MakingFacts, ZenonT(30)
  <2> QED
    BY <2>1, <2>3, Zenon
<1>2. CASE \A j \in DOMAIN D[k].from : HasResult(f, D[k].from[j])
  <2>1. (\E t : f' = [f EXCEPT ![k].local = TRUE, ![k].result = t]) /\ Made(k)
    <3>1. \A j \in DOMAIN Desc(k).from : HasResult(f, Desc(k).from[j])
      BY <1>1, <1>2, Zenon
    <3> QED
      BY <3>1, Zenon DEF CollectAll
  <2>2. /\ Agree(f, f', {"local", "alias", "executor", "result"})
        /\ f'[k].executor = f[k].executor /\ f'[k].alias = f[k].alias /\ f'[k].local = TRUE
        /\ \A m \in DOMAIN D : m # k => f'[m] = f[m]
    BY <1>1, <2>1, OwnershipFacts DEF Agree, Fields, Blank
  <2>3. /\ f'[k].alias = k /\ f'[k].local \in BOOLEAN /\ f'[k].executor \in {"none", "ex"}
        /\ \A m \in DOMAIN D : m # k =>
             /\ f'[m].executor \in {"none", "ex"} /\ f'[m].alias = f[m].alias
             /\ f'[m].local = f[m].local /\ f'[m].result = f[m].result
    BY <1>1, <2>2, OwnershipFacts, ZenonT(60) DEF Types
  <2>4. Ownership(D, f', k, 0)
    BY <1>1, <2>2, <2>3, MakeKeepsOwnership
  <2> QED
    BY <1>1, <2>1, <2>4, MadeStep, Zenon
<1>3. CASE ~\A j \in DOMAIN D[k].from : HasResult(f, D[k].from[j])
  <2>1. /\ f' = [f EXCEPT ![k].results = [j \in DOMAIN D[k].from |-> Nothing], ![k].ctx = {0}]
        /\ i' = 1 /\ program' = program /\ made' = made /\ checked' = checked
    BY <1>3 DEF CollectAll, Desc
  <2>2. /\ Agree(f, f', {"ctx", "results"}) /\ f'[k].ctx = {0}
        /\ \A m \in DOMAIN D : m # k => f'[m].ctx = f[m].ctx
    BY <1>1, <2>1, OwnershipFacts DEF Agree, Fields, Blank
  <2>3. Len(D[k].from) \in Nat /\ f'[k].ctx \subseteq 0 .. Len(D[k].from)
    BY <1>1, <2>2, OwnershipFacts DEF IsProgram
  <2>4. LoopOf(D, f', made, 1)
    <3>1. 1 \in 1 .. Len(D[k].from) + 1
      BY <2>3
    <3> QED
      BY <1>1, <2>2, <3>1 DEF LoopOf
  <2>5. ContextChanges(D, f, made, 0, k, f', 1)
    BY <1>1, <2>2, <2>3, <2>4 DEF ContextChanges
  <2>6. Ownership(D, f', made, 1)
    BY <1>1, <2>5, ContextKeepsOwnership
  <2> QED
    BY <1>1, <2>1, <2>6, OwnershipNext
<1> QED
  BY <1>2, <1>3

\* Main is in CollectAll's loop.
LEMMA LoopFacts ==
    ASSUME OwnershipInv, NEW k \in Nodes, Making(k, "collect"), i > 0
    PROVE  LET D == program.nodes IN
           /\ k = made + 1 /\ k \in DOMAIN D /\ D[k].kind = "collect" /\ Desc(k) = D[k]
           /\ f[k].alias = k /\ f[k].local = FALSE /\ f[k].result = Nothing
           /\ i \in 1 .. Len(D[k].from) + 1 /\ 0 \in f[k].ctx
           /\ Len(D[k].from) \in Nat /\ DOMAIN D[k].from = 1 .. Len(D[k].from)
           /\ f[k].handler = "none"
           /\ \A j \in DOMAIN D[k].from :
                D[k].from[j] \in 1 .. made /\ f[D[k].from[j]].alias \in 1 .. made
<1> DEFINE D == program.nodes
<1>1. k = made + 1 /\ k \in DOMAIN D /\ D[k].kind = "collect" /\ Desc(k) = D[k]
  BY OwnershipFacts DEF Making
<1>2. Unmade(D, f, made, i) /\ LoopOf(D, f, made, i) /\ k > made
  BY <1>1, OwnershipFacts DEF Ownership
<1>3. /\ f[k].alias = k /\ f[k].local = FALSE /\ f[k].result = Nothing /\ f[k].handler = "none"
      /\ i \in 1 .. Len(D[k].from) + 1 /\ 0 \in f[k].ctx
  BY <1>1, <1>2 DEF Unmade, LoopOf
<1>4. Len(D[k].from) \in Nat /\ DOMAIN D[k].from = 1 .. Len(D[k].from)
  BY <1>1, OwnershipFacts DEF IsProgram
<1>5. ASSUME NEW j \in DOMAIN D[k].from
      PROVE  D[k].from[j] \in 1 .. made /\ f[D[k].from[j]].alias \in 1 .. made
  <2>1. D[k].from[j] \in 1 .. k - 1 /\ D[k].from[j] \in DOMAIN D
    BY <1>1, OwnershipFacts, ProgramShape
  <2>2. f[D[k].from[j]].alias \in 1 .. D[k].from[j]
    BY <2>1, OwnershipFacts DEF Types
  <2> QED
    BY <1>1, <2>1, <2>2, OwnershipFacts
<1> QED
  BY <1>1, <1>3, <1>4, <1>5

LEMMA CollectCheckStep ==
    ASSUME OwnershipInv, NEW k \in Nodes, CollectCheck(k) PROVE OwnershipInv'
<1> DEFINE D == program.nodes
<1>1. /\ Making(k, "collect") /\ i \in DOMAIN Desc(k).from /\ checked = FALSE
      /\ program' = program /\ made' = made
  BY OwnershipFacts DEF CollectCheck
<1>2. i > 0 /\ k = made + 1 /\ k \in DOMAIN D /\ Desc(k) = D[k] /\ i \in DOMAIN D[k].from
  <2>1. k = made + 1 /\ k \in DOMAIN D /\ Desc(k) = D[k]
    BY <1>1, OwnershipFacts DEF Making
  <2>2. i \in Nat \ {0}
    BY <1>1, <2>1, OwnershipFacts, ProgramShape
  <2> QED
    BY <1>1, <2>1, <2>2
<1>3. /\ D[k].kind = "collect" /\ f[k].result = Nothing /\ f[k].local = FALSE
      /\ 0 \in f[k].ctx /\ Len(D[k].from) \in Nat /\ DOMAIN D[k].from = 1 .. Len(D[k].from)
      /\ Ownership(D, f, made, i)
  BY <1>1, <1>2, LoopFacts, OwnershipFacts, ZenonT(60)
<1>4. CASE HasResult(f, D[k].from[i])
  <2>1. /\ f' = [f EXCEPT ![k].results[i] = f[f[D[k].from[i]].alias].result]
        /\ i' = i + 1 /\ checked' = checked
    BY <1>2, <1>4, ZenonT(60) DEF CollectCheck
  <2>2. /\ Agree(f, f', {"ctx", "results"}) /\ \A m \in DOMAIN D : f'[m].ctx = f[m].ctx
    BY <1>2, <2>1, OwnershipFacts, ZenonT(60) DEF Agree, Fields, Blank
  <2>3. LoopOf(D, f', made, i + 1) /\ i + 1 \in Nat /\ i <= i + 1 /\ i + 1 > 0
    <3>1. i + 1 \in 1 .. Len(D[k].from) + 1 /\ i + 1 \in Nat /\ i <= i + 1 /\ i + 1 > 0
      BY <1>2, <1>3
    <3>2. 0 \in f'[k].ctx
      BY <1>2, <1>3, <2>2
    <3> QED
      BY <1>2, <1>3, <3>1, <3>2 DEF LoopOf
  <2>4. f'[k].ctx \subseteq 0 .. Len(D[k].from)
    BY <1>2, <2>2, OwnershipFacts DEF Types
  <2>6. Ownership(D, f', made, i + 1)
    BY <1>2, <1>3, <2>2, <2>3, <2>4, ContextKeepsOwnership DEF ContextChanges
  <2> QED
    BY <1>1, <2>1, <2>6, OwnershipNext, Zenon
<1>5. CASE ~HasResult(f, D[k].from[i])
  <2>1. f' = f /\ i' = i /\ checked' = TRUE
    BY <1>2, <1>5 DEF CollectCheck
  <2> QED
    BY <1>1, <1>2, <2>1, OwnershipFacts, OwnershipNext
<1> QED
  BY <1>4, <1>5

LEMMA CollectSetContinuationStep ==
    ASSUME OwnershipInv, NEW k \in Nodes, CollectSetContinuation(k) PROVE OwnershipInv'
<1> DEFINE D == program.nodes
<1>1. /\ Making(k, "collect") /\ checked /\ i' = i + 1 /\ checked' = FALSE
      /\ program' = program /\ made' = made
  BY DEF CollectSetContinuation
<1>2. k = made + 1 /\ k \in DOMAIN D /\ Desc(k) = D[k] /\ i \in DOMAIN D[k].from
  BY <1>1, OwnershipFacts DEF Making, OwnershipInv
<1>3. i \in Nat /\ i > 0
  <2>1. i \in Nat \ {0}
    BY <1>2, OwnershipFacts, ProgramShape
  <2> QED
    BY <2>1
<1>4. /\ D[k].kind = "collect" /\ f[k].result = Nothing /\ f[k].local = FALSE /\ f[k].alias = k
      /\ f[k].handler = "none" /\ 0 \in f[k].ctx
      /\ D[k].from[i] \in 1 .. made /\ f[D[k].from[i]].alias \in 1 .. made
      /\ Len(D[k].from) \in Nat /\ DOMAIN D[k].from = 1 .. Len(D[k].from)
  BY <1>1, <1>2, <1>3, LoopFacts
<1>5. PICK n : n = f[D[k].from[i]].alias
  OBVIOUS
<1>6. PICK q : q = [f EXCEPT ![k].ctx = f[k].ctx \union {i}]
  OBVIOUS
<1>7. f' = SetContinuation(q, n, k, i, FALSE, "outside")
  BY <1>2, <1>5, <1>6 DEF CollectSetContinuation
<1>8. /\ Agree(f, q, {"ctx", "results"}) /\ q[k].ctx = f[k].ctx \union {i}
      /\ \A m \in DOMAIN D : m # k => q[m].ctx = f[m].ctx
      /\ \A m \in DOMAIN D : /\ q[m].handler = f[m].handler /\ q[m].alias = f[m].alias
                             /\ q[m].result = f[m].result
  BY <1>2, <1>6, OwnershipFacts DEF Agree, Fields, Blank
<1>9. Ownership(D, q, made, i + 1)
  <2>1. i + 1 \in 1 .. Len(D[k].from) + 1 /\ i + 1 \in Nat /\ i <= i + 1 /\ i + 1 > 0
        /\ i \in 0 .. Len(D[k].from)
    BY <1>2, <1>3, <1>4
  <2>2. LoopOf(D, q, made, i + 1)
    BY <1>2, <1>4, <1>8, <2>1 DEF LoopOf
  <2>3. q[k].ctx \subseteq 0 .. Len(D[k].from)
    <3>1. f[k].ctx \subseteq 0 .. Len(D[k].from)
      BY <1>2, OwnershipFacts DEF Types
    <3> QED
      BY <1>8, <2>1, <3>1
  <2> QED
    <3>1. Ownership(D, f, made, i)
      BY OwnershipFacts
    <3>2. ContextChanges(D, f, made, i, k, q, i + 1)
      BY <1>2, <1>4, <1>8, <2>1, <2>2, <2>3 DEF ContextChanges
    <3> QED
      BY <3>1, <3>2, ContextKeepsOwnership
<1>10. n \in 1 .. made /\ n \in DOMAIN D /\ D[k].from[i] \in DOMAIN D
  BY <1>4, <1>5, OwnershipFacts
<1>11. f[n].handler = "none"
  <2> SUFFICES ASSUME f[n].handler # "none" PROVE FALSE
    OBVIOUS
  <2>1. Uses(D, f, k, D[k].from[i])
    BY <1>2 DEF Uses
  <2>2. \/ ThenLink(D, f, made, n, k, f[n].slot, f[n].forwards)
        \/ /\ CollectLink(D, f, made, i, n, k, f[n].slot, f[n].forwards)
           /\ D[k].from[f[n].slot] = D[k].from[i]
        \/ ForwardLink(D, f, made, n, k, f[n].slot, f[n].forwards)
    <3>1. Ownership(D, f, made, i)
      BY OwnershipFacts
    <3>2. PICK x : x = D[k].from[i]
      OBVIOUS
    <3>3. x \in 1 .. made /\ n = f[x].alias /\ Uses(D, f, k, x)
      BY <1>4, <1>5, <2>1, <3>2
    <3>4. n \in DOMAIN D
      BY <1>10
    <3>5. \/ ThenLink(D, f, made, n, k, f[n].slot, f[n].forwards)
          \/ /\ CollectLink(D, f, made, i, n, k, f[n].slot, f[n].forwards)
             /\ D[k].from[f[n].slot] = x
          \/ ForwardLink(D, f, made, n, k, f[n].slot, f[n].forwards)
      BY <1>2, <3>1, <3>3, ContinuationOfUser
    <3> QED
      BY <3>2, <3>5
  <2>3. CollectLink(D, f, made, i, n, k, f[n].slot, f[n].forwards)
        /\ D[k].from[f[n].slot] = D[k].from[i]
    BY <1>4, <2>2 DEF ThenLink, ForwardLink
  <2>4. f[n].slot \in DOMAIN D[k].from /\ (k <= made \/ f[n].slot < i)
    BY <2>3 DEF CollectLink
  <2>5. f[n].slot = i
    <3>1. IsProgram(D)
      BY OwnershipFacts
    <3> QED
      BY <1>2, <2>3, <2>4, <3>1 DEF IsProgram
  <2> QED
    BY <1>2, <1>3, <2>4, <2>5, OwnershipFacts
<1>12. Link(D, q, made, i + 1, n, k, i, FALSE)
  <2>1. i < i + 1 /\ i \in DOMAIN D[k].from
    BY <1>2, <1>3
  <2>2. q[k].alias = k /\ q[D[k].from[i]].alias = n
    BY <1>2, <1>4, <1>5, <1>8, <1>10
  <2>3. CollectLink(D, q, made, i + 1, n, k, i, FALSE)
    BY <1>2, <1>4, <2>1, <2>2 DEF CollectLink
  <2> QED
    BY <2>3 DEF Link
<1>13. Ownership(D, f', made, i + 1)
  <2>1. q[n].handler = "none" /\ (i = 0 => q[k].result = Nothing)
    BY <1>3, <1>8, <1>10, <1>11
  <2> QED
    BY <1>2, <1>7, <1>9, <1>10, <1>12, <2>1, SubscribeKeepsOwnership
<1> QED
  BY <1>1, <1>13, OwnershipNext

LEMMA CollectReturnStep ==
    ASSUME OwnershipInv, NEW k \in Nodes, CollectReturn(k) PROVE OwnershipInv'
<1> DEFINE D == program.nodes
<1>1. /\ Making(k, "collect") /\ i = Len(Desc(k).from) + 1 /\ i' = 0 /\ made' = k
      /\ program' = program /\ checked' = checked /\ f' = Release(f, k, 0, "outside")
  BY DEF CollectReturn
<1>2. k = made + 1 /\ k \in DOMAIN D /\ Desc(k) = D[k]
  BY <1>1, OwnershipFacts DEF Making
<1>3. Len(D[k].from) \in Nat /\ DOMAIN D[k].from = 1 .. Len(D[k].from)
  BY <1>2, OwnershipFacts DEF IsProgram
<1>4. i > 0 /\ i = Len(D[k].from) + 1 /\ i \notin DOMAIN D[k].from
  BY <1>1, <1>2, <1>3
<1>5. checked = FALSE
  BY <1>2, <1>4, OwnershipFacts DEF OwnershipInv
<1>6. Ownership(D, f', k, 0)
  BY <1>1, <1>2, <1>4, OwnershipFacts, ReturnKeepsOwnership
<1> QED
  BY <1>1, <1>5, <1>6, OwnershipNext

-----------------------------------------------------------------------------
(* The steps of promises and continuations.                                 *)
LEMMA SettleStep ==
    ASSUME OwnershipInv, NEW k \in Nodes, NEW th \in {"worker", "outside"}, Settle(k, th)
    PROVE  OwnershipInv'
<1> DEFINE D == program.nodes
<1>1. /\ k \in DOMAIN D /\ k \in 1 .. made /\ D[k].kind = "source" /\ f[k].result = Nothing
      /\ program' = program /\ made' = made /\ i' = i /\ checked' = checked
  BY OwnershipFacts DEF Settle
<1>2. PICK t : f' = SetResult(f, k, t, th)
  BY DEF Settle
<1>3. Ownership(D, f, made, i)
  BY OwnershipFacts
<1>4. f[k].ctx = {}
  BY <1>1, <1>3 DEF Ownership, Promises
<1>5. \A n \in DOMAIN D : Holds(f, n) => f[n].to # k
  BY <1>1, <1>3, HolderLink
<1>6. Ownership(D, f', made, i)
  BY <1>1, <1>2, <1>3, <1>4, <1>5, FulfilKeepsOwnership
<1> QED
  BY <1>1, <1>6, OwnershipKept

\* A step of a continuation that does nothing else.
LEMMA PhaseStep ==
    ASSUME OwnershipInv, NEW n, PhaseChanges(program.nodes, f, n, f'),
           UNCHANGED <<program, made, i, checked>>
    PROVE  OwnershipInv'
<1>1. Ownership(program.nodes, f', made, i)
  BY OwnershipFacts, PhaseKeepsOwnership
<1> QED
  BY <1>1, OwnershipKept

LEMMA ScheduleStep ==
    ASSUME OwnershipInv, NEW n \in Nodes, Schedule(n) PROVE OwnershipInv'
<1> DEFINE D == program.nodes
<1>1. /\ n \in DOMAIN D /\ f[n].handler = "due" /\ UNCHANGED <<program, made, i, checked>>
      /\ f[n].caller \in {"worker", "outside"} /\ f[n].on \in {"worker", "outside"}
  BY OwnershipFacts DEF Schedule, Types
<1>2. ASSUME /\ Agree(f, f', {"handler", "how", "caller", "on", "guards", "results"})
             /\ \A m \in DOMAIN D : m # n => f'[m] = f[m]
             /\ f'[n].handler \in {"queued", "run"}
             /\ f'[n].how \in {"inline", "scheduled", "refused"}
             /\ f'[n].on \in {"worker", "outside"} /\ f'[n].caller = f[n].caller
             /\ f'[n].guards \subseteq {"caller", "closure"}
      PROVE  OwnershipInv'
  <2>1. PhaseChanges(D, f, n, f')
    BY <1>1, <1>2 DEF PhaseChanges, Handlers, Holding
  <2> QED
    BY <1>1, <2>1, PhaseStep
<1>3. CASE f' = [f EXCEPT ![n].handler = "run", ![n].how = "inline", ![n].on = f[n].caller,
                          ![n].guards = {"caller"}]
  <2>1. /\ Agree(f, f', {"handler", "how", "caller", "on", "guards", "results"})
        /\ \A m \in DOMAIN D : m # n => f'[m] = f[m]
        /\ f'[n].handler = "run" /\ f'[n].how = "inline" /\ f'[n].on = f[n].caller
        /\ f'[n].caller = f[n].caller /\ f'[n].guards = {"caller"}
    BY <1>1, <1>3, OwnershipFacts DEF Agree, Fields, Blank
  <2> QED
    BY <1>1, <1>2, <2>1
<1>4. CASE f' = [f EXCEPT ![n].handler = "queued", ![n].how = "scheduled",
                          ![n].guards = {"caller", "closure"}]
  <2>1. /\ Agree(f, f', {"handler", "how", "caller", "on", "guards", "results"})
        /\ \A m \in DOMAIN D : m # n => f'[m] = f[m]
        /\ f'[n].handler = "queued" /\ f'[n].how = "scheduled" /\ f'[n].on = f[n].on
        /\ f'[n].caller = f[n].caller /\ f'[n].guards = {"caller", "closure"}
    BY <1>1, <1>4, OwnershipFacts DEF Agree, Fields, Blank
  <2> QED
    BY <1>1, <1>2, <2>1
<1>5. CASE f' = [f EXCEPT ![n].handler = "run", ![n].how = "refused", ![n].guards = {"caller"}]
  <2>1. /\ Agree(f, f', {"handler", "how", "caller", "on", "guards", "results"})
        /\ \A m \in DOMAIN D : m # n => f'[m] = f[m]
        /\ f'[n].handler = "run" /\ f'[n].how = "refused" /\ f'[n].on = f[n].on
        /\ f'[n].caller = f[n].caller /\ f'[n].guards = {"caller"}
    BY <1>1, <1>5, OwnershipFacts DEF Agree, Fields, Blank
  <2> QED
    BY <1>1, <1>2, <2>1
<1> QED
  BY <1>3, <1>4, <1>5 DEF Schedule

LEMMA RunQueuedStep ==
    ASSUME OwnershipInv, NEW n \in Nodes, RunQueued(n) PROVE OwnershipInv'
<1> DEFINE D == program.nodes
<1>1. /\ n \in DOMAIN D /\ f[n].handler = "queued" /\ UNCHANGED <<program, made, i, checked>>
      /\ f[n].caller \in {"worker", "outside"} /\ f[n].guards \subseteq {"caller", "closure"}
      /\ f' = [f EXCEPT ![n].handler = "run", ![n].on = "worker"]
  BY OwnershipFacts DEF RunQueued, Types
<1>2. f[n].how # "dropped"
  BY <1>1, OwnershipFacts DEF Ownership, Hows
<1>3. /\ Agree(f, f', {"handler", "how", "caller", "on", "guards", "results"})
      /\ \A m \in DOMAIN D : m # n => f'[m] = f[m]
      /\ f'[n].handler = "run" /\ f'[n].how = f[n].how /\ f'[n].on = "worker"
      /\ f'[n].guards = f[n].guards /\ f'[n].caller = f[n].caller
  BY <1>1, OwnershipFacts DEF Agree, Fields, Blank
<1>4. PhaseChanges(D, f, n, f')
  BY <1>1, <1>2, <1>3 DEF PhaseChanges, Handlers, Holding
<1> QED
  BY <1>1, <1>4, PhaseStep

LEMMA DropQueuedStep ==
    ASSUME OwnershipInv, NEW n \in Nodes, DropQueued(n) PROVE OwnershipInv'
<1> DEFINE D == program.nodes
<1>1. /\ n \in DOMAIN D /\ f[n].handler = "queued" /\ UNCHANGED <<program, made, i, checked>>
      /\ f[n].caller \in {"worker", "outside"} /\ f[n].on \in {"worker", "outside"}
      /\ f[n].guards \subseteq {"caller", "closure"}
      /\ f' = [f EXCEPT ![n].handler = "dropped", ![n].how = "dropped"]
  BY OwnershipFacts DEF DropQueued, Types
<1>3. /\ Agree(f, f', {"handler", "how", "caller", "on", "guards", "results"})
      /\ \A m \in DOMAIN D : m # n => f'[m] = f[m]
      /\ f'[n].handler = "dropped" /\ f'[n].how = "dropped" /\ f'[n].on = f[n].on
      /\ f'[n].guards = f[n].guards /\ f'[n].caller = f[n].caller
  BY <1>1, OwnershipFacts DEF Agree, Fields, Blank
<1>4. PhaseChanges(D, f, n, f')
  BY <1>1, <1>3 DEF PhaseChanges, Handlers, Holding
<1> QED
  BY <1>1, <1>4, PhaseStep

\* What a callback or a forwarder that has run may do: fulfil its promise, or put a
\* forwarder on the state of the future it returned.
Finishes(D, s, n, q) ==
    /\ n \in DOMAIN D /\ s[n].handler \in {"run", "dropped"} /\ q[n].handler \in {"ran", "gone"}
    /\ Agree(s, q, {"handler", "guards"})
    /\ \A m \in DOMAIN D : m # n => q[m].handler = s[m].handler

LEMMA RanFacts ==
    ASSUME NEW D, NEW s, NEW md, NEW ii, Ownership(D, s, md, ii),
           NEW n, NEW q, Ownership(D, q, md, ii), Finishes(D, s, n, q),
           s[n].slot = 0, NEW k, k = s[n].to, NEW th \in {"worker", "outside"}
    PROVE  /\ \A t : Ownership(D, SetResult(q, k, t, th), md, ii)
           /\ s[n].handler = "run" /\ s[n].forwards # TRUE /\ D[k].inner # 0 =>
                Ownership(D, SetContinuation(q, q[D[k].inner].alias, k, 0, TRUE, th), md, ii)
<1> USE DEF Finishes
<1>1. Holds(s, n) /\ IsProgram(D) /\ Types(D, s) /\ Promises(D, s) /\ md \in 0 .. Len(D)
  BY DEF Holds, Holding, Ownership
<1>2. /\ k \in DOMAIN D /\ k \in 1 .. md /\ D[k].kind = "then"
      /\ \/ ThenLink(D, s, md, n, k, s[n].slot, s[n].forwards)
         \/ ForwardLink(D, s, md, n, k, s[n].slot, s[n].forwards)
  BY <1>1, HolderLink
<1>3. \A m \in DOMAIN D :
        /\ q[m].alias = s[m].alias /\ q[m].local = s[m].local /\ q[m].result = s[m].result
        /\ q[m].ctx = s[m].ctx /\ q[m].to = s[m].to /\ q[m].slot = s[m].slot
  BY <1>1, AgreeFacts DEF Types
<1>4. q[k].result = Nothing /\ q[k].ctx = {}
  BY <1>1, <1>2, <1>3 DEF Promises
<1>5. ASSUME NEW m \in DOMAIN D, Holds(q, m) PROVE q[m].to # k
  <2>1. m # n /\ Holds(s, m)
    BY <1>3, <1>5 DEF Holds, Holding
  <2> QED
    BY <1>1, <1>3, <2>1, HoldsAlone
<1>6. ASSUME NEW t PROVE Ownership(D, SetResult(q, k, t, th), md, ii)
  <2>1. PICK r : r = SetResult(q, k, t, th)
    OBVIOUS
  <2>2. Ownership(D, r, md, ii)
    BY <1>2, <1>4, <1>5, <2>1, FulfilKeepsOwnership
  <2> QED
    BY <2>1, <2>2
<1>7. ASSUME s[n].handler = "run", s[n].forwards # TRUE, D[k].inner # 0
      PROVE  Ownership(D, SetContinuation(q, q[D[k].inner].alias, k, 0, TRUE, th), md, ii)
  <2>1. PICK x : x = D[k].inner
    OBVIOUS
  <2>2. x \in 1 .. md /\ x \in DOMAIN D
    <3>1. x \in 0 .. k - 1 /\ x # 0 /\ md \in Nat
      BY <1>1, <1>2, <1>7, <2>1, ProgramShape
    <3>2. x \in DOMAIN D
      BY <1>1, <1>2, <1>7, <2>1, ProgramShape
    <3> QED
      BY <1>2, <3>1, <3>2
  <2>3. PICK o : o = s[x].alias
    OBVIOUS
  <2>4. o \in 1 .. md /\ o \in DOMAIN D
    <3>1. o \in 1 .. x /\ md \in Nat
      BY <1>1, <2>2, <2>3 DEF Types
    <3> QED
      BY <1>1, <2>2, <3>1, ProgramShape
  <2>5. ThenLink(D, s, md, n, k, s[n].slot, s[n].forwards)
    BY <1>2, <1>7 DEF ForwardLink
  <2>6. s[k].alias = k /\ s[k].local = FALSE /\ s[D[k].from[1]].alias = n
    BY <2>5 DEF ThenLink
  <2>7. s[o].handler = "none"
    <3> SUFFICES ASSUME s[o].handler # "none" PROVE FALSE
      OBVIOUS
    <3>1. Uses(D, s, k, x)
      BY <2>1, <2>6 DEF Uses
    <3>2. \/ D[k].from[1] = x
          \/ CollectLink(D, s, md, ii, o, k, s[o].slot, s[o].forwards)
          \/ ForwardLink(D, s, md, o, k, s[o].slot, s[o].forwards)
      BY <1>2, <2>2, <2>3, <3>1, ContinuationOfUser
    <3>3. D[k].from[1] # x
      <4>1. 1 \in DOMAIN D[k].from
        BY <1>1, <1>2 DEF IsProgram
      <4> QED
        BY <1>1, <1>2, <2>1, <4>1 DEF IsProgram
    <3>4. ~CollectLink(D, s, md, ii, o, k, s[o].slot, s[o].forwards)
      BY <1>2 DEF CollectLink
    <3>5. ~ForwardLink(D, s, md, o, k, s[o].slot, s[o].forwards)
      BY <1>7, <2>6 DEF ForwardLink
    <3> QED
      BY <3>2, <3>3, <3>4, <3>5
  <2>8. q[o].handler = "none"
    BY <1>7, <2>4, <2>7
  <2>9. ForwardLink(D, q, md, o, k, 0, TRUE)
    <3>1. D[k].from[1] \in DOMAIN D
      BY <1>1, <1>2, ProgramShape
    <3>2. q[k].alias = k /\ q[k].local = FALSE /\ q[D[k].from[1]].alias = n /\ q[x].alias = o
      BY <1>2, <1>3, <2>2, <2>3, <2>6, <3>1
    <3> QED
      BY <1>2, <1>7, <2>1, <3>2 DEF ForwardLink
  <2>10. Link(D, q, md, ii, o, k, 0, TRUE)
    BY <2>9 DEF Link
  <2>11. PICK r : r = SetContinuation(q, o, k, 0, TRUE, th)
    OBVIOUS
  <2>12. Ownership(D, r, md, ii)
    BY <1>2, <1>4, <2>4, <2>8, <2>10, <2>11, SubscribeKeepsOwnership
  <2>13. q[D[k].inner].alias = o
    BY <1>3, <2>1, <2>2, <2>3
  <2> QED
    BY <2>11, <2>12, <2>13
<1> QED
  BY <1>6, <1>7

LEMMA RunStep ==
    ASSUME OwnershipInv, NEW n \in Nodes, Run(n) PROVE OwnershipInv'
<1> DEFINE D == program.nodes
<1>1. /\ n \in DOMAIN D /\ f[n].handler = "run" /\ UNCHANGED <<program, made, i, checked>>
      /\ f[n].caller \in {"worker", "outside"} /\ f[n].on \in {"worker", "outside"}
      /\ f[n].guards \subseteq {"caller", "closure"} /\ Ownership(D, f, made, i)
  BY OwnershipFacts DEF Run, Types
<1>2. PICK q : q = [f EXCEPT ![n].handler = "ran"]
  OBVIOUS
<1>3. f' = Continue(q, n, f[n].on)
  BY <1>2 DEF Run
<1>4. /\ Agree(f, q, {"handler", "guards"})
      /\ Agree(f, q, {"handler", "how", "caller", "on", "guards", "results"})
      /\ \A m \in DOMAIN D : m # n => q[m] = f[m]
      /\ q[n].handler = "ran" /\ q[n].how = f[n].how /\ q[n].on = f[n].on
      /\ q[n].guards = f[n].guards /\ q[n].caller = f[n].caller
      /\ q[n].to = f[n].to /\ q[n].slot = f[n].slot /\ q[n].forwards = f[n].forwards
  BY <1>1, <1>2, OwnershipFacts DEF Agree, Fields, Blank
<1>5. Ownership(D, q, made, i)
  <2>1. f[n].how # "dropped"
    BY <1>1 DEF Ownership, Hows
  <2>2. PhaseChanges(D, f, n, q)
    BY <1>1, <1>4, <2>1 DEF PhaseChanges, Handlers, Holding
  <2> QED
    BY <1>1, <2>2, PhaseKeepsOwnership
<1>6. CASE f[n].slot # 0
  <2>1. PICK k, slot, t : f' = [q EXCEPT ![k].results[slot] = t]
    BY <1>3, <1>4, <1>6 DEF Continue
  <2>2. /\ Agree(q, f', {"handler", "how", "caller", "on", "guards", "results"})
        /\ \A m \in DOMAIN D : /\ f'[m].handler = q[m].handler /\ f'[m].how = q[m].how
                               /\ f'[m].caller = q[m].caller /\ f'[m].on = q[m].on
                               /\ f'[m].guards = q[m].guards
    <3>1. DOMAIN q = DOMAIN D /\ \A m \in DOMAIN D : DOMAIN q[m] = Fields
      BY <1>5 DEF Ownership, Types
    <3> QED
      BY <2>1, <3>1 DEF Agree, Fields, Blank
  <2>3. PhaseChanges(D, q, n, f')
    <3>1. q[n].how # "dropped"
      BY <1>1, <1>4 DEF Ownership, Hows
    <3> QED
      BY <1>1, <1>4, <2>2, <3>1 DEF PhaseChanges, Handlers, Holding
  <2>4. Ownership(D, f', made, i)
    BY <1>5, <2>3, PhaseKeepsOwnership
  <2> QED
    BY <1>1, <2>4, OwnershipKept
<1>7. CASE f[n].slot = 0
  <2>1. PICK k : k = f[n].to
    OBVIOUS
  <2>2. Desc(k) = D[k] /\ q[n].to = k /\ q[n].slot = 0 /\ f[n].on \in {"worker", "outside"}
        /\ q[n].forwards = f[n].forwards
    BY <1>1, <1>4, <1>7, <2>1 DEF Desc
  <2>3. \/ \E t : f' = SetResult(q, k, t, f[n].on)
        \/ /\ f[n].forwards # TRUE /\ D[k].inner # 0
           /\ f' = SetContinuation(q, q[D[k].inner].alias, k, 0, TRUE, f[n].on)
    BY <1>3, <2>2, Zenon DEF Continue
  <2>4. /\ \A t : Ownership(D, SetResult(q, k, t, f[n].on), made, i)
        /\ f[n].handler = "run" /\ f[n].forwards # TRUE /\ D[k].inner # 0 =>
             Ownership(D, SetContinuation(q, q[D[k].inner].alias, k, 0, TRUE, f[n].on), made, i)
    <3>1. Finishes(D, f, n, q)
      BY <1>1, <1>4 DEF Finishes
    <3>2. PICK th : th = f[n].on
      OBVIOUS
    <3>3. th \in {"worker", "outside"}
      BY <1>1, <3>2
    <3>4. /\ \A t : Ownership(D, SetResult(q, k, t, th), made, i)
          /\ f[n].handler = "run" /\ f[n].forwards # TRUE /\ D[k].inner # 0 =>
               Ownership(D, SetContinuation(q, q[D[k].inner].alias, k, 0, TRUE, th), made, i)
      BY <1>1, <1>5, <1>7, <2>1, <3>1, <3>3, RanFacts
    <3> QED
      BY <3>2, <3>4
  <2>5. Ownership(D, f', made, i)
    BY <1>1, <2>3, <2>4
  <2> QED
    BY <1>1, <2>5, OwnershipKept
<1> QED
  BY <1>6, <1>7

LEMMA GuardDoneStep ==
    ASSUME OwnershipInv, NEW n \in Nodes, NEW g \in {"caller", "closure"}, GuardDone(n, g)
    PROVE  OwnershipInv'
<1> DEFINE D == program.nodes
<1>1. /\ n \in DOMAIN D /\ UNCHANGED <<program, made, i, checked>>
      /\ f[n].caller \in {"worker", "outside"} /\ f[n].on \in {"worker", "outside"}
      /\ f[n].guards \subseteq {"caller", "closure"} /\ f[n].handler \in Handlers
      /\ Ownership(D, f, made, i) /\ Hows(D, f) /\ Links(D, f, made, i)
      /\ IsProgram(D) /\ made \in 0 .. Len(D)
  BY OwnershipFacts DEF GuardDone, Types, Ownership
<1>2. PICK s : s = [f EXCEPT ![n].guards = f[n].guards \ {g}]
  OBVIOUS
<1>3. PICK th : th = IF g = "closure" /\ f[n].how # "dropped" THEN "worker" ELSE f[n].caller
  OBVIOUS
<1>4. /\ f' = IF s[n].guards = {} THEN DestroyClosure(s, n, th) ELSE s
      /\ th \in {"worker", "outside"}
  <2>1. f' = IF s[n].guards = {} THEN DestroyClosure(s, n, th) ELSE s
    BY <1>2, <1>3 DEF GuardDone
  <2> QED
    BY <1>1, <1>3, <2>1
<1>5. /\ Agree(f, s, {"handler", "how", "caller", "on", "guards", "results"})
      /\ \A m \in DOMAIN D : m # n => s[m] = f[m]
      /\ s[n].guards = f[n].guards \ {g} /\ s[n].handler = f[n].handler /\ s[n].how = f[n].how
      /\ s[n].caller = f[n].caller /\ s[n].on = f[n].on
      /\ s[n].to = f[n].to /\ s[n].slot = f[n].slot
  BY <1>1, <1>2, OwnershipFacts DEF Agree, Fields, Blank
<1>6. CASE s[n].guards # {}
  <2>1. f' = s
    BY <1>4, <1>6
  <2>2. PhaseChanges(D, f, n, s)
    BY <1>1, <1>5 DEF PhaseChanges, Hows
  <2>3. PhaseChanges(D, f, n, f')
    BY <2>1, <2>2
  <2> QED
    BY <1>1, <2>3, PhaseStep
<1>7. CASE s[n].guards = {}
  <2>1. f' = DestroyClosure(s, n, th)
    BY <1>4, <1>7
  <2>2. f[n].handler \in {"ran", "dropped"}
    BY <1>5, <1>7 DEF GuardDone
  <2>3. PICK q : q = [s EXCEPT ![n].handler = "gone"]
    OBVIOUS
  <2>4. /\ Agree(f, q, {"handler", "guards"})
        /\ Agree(f, q, {"handler", "how", "caller", "on", "guards", "results"})
        /\ \A m \in DOMAIN D : m # n => q[m] = f[m]
        /\ q[n].guards = {} /\ q[n].handler = "gone" /\ q[n].how = f[n].how
        /\ q[n].caller = f[n].caller /\ q[n].on = f[n].on
    <3>1. q = [f EXCEPT ![n].guards = {}, ![n].handler = "gone"]
      BY <1>1, <1>2, <1>5, <1>7, <2>3, OwnershipFacts
    <3> QED
      BY <1>1, <3>1, OwnershipFacts DEF Agree, Fields, Blank
  <2>5. Ownership(D, q, made, i)
    <3>1. PhaseChanges(D, f, n, q)
      BY <1>1, <2>2, <2>4 DEF PhaseChanges, Handlers, Holding
    <3> QED
      BY <1>1, <3>1, PhaseKeepsOwnership
  <2>6. f' = IF f[n].slot # 0 THEN Release(q, f[n].to, f[n].slot, th)
             ELSE IF f[n].how = "dropped" THEN SetResult(q, f[n].to, Broken(f[n].to), th)
             ELSE q
    BY <1>5, <2>1, <2>3, Zenon DEF DestroyClosure
  <2>7. Ownership(D, f', made, i)
    <3>1. CASE f[n].slot # 0
      <4>1. PICK k : k = f[n].to
        OBVIOUS
      <4>2. PICK owner : owner = f[n].slot
        OBVIOUS
      <4>3. CollectLink(D, f, made, i, n, k, f[n].slot, f[n].forwards)
        <5>1. Link(D, f, made, i, n, k, f[n].slot, f[n].forwards)
          BY <1>1, <2>2, <4>1 DEF Links
        <5> QED
          BY <3>1, <5>1 DEF Link, ThenLink, ForwardLink
      <4>4. k \in DOMAIN D /\ D[k].kind = "collect" /\ owner # 0
        BY <3>1, <4>2, <4>3 DEF CollectLink
      <4>5. f' = Release(q, k, owner, th)
        BY <2>6, <3>1, <4>1, <4>2
      <4> QED
        BY <1>4, <2>5, <4>4, <4>5, ReleaseKeepsOwnership
    <3>2. CASE f[n].slot = 0 /\ f[n].how = "dropped"
      <4>1. PICK k : k = f[n].to
        OBVIOUS
      <4>2. Finishes(D, f, n, q)
        <5>1. f[n].handler = "dropped"
          BY <1>1, <2>2, <3>2 DEF Hows
        <5> QED
          BY <1>1, <2>4, <5>1 DEF Finishes
      <4>3. \A t : Ownership(D, SetResult(q, k, t, th), made, i)
        BY <1>1, <1>4, <2>5, <3>2, <4>1, <4>2, RanFacts
      <4> QED
        BY <2>6, <3>2, <4>1, <4>3
    <3>3. CASE f[n].slot = 0 /\ f[n].how # "dropped"
      BY <2>5, <2>6, <3>3
    <3> QED
      BY <3>1, <3>2, <3>3
  <2> QED
    BY <1>1, <2>7, OwnershipKept
<1> QED
  BY <1>6, <1>7

-----------------------------------------------------------------------------
(* The theorems.                                                            *)
LEMMA OwnershipStep == ASSUME OwnershipInv, [Next]_vars PROVE OwnershipInv'
<1>1. ASSUME MakeStep PROVE OwnershipInv'
  BY <1>1, MakeSourceStep, MakeReadyFutureStep, ThenSharedStep, ThenLocalValueStep,
     ThenLocalFutureStep, CollectAllStep, CollectCheckStep, CollectSetContinuationStep,
     CollectReturnStep DEF MakeStep
<1>2. ASSUME NEW k \in Nodes, NEW th \in {"worker", "outside"}, Settle(k, th)
      PROVE  OwnershipInv'
  BY <1>2, SettleStep
<1>3. ASSUME ContinuationStep PROVE OwnershipInv'
  BY <1>3, ScheduleStep, RunQueuedStep, DropQueuedStep, RunStep, GuardDoneStep
     DEF ContinuationStep
<1>4. ASSUME UNCHANGED vars PROVE OwnershipInv'
  BY <1>4, OwnershipFacts, OwnershipKept DEF vars
<1> QED
  BY <1>1, <1>2, <1>3, <1>4 DEF Next, Step, Terminated

LEMMA OwnershipAlways == Spec => []OwnershipInv
<1> QED
  BY InitOwnership, OwnershipStep, PTL DEF Spec

LEMMA OwnershipNoFault == ASSUME OwnershipInv PROVE NoFault
<1> DEFINE D == program.nodes
<1>1. Nodes = DOMAIN D /\ made \in 0 .. Len(D) /\ i \in Nat /\ checked \in BOOLEAN
      /\ Types(D, f) /\ program \in Programs /\ \A m \in DOMAIN D : Desc(m) = D[m]
  BY OwnershipFacts DEF OwnershipInv
<1>2. \A k \in DOMAIN D : f[k].twice = FALSE
  BY <1>1 DEF Types
<1>3. TypeOK
  BY <1>1 DEF TypeOK, Types
<1> QED
  BY <1>1, <1>2, <1>3, Zenon DEF NoFault

\* ChainNoFault: no result and no continuation of a FutureState is ever set twice
\* (future_state.hpp, SetResult and SetContinuation, which throw), whichever threads
\* run, refuse or destroy the continuations of a program of futures.
THEOREM ChainNoFault == Spec => []NoFault
BY OwnershipAlways, OwnershipNoFault, PTL

-----------------------------------------------------------------------------
(* InheritedExecutor is defined by recursion along from[1].  Its equation has *)
(* a solution, built up node by node, and only one.                          *)
LEMMA ExecutorsOfSome ==
    ASSUME NEW D, IsProgram(D), NEW s, NEW md \in Nat, md <= Len(D)
    PROVE  \E E : E = [k \in 1 .. md |-> Inherits(D, s, E, k)]
<1> DEFINE Solved(m) == \E E : E = [k \in 1 .. m |-> Inherits(D, s, E, k)]
           T == {m \in Nat : m <= Len(D) /\ ~Solved(m)}
<1>0. Len(D) \in Nat /\ DOMAIN D = 1 .. Len(D)
  BY ProgramShape
<1>1. SUFFICES ASSUME T # {} PROVE FALSE
  OBVIOUS
<1>2. PICK m \in T : \A y \in T : m <= y
  <2>1. T \subseteq Nat
    OBVIOUS
  <2> QED
    BY <1>1, <2>1, LeastNat
<1>3. m \in Nat /\ m <= Len(D) /\ ~Solved(m)
  BY <1>2
<1>4. m # 0
  <2>1. 1 .. 0 = {}
    OBVIOUS
  <2>2. PICK E : E = [k \in 1 .. 0 |-> "none"]
    OBVIOUS
  <2>3. E = [k \in 1 .. 0 |-> Inherits(D, s, E, k)]
    BY <2>1, <2>2
  <2> QED
    BY <1>3, <2>3
<1>5. m - 1 \in Nat /\ m - 1 <= Len(D) /\ ~(m <= m - 1) /\ m \in DOMAIN D
  BY <1>0, <1>3, <1>4
<1>6. Solved(m - 1)
  BY <1>2, <1>5
<1>7. PICK E : E = [k \in 1 .. m - 1 |-> Inherits(D, s, E, k)]
  BY <1>6
<1>8. PICK F : F = [k \in 1 .. m |-> IF k = m THEN Inherits(D, s, E, m) ELSE E[k]]
  OBVIOUS
<1>9. \A k \in 1 .. m - 1 : F[k] = E[k]
  BY <1>3, <1>8
<1>10. ASSUME NEW k \in 1 .. m PROVE Inherits(D, s, F, k) = Inherits(D, s, E, k)
  <2>1. k \in DOMAIN D
    BY <1>0, <1>3
  <2>2. D[k].kind = "then" => D[k].from[1] \in 1 .. m - 1
    <3>1. D[k].kind = "then" => D[k].from[1] \in 1 .. k - 1
      BY <2>1, ProgramShape
    <3> QED
      BY <1>3, <3>1
  <2> QED
    BY <1>9, <2>2 DEF Inherits
<1>11. ASSUME NEW k \in 1 .. m PROVE F[k] = Inherits(D, s, E, k)
  <2>1. CASE k = m
    BY <1>8, <2>1
  <2>2. CASE k # m
    <3>1. k \in 1 .. m - 1
      BY <1>3, <2>2
    <3> QED
      BY <1>7, <1>9, <3>1
  <2> QED
    BY <2>1, <2>2
<1>12. F = [k \in 1 .. m |-> Inherits(D, s, F, k)]
  <2>1. \A k \in 1 .. m : F[k] = Inherits(D, s, F, k)
    BY <1>10, <1>11
  <2> QED
    BY <1>8, <2>1
<1> QED
  BY <1>3, <1>12

LEMMA ExecutorsInherited ==
    ASSUME NEW D, IsProgram(D), NEW s
    PROVE  Inherited(D, s, Executors(D, s))
<1>1. Len(D) \in Nat /\ DOMAIN D = 1 .. Len(D)
  BY ProgramShape
<1>2. \E E : E = [k \in 1 .. Len(D) |-> Inherits(D, s, E, k)]
  <2>1. PICK md : md = Len(D)
    OBVIOUS
  <2>2. md \in Nat /\ md <= Len(D)
    BY <1>1, <2>1
  <2>3. \E E : E = [k \in 1 .. md |-> Inherits(D, s, E, k)]
    BY <2>2, ExecutorsOfSome
  <2> QED
    BY <2>1, <2>3
<1>3. \E E : Inherited(D, s, E)
  BY <1>1, <1>2 DEF Inherited
<1> QED
  BY <1>3 DEF Executors

LEMMA ExecutorsOfState ==
    /\ InheritedExecutor = Executors(program.nodes, f)
    /\ InheritedExecutor' = Executors(program.nodes', f')
<1>1. InheritedExecutor = Executors(program.nodes, f)
  BY DEF InheritedExecutor, Executors, Inherited, Inherits, Loses, Fails, LosesExecutor,
         FailsFirst, Input, Nodes, Desc
<1>2. InheritedExecutor' = Executors(program.nodes', f')
  BY DEF InheritedExecutor, Executors, Inherited, Inherits, Loses, Fails, LosesExecutor,
         FailsFirst, Input, Nodes, Desc
<1> QED
  BY <1>1, <1>2

\* What the made futures inherit does not change.
LEMMA SameExecutors ==
    ASSUME NEW D, IsProgram(D), NEW s, NEW r, NEW md \in 0 .. Len(D),
           \A k \in 1 .. md : D[k].kind = "then" => (Loses(D, r, k) <=> Loses(D, s, k))
    PROVE  \A k \in 1 .. md : Executors(D, r)[k] = Executors(D, s)[k]
<1> DEFINE T == {k \in 1 .. md : Executors(D, r)[k] # Executors(D, s)[k]}
<1>0. Len(D) \in Nat /\ DOMAIN D = 1 .. Len(D) /\ md \in Nat
  BY ProgramShape
<1>1. SUFFICES ASSUME T # {} PROVE FALSE
  OBVIOUS
<1>2. PICK k \in T : \A y \in T : k <= y
  <2>1. T \subseteq Nat
    OBVIOUS
  <2> QED
    BY <1>1, <2>1, LeastNat
<1>3. PICK E : E = Executors(D, s)
  OBVIOUS
<1>4. PICK F : F = Executors(D, r)
  OBVIOUS
<1>5. k \in 1 .. md /\ k \in DOMAIN D /\ F[k] # E[k]
  BY <1>0, <1>2, <1>3, <1>4
<1>6. E[k] = Inherits(D, s, E, k) /\ F[k] = Inherits(D, r, F, k)
  <2>1. Inherited(D, s, E) /\ Inherited(D, r, F)
    BY <1>3, <1>4, ExecutorsInherited
  <2> QED
    BY <1>5, <2>1 DEF Inherited
<1>7. D[k].kind = "then" => F[D[k].from[1]] = E[D[k].from[1]]
  <2>1. D[k].kind = "then" => D[k].from[1] \in 1 .. k - 1
    BY <1>5, ProgramShape
  <2>2. D[k].kind = "then" => D[k].from[1] \in 1 .. md /\ ~(k <= D[k].from[1])
    BY <1>0, <1>5, <2>1
  <2> QED
    BY <1>2, <1>3, <1>4, <2>2
<1>8. Inherits(D, r, F, k) = Inherits(D, s, E, k)
  BY <1>5, <1>7 DEF Inherits
<1> QED
  BY <1>5, <1>6, <1>8

\* Of the states s and r, s is the earlier.  No executor is taken away and what a
\* LocalState holds stays.
Quiet(D, s, r, X) ==
    \A m \in DOMAIN D : m \notin X =>
        /\ r[m].alias = s[m].alias /\ r[m].local = s[m].local
        /\ s[m].local => r[m].result = s[m].result
        /\ s[m].executor = "ex" => r[m].executor = "ex"

\* The one step in which the future k gets its executor.
Equips(D, s, r, k) ==
    /\ D[k].kind \in {"source", "ready"} /\ D[k].executor = "ex" => r[r[k].alias].executor = "ex"
    /\ D[k].kind = "then" /\ ~Loses(D, s, k) /\ s[s[D[k].from[1]].alias].executor = "ex" =>
          r[r[k].alias].executor = "ex"

LEMMA EquippedGrows ==
    ASSUME NEW D, NEW s, NEW md, NEW ii, Ownership(D, s, md, ii), Equipped(D, s, md),
           NEW r, NEW X, Quiet(D, s, r, X), \A m \in 1 .. md : m \notin X,
           NEW me, me = md \/ (me = md + 1 /\ me \in DOMAIN D /\ Equips(D, s, r, me))
    PROVE  Equipped(D, r, me)
<1>1. IsProgram(D) /\ md \in 0 .. Len(D) /\ md \in Nat /\ Types(D, s)
      /\ Len(D) \in Nat /\ DOMAIN D = 1 .. Len(D)
  BY ProgramShape DEF Ownership
<1>2. me \in 0 .. Len(D) /\ me \in Nat /\ \A j \in 1 .. me : j \in DOMAIN D
  BY <1>1
<1>3. \A m \in 1 .. md : /\ s[m].alias \in 1 .. md /\ r[m].alias = s[m].alias
                         /\ r[m].local = s[m].local
                         /\ s[m].local => r[m].result = s[m].result
                         /\ s[m].executor = "ex" => r[m].executor = "ex"
  <2>1. \A m \in 1 .. md : m \in DOMAIN D /\ s[m].alias \in 1 .. m
    BY <1>1 DEF Types
  <2> QED
    BY <1>1, <2>1 DEF Quiet
<1>4. \A j \in 1 .. me : D[j].kind = "then" => D[j].from[1] \in 1 .. md
  <2>1. \A j \in 1 .. me : D[j].kind = "then" => D[j].from[1] \in 1 .. j - 1
    BY <1>2, <1>1, ProgramShape
  <2> QED
    BY <1>1, <1>2, <2>1
<1>5. \A j \in 1 .. me : D[j].kind = "then" => (Loses(D, r, j) <=> Loses(D, s, j))
  BY <1>3, <1>4 DEF Loses
<1>6. PICK E : E = Executors(D, s)
  OBVIOUS
<1>7. PICK F : F = Executors(D, r)
  OBVIOUS
<1>8. \A j \in 1 .. me : F[j] = E[j]
  BY <1>1, <1>2, <1>5, <1>6, <1>7, SameExecutors
<1>9. ASSUME NEW j \in 1 .. me, F[j] = "ex" PROVE r[r[j].alias].executor = "ex"
  <2>1. CASE j \in 1 .. md
    BY <1>3, <1>6, <1>8, <1>9, <2>1 DEF Equipped
  <2>2. CASE j \notin 1 .. md
    <3>1. j = me /\ j \in DOMAIN D /\ Equips(D, s, r, j)
      BY <1>1, <1>2, <2>2
    <3>2. F[j] = Inherits(D, r, F, j)
      <4>1. Inherited(D, r, F)
        BY <1>1, <1>7, ExecutorsInherited
      <4> QED
        BY <3>1, <4>1 DEF Inherited
    <3>3. CASE D[j].kind # "then"
      <4>1. D[j].kind \in {"source", "ready"} /\ D[j].executor = "ex"
        <5>1. D[j].kind \in {"source", "ready", "then", "collect"}
          BY <1>1, <3>1 DEF IsProgram
        <5> QED
          BY <1>9, <3>2, <3>3, <5>1 DEF Inherits
      <4> QED
        BY <3>1, <4>1 DEF Equips
    <3>4. CASE D[j].kind = "then"
      <4>1. ~Loses(D, r, j) /\ F[D[j].from[1]] = "ex"
        BY <1>9, <3>2, <3>4 DEF Inherits
      <4>2. D[j].from[1] \in 1 .. md /\ D[j].from[1] \in 1 .. me
        <5>1. md <= me
          BY <1>1
        <5> QED
          BY <1>1, <1>2, <1>4, <3>4, <5>1
      <4>3. E[D[j].from[1]] = "ex" /\ ~Loses(D, s, j)
        BY <1>5, <1>8, <3>4, <4>1, <4>2
      <4>4. s[s[D[j].from[1]].alias].executor = "ex"
        BY <1>6, <4>2, <4>3 DEF Equipped
      <4> QED
        BY <3>1, <3>4, <4>3, <4>4 DEF Equips
    <3> QED
      BY <3>3, <3>4
  <2> QED
    BY <2>1, <2>2
<1> QED
  BY <1>7, <1>9 DEF Equipped

LEMMA QuietKeepsExecutors ==
    ASSUME OwnershipInv, ExecutorInv, program' = program, made' = made,
           Quiet(program.nodes, f, f', {}), Placed(program.nodes, f')
    PROVE  ExecutorInv'
<1> DEFINE D == program.nodes
<1>1. Ownership(D, f, made, i) /\ Equipped(D, f, made) /\ SourcesShared(D, f)
  BY OwnershipFacts DEF ExecutorInv
<1>2. Equipped(D, f', made)
  <2>1. \A m \in 1 .. made : m \notin {}
    OBVIOUS
  <2> QED
    BY <1>1, <2>1, EquippedGrows
<1>3. SourcesShared(D, f')
  BY <1>1 DEF SourcesShared, Quiet
<1> QED
  BY <1>2, <1>3 DEF ExecutorInv

LEMMA MakeKeepsExecutors ==
    ASSUME OwnershipInv, ExecutorInv, NEW k \in DOMAIN program.nodes, k = made + 1,
           program' = program, made' = k,
           Quiet(program.nodes, f, f', {k}), Placed(program.nodes, f'),
           Equips(program.nodes, f, f', k),
           program.nodes[k].kind = "source" => f'[k].local = FALSE
    PROVE  ExecutorInv'
<1> DEFINE D == program.nodes
<1>1. Ownership(D, f, made, i) /\ Equipped(D, f, made) /\ SourcesShared(D, f)
  BY OwnershipFacts DEF ExecutorInv
<1>2. Equipped(D, f', k)
  <2>1. \A m \in 1 .. made : m \notin {k}
    BY OwnershipFacts
  <2> QED
    BY <1>1, <2>1, EquippedGrows
<1>3. SourcesShared(D, f')
  BY <1>1 DEF SourcesShared, Quiet
<1> QED
  BY <1>2, <1>3 DEF ExecutorInv

-----------------------------------------------------------------------------
(* The channel operations leave the executors alone.                        *)
LEMMA SetResultQuiet ==
    ASSUME NEW D, NEW s, Types(D, s), Placed(D, s), NEW k \in DOMAIN D, s[k].local = FALSE,
           NEW t, NEW th, NEW r, r = SetResult(s, k, t, th)
    PROVE  Quiet(D, s, r, {}) /\ Placed(D, r)
<1>1. DOMAIN s = DOMAIN D /\ \A m \in DOMAIN s : DOMAIN s[m] = Fields
  BY DEF Types
<1>2. /\ Agree(s, r, {"result", "twice", "handler", "caller"})
      /\ \A m \in DOMAIN s : m # k => r[m] = s[m]
      /\ r[k].handler = IF s[k].handler = "set" THEN "due" ELSE s[k].handler
  BY <1>1, SetResultEffect
<1>3. \A m \in DOMAIN D :
        /\ r[m].alias = s[m].alias /\ r[m].local = s[m].local /\ r[m].executor = s[m].executor
        /\ r[m].how = s[m].how /\ r[m].on = s[m].on
  BY <1>1, <1>2, AgreeFacts
<1>4. \A m \in DOMAIN D : r[m].handler \in {"run", "ran"} => s[m].handler = r[m].handler
  BY <1>1, <1>2
<1> QED
  BY <1>1, <1>2, <1>3, <1>4 DEF Quiet, Placed

LEMMA SetContinuationQuiet ==
    ASSUME NEW D, NEW s, Types(D, s), Placed(D, s), NEW n \in DOMAIN D,
           NEW to, NEW slot, NEW forwards, NEW th,
           NEW r, r = SetContinuation(s, n, to, slot, forwards, th)
    PROVE  Quiet(D, s, r, {}) /\ Placed(D, r)
<1>1. DOMAIN s = DOMAIN D /\ \A m \in DOMAIN s : DOMAIN s[m] = Fields
  BY DEF Types
<1>2. /\ Agree(s, r, {"to", "slot", "forwards", "twice", "handler", "how", "caller",
                      "on", "guards"})
      /\ \A m \in DOMAIN s : m # n => r[m] = s[m]
      /\ r[n].handler = IF s[n].result = Nothing THEN "set" ELSE "run"
      /\ r[n].how = IF s[n].result = Nothing THEN s[n].how ELSE "trigger"
  BY <1>1, SetContinuationEffect
<1>3. \A m \in DOMAIN D :
        /\ r[m].alias = s[m].alias /\ r[m].local = s[m].local /\ r[m].executor = s[m].executor
        /\ r[m].result = s[m].result
  BY <1>1, <1>2, AgreeFacts
<1>4. r[n].handler \in {"run", "ran"} => r[n].how = "trigger"
  BY <1>2
<1> QED
  BY <1>1, <1>2, <1>3, <1>4 DEF Quiet, Placed

LEMMA ReleaseQuiet ==
    ASSUME NEW D, NEW s, NEW md, NEW ii, Ownership(D, s, md, ii), Placed(D, s),
           NEW k \in DOMAIN D, NEW owner, NEW th, NEW r, r = Release(s, k, owner, th)
    PROVE  Quiet(D, s, r, {}) /\ Placed(D, r)
<1>1. Types(D, s) /\ DOMAIN s = DOMAIN D /\ \A m \in DOMAIN s : DOMAIN s[m] = Fields
  BY DEF Ownership, Types
<1>2. ASSUME NEW q, NEW ctx, ctx \subseteq s[k].ctx, q = [s EXCEPT ![k].ctx = ctx]
      PROVE  Quiet(D, s, q, {}) /\ Placed(D, q) /\ Types(D, q) /\ q[k].local = s[k].local
  <2>1. /\ Agree(s, q, {"ctx"}) /\ q[k].ctx = ctx
        /\ \A m \in DOMAIN D : m # k => q[m] = s[m]
    BY <1>1, <1>2 DEF Agree, Fields, Blank
  <2>2. \A m \in DOMAIN D :
          /\ DOMAIN q[m] = Fields /\ q[m].twice = s[m].twice
          /\ q[m].alias = s[m].alias /\ q[m].local = s[m].local /\ q[m].executor = s[m].executor
          /\ q[m].how = s[m].how /\ q[m].on = s[m].on /\ q[m].handler = s[m].handler
          /\ q[m].result = s[m].result /\ q[m].caller = s[m].caller /\ q[m].guards = s[m].guards
    BY <1>1, <2>1, AgreeFacts
  <2>3. q[k].ctx \subseteq 0 .. Len(D[k].from)
    BY <1>1, <1>2, <2>1 DEF Types
  <2>4. Types(D, q)
    <3>1. DOMAIN q = DOMAIN D
      BY <1>1, <2>1 DEF Agree
    <3>2. \A m \in DOMAIN D : q[m].ctx \subseteq 0 .. Len(D[m].from)
      BY <1>1, <2>1, <2>3 DEF Types
    <3> QED
      BY <1>1, <2>2, <3>1, <3>2 DEF Types
  <2> QED
    BY <2>2, <2>4 DEF Quiet, Placed
<1>3. CASE s[k].ctx = {owner}
  <2>1. PICK q : q = [s EXCEPT ![k].ctx = {}]
    OBVIOUS
  <2>2. Quiet(D, s, q, {}) /\ Placed(D, q) /\ Types(D, q) /\ q[k].local = s[k].local
    <3>1. PICK ctx : ctx = {}
      OBVIOUS
    <3>2. ctx \subseteq s[k].ctx /\ q = [s EXCEPT ![k].ctx = ctx]
      BY <2>1, <3>1
    <3> QED
      BY <1>2, <3>2
  <2>3. s[k].local = FALSE
    BY <1>3 DEF Ownership, Promises
  <2>4. r = SetResult(q, k, Value(k, s[k].results), th)
    BY <1>3, <2>1 DEF Release
  <2>5. Quiet(D, q, r, {}) /\ Placed(D, r)
    BY <2>2, <2>3, <2>4, SetResultQuiet
  <2> QED
    BY <2>2, <2>5 DEF Quiet
<1>4. CASE s[k].ctx # {owner}
  <2>1. PICK ctx : ctx = s[k].ctx \ {owner}
    OBVIOUS
  <2>2. ctx \subseteq s[k].ctx /\ r = [s EXCEPT ![k].ctx = ctx]
    BY <1>4, <2>1 DEF Release
  <2> QED
    BY <1>2, <2>2
<1> QED
  BY <1>3, <1>4

-----------------------------------------------------------------------------
(* Every step keeps the executors.                                          *)
LEMMA ExecutorFacts ==
    ASSUME OwnershipInv, ExecutorInv
    PROVE  LET D == program.nodes IN
           /\ Ownership(D, f, made, i) /\ Types(D, f) /\ Placed(D, f) /\ DOMAIN f = DOMAIN D
           /\ \A m \in DOMAIN D : DOMAIN f[m] = Fields
           /\ Nodes = DOMAIN D /\ \A m \in DOMAIN D : Desc(m) = D[m]
BY OwnershipFacts DEF ExecutorInv

LEMMA SettleExecutors ==
    ASSUME OwnershipInv, ExecutorInv, NEW k \in Nodes, NEW th \in {"worker", "outside"},
           Settle(k, th)
    PROVE  ExecutorInv'
<1> DEFINE D == program.nodes
<1>1. k \in DOMAIN D /\ D[k].kind = "source" /\ program' = program /\ made' = made
  BY ExecutorFacts DEF Settle
<1>2. f[k].local = FALSE
  BY <1>1 DEF ExecutorInv, SourcesShared
<1>3. PICK t : f' = SetResult(f, k, t, th)
  BY DEF Settle
<1>4. Types(D, f) /\ Placed(D, f)
  BY ExecutorFacts
<1>5. Quiet(D, f, f', {}) /\ Placed(D, f')
  BY <1>1, <1>2, <1>3, <1>4, SetResultQuiet
<1> QED
  BY <1>1, <1>5, QuietKeepsExecutors

LEMMA ScheduleExecutors ==
    ASSUME OwnershipInv, ExecutorInv, NEW n \in Nodes, Schedule(n) PROVE ExecutorInv'
<1> DEFINE D == program.nodes
<1>1. /\ n \in DOMAIN D /\ f[n].handler = "due" /\ program' = program /\ made' = made
      /\ f[n].executor \in {"none", "ex"} /\ f[n].caller \in {"worker", "outside"}
  BY ExecutorFacts DEF Schedule, Types
<1>2. ASSUME /\ Agree(f, f', {"handler", "how", "on", "guards"})
             /\ \A m \in DOMAIN D : m # n => f'[m] = f[m]
             /\ f'[n].handler = "run" /\ f'[n].on = "outside" =>
                  f'[n].how = "refused" \/ f[n].executor = "none"
             /\ f'[n].handler # "ran"
      PROVE  ExecutorInv'
  <2>1. \A m \in DOMAIN D :
          /\ f'[m].alias = f[m].alias /\ f'[m].local = f[m].local
          /\ f'[m].executor = f[m].executor /\ f'[m].result = f[m].result
    BY <1>2, ExecutorFacts, AgreeFacts
  <2>2. Quiet(D, f, f', {})
    BY <2>1 DEF Quiet
  <2>3. Placed(D, f')
    BY <1>2, <2>1, ExecutorFacts DEF Placed
  <2> QED
    BY <1>1, <2>2, <2>3, QuietKeepsExecutors
<1>3. CASE /\ f[n].executor = "none" \/ f[n].caller = "worker"
           /\ f' = [f EXCEPT ![n].handler = "run", ![n].how = "inline", ![n].on = f[n].caller,
                             ![n].guards = {"caller"}]
  <2>1. /\ Agree(f, f', {"handler", "how", "on", "guards"})
        /\ \A m \in DOMAIN D : m # n => f'[m] = f[m]
        /\ f'[n].handler = "run" /\ f'[n].on = f[n].caller
    BY <1>1, <1>3, ExecutorFacts DEF Agree, Fields, Blank
  <2> QED
    BY <1>2, <1>3, <2>1
<1>4. CASE f' = [f EXCEPT ![n].handler = "queued", ![n].how = "scheduled",
                          ![n].guards = {"caller", "closure"}]
  <2>1. /\ Agree(f, f', {"handler", "how", "on", "guards"})
        /\ \A m \in DOMAIN D : m # n => f'[m] = f[m]
        /\ f'[n].handler = "queued"
    BY <1>1, <1>4, ExecutorFacts DEF Agree, Fields, Blank
  <2> QED
    BY <1>2, <2>1
<1>5. CASE f' = [f EXCEPT ![n].handler = "run", ![n].how = "refused", ![n].guards = {"caller"}]
  <2>1. /\ Agree(f, f', {"handler", "how", "on", "guards"})
        /\ \A m \in DOMAIN D : m # n => f'[m] = f[m]
        /\ f'[n].handler = "run" /\ f'[n].how = "refused"
    BY <1>1, <1>5, ExecutorFacts DEF Agree, Fields, Blank
  <2> QED
    BY <1>2, <2>1
<1> QED
  BY <1>3, <1>4, <1>5 DEF Schedule

LEMMA RunQueuedExecutors ==
    ASSUME OwnershipInv, ExecutorInv, NEW n \in Nodes, RunQueued(n) PROVE ExecutorInv'
<1> DEFINE D == program.nodes
<1>1. /\ n \in DOMAIN D /\ program' = program /\ made' = made
      /\ f' = [f EXCEPT ![n].handler = "run", ![n].on = "worker"]
  BY ExecutorFacts DEF RunQueued
<1>2. /\ Agree(f, f', {"handler", "on"}) /\ \A m \in DOMAIN D : m # n => f'[m] = f[m]
      /\ f'[n].on = "worker"
  BY <1>1, ExecutorFacts DEF Agree, Fields, Blank
<1>3. \A m \in DOMAIN D :
        /\ f'[m].alias = f[m].alias /\ f'[m].local = f[m].local
        /\ f'[m].executor = f[m].executor /\ f'[m].result = f[m].result
  BY <1>2, ExecutorFacts, AgreeFacts
<1>4. Quiet(D, f, f', {}) /\ Placed(D, f')
  BY <1>2, <1>3, ExecutorFacts DEF Quiet, Placed
<1> QED
  BY <1>1, <1>4, QuietKeepsExecutors

LEMMA DropQueuedExecutors ==
    ASSUME OwnershipInv, ExecutorInv, NEW n \in Nodes, DropQueued(n) PROVE ExecutorInv'
<1> DEFINE D == program.nodes
<1>1. /\ n \in DOMAIN D /\ program' = program /\ made' = made
      /\ f' = [f EXCEPT ![n].handler = "dropped", ![n].how = "dropped"]
  BY ExecutorFacts DEF DropQueued
<1>2. /\ Agree(f, f', {"handler", "how"}) /\ \A m \in DOMAIN D : m # n => f'[m] = f[m]
      /\ f'[n].handler = "dropped"
  BY <1>1, ExecutorFacts DEF Agree, Fields, Blank
<1>3. \A m \in DOMAIN D :
        /\ f'[m].alias = f[m].alias /\ f'[m].local = f[m].local
        /\ f'[m].executor = f[m].executor /\ f'[m].result = f[m].result
  BY <1>2, ExecutorFacts, AgreeFacts
<1>4. Quiet(D, f, f', {}) /\ Placed(D, f')
  BY <1>2, <1>3, ExecutorFacts DEF Quiet, Placed
<1> QED
  BY <1>1, <1>4, QuietKeepsExecutors

LEMMA RunExecutors ==
    ASSUME OwnershipInv, ExecutorInv, NEW n \in Nodes, Run(n) PROVE ExecutorInv'
<1> DEFINE D == program.nodes
<1>1. /\ n \in DOMAIN D /\ f[n].handler = "run" /\ program' = program /\ made' = made
  BY ExecutorFacts DEF Run
<1>2. PICK q : q = [f EXCEPT ![n].handler = "ran"]
  OBVIOUS
<1>3. f' = Continue(q, n, f[n].on)
  BY <1>2 DEF Run
<1>4. /\ Agree(f, q, {"handler"}) /\ \A m \in DOMAIN D : m # n => q[m] = f[m]
      /\ q[n].handler = "ran" /\ q[n].to = f[n].to /\ q[n].slot = f[n].slot
  BY <1>1, <1>2, ExecutorFacts DEF Agree, Fields, Blank
<1>5. DOMAIN q = DOMAIN D /\ \A m \in DOMAIN D :
        /\ DOMAIN q[m] = Fields /\ q[m].twice = f[m].twice
        /\ q[m].alias = f[m].alias /\ q[m].local = f[m].local /\ q[m].executor = f[m].executor
        /\ q[m].how = f[m].how /\ q[m].on = f[m].on
        /\ q[m].result = f[m].result /\ q[m].caller = f[m].caller /\ q[m].guards = f[m].guards
        /\ q[m].ctx = f[m].ctx
  BY <1>4, ExecutorFacts, AgreeFacts
<1>6. Types(D, q)
  <2>1. \A m \in DOMAIN D : q[m].handler \in Handlers
    BY <1>4, ExecutorFacts DEF Types, Handlers
  <2>2. Types(D, f)
    BY ExecutorFacts
  <2> QED
    BY <1>5, <2>1, <2>2 DEF Types
<1>7. Quiet(D, f, q, {})
  BY <1>5 DEF Quiet
<1>8. Placed(D, q)
  BY <1>1, <1>4, <1>5, ExecutorFacts DEF Placed
<1>9. CASE f[n].slot # 0
  <2>1. PICK k, slot, t : f' = [q EXCEPT ![k].results[slot] = t]
    BY <1>3, <1>4, <1>9 DEF Continue
  <2>2. \A m \in DOMAIN D :
          /\ f'[m].alias = q[m].alias /\ f'[m].local = q[m].local
          /\ f'[m].executor = q[m].executor /\ f'[m].result = q[m].result
          /\ f'[m].how = q[m].how /\ f'[m].on = q[m].on /\ f'[m].handler = q[m].handler
    BY <1>5, <2>1 DEF Fields, Blank
  <2>3. Quiet(D, f, f', {}) /\ Placed(D, f')
    BY <1>7, <1>8, <2>2 DEF Quiet, Placed
  <2> QED
    BY <1>1, <2>3, QuietKeepsExecutors
<1>10. CASE f[n].slot = 0
  <2>1. PICK k : k = f[n].to
    BY Zenon
  <2>2. k \in DOMAIN D /\ f[k].local = FALSE
    <3>1. Holds(f, n)
      BY <1>1, <1>10 DEF Holds, Holding
    <3> QED
      BY <1>1, <2>1, <3>1, ExecutorFacts, HolderLink, ZenonT(60) DEF ThenLink, ForwardLink
  <2>3. Desc(k) = D[k] /\ q[n].to = k /\ q[n].slot = 0 /\ q[k].local = FALSE
    BY <1>4, <1>5, <1>10, <2>1, <2>2 DEF Desc
  <2>4. PICK th : th = f[n].on
    OBVIOUS
  <2>5. \/ \E t : f' = SetResult(q, k, t, th)
        \/ /\ D[k].inner # 0
           /\ f' = SetContinuation(q, q[D[k].inner].alias, k, 0, TRUE, th)
    BY <1>3, <2>3, <2>4, Zenon DEF Continue
  <2>6. CASE \E t : f' = SetResult(q, k, t, th)
    <3>1. PICK t : f' = SetResult(q, k, t, th)
      BY <2>6
    <3>2. Quiet(D, q, f', {}) /\ Placed(D, f')
      BY <1>6, <1>8, <2>2, <2>3, <3>1, SetResultQuiet
    <3>3. Quiet(D, f, f', {})
      BY <1>5, <3>2 DEF Quiet
    <3> QED
      BY <1>1, <3>2, <3>3, QuietKeepsExecutors
  <2>7. CASE D[k].inner # 0 /\ f' = SetContinuation(q, q[D[k].inner].alias, k, 0, TRUE, th)
    <3>1. D[k].inner \in DOMAIN D
      BY <2>2, <2>7, OwnershipFacts, ProgramShape
    <3>2. PICK o : o = q[D[k].inner].alias
      OBVIOUS
    <3>3. o \in DOMAIN D
      <4>1. o \in 1 .. D[k].inner
        BY <1>6, <3>1, <3>2 DEF Types
      <4> QED
        BY <3>1, <4>1, OwnershipFacts
    <3>4. Quiet(D, q, f', {}) /\ Placed(D, f')
      BY <1>6, <1>8, <2>7, <3>2, <3>3, SetContinuationQuiet
    <3>5. Quiet(D, f, f', {})
      BY <1>5, <3>4 DEF Quiet
    <3> QED
      BY <1>1, <3>4, <3>5, QuietKeepsExecutors
  <2> QED
    BY <2>5, <2>6, <2>7, Zenon
<1> QED
  BY <1>9, <1>10

LEMMA GuardDoneExecutors ==
    ASSUME OwnershipInv, ExecutorInv, NEW n \in Nodes, NEW g \in {"caller", "closure"},
           GuardDone(n, g)
    PROVE  ExecutorInv'
<1> DEFINE D == program.nodes
<1>1. /\ n \in DOMAIN D /\ program' = program /\ made' = made
      /\ Ownership(D, f, made, i) /\ Hows(D, f) /\ Links(D, f, made, i)
  BY OwnershipFacts DEF GuardDone, Ownership
<1>2. PICK s : s = [f EXCEPT ![n].guards = f[n].guards \ {g}]
  OBVIOUS
<1>3. PICK th : f' = IF s[n].guards = {} THEN DestroyClosure(s, n, th) ELSE s
  BY <1>2 DEF GuardDone
<1>4. /\ Agree(f, s, {"guards"}) /\ \A m \in DOMAIN D : m # n => s[m] = f[m]
      /\ s[n].guards = f[n].guards \ {g} /\ s[n].how = f[n].how
      /\ s[n].to = f[n].to /\ s[n].slot = f[n].slot
  BY <1>1, <1>2, ExecutorFacts DEF Agree, Fields, Blank
<1>5. CASE s[n].guards # {}
  <2>1. f' = s
    BY <1>3, <1>5
  <2>2. \A m \in DOMAIN D :
          /\ s[m].alias = f[m].alias /\ s[m].local = f[m].local
          /\ s[m].executor = f[m].executor /\ s[m].result = f[m].result
          /\ s[m].handler = f[m].handler /\ s[m].how = f[m].how /\ s[m].on = f[m].on
    BY <1>4, ExecutorFacts, AgreeFacts
  <2>3. Quiet(D, f, s, {}) /\ Placed(D, s)
    BY <2>2, ExecutorFacts DEF Quiet, Placed
  <2>4. Quiet(D, f, f', {}) /\ Placed(D, f')
    BY <2>1, <2>3
  <2> QED
    BY <1>1, <2>4, QuietKeepsExecutors
<1>6. CASE s[n].guards = {}
  <2>1. f' = DestroyClosure(s, n, th)
    BY <1>3, <1>6
  <2>2. f[n].handler \in {"ran", "dropped"}
    BY <1>4, <1>6 DEF GuardDone
  <2>3. PICK q : q = [s EXCEPT ![n].handler = "gone"]
    OBVIOUS
  <2>4. /\ Agree(f, q, {"handler", "guards"}) /\ \A m \in DOMAIN D : m # n => q[m] = f[m]
        /\ q[n].guards = {} /\ q[n].handler = "gone"
    <3>1. q = [f EXCEPT ![n].guards = {}, ![n].handler = "gone"]
      BY <1>1, <1>2, <1>4, <1>6, <2>3, ExecutorFacts
    <3> QED
      BY <1>1, <3>1, ExecutorFacts DEF Agree, Fields, Blank
  <2>5. DOMAIN q = DOMAIN D /\ \A m \in DOMAIN D :
          /\ DOMAIN q[m] = Fields /\ q[m].twice = f[m].twice
          /\ q[m].alias = f[m].alias /\ q[m].local = f[m].local /\ q[m].executor = f[m].executor
          /\ q[m].how = f[m].how /\ q[m].on = f[m].on
          /\ q[m].result = f[m].result /\ q[m].caller = f[m].caller
          /\ q[m].ctx = f[m].ctx
    BY <2>4, ExecutorFacts, AgreeFacts
  <2>6. Quiet(D, f, q, {}) /\ Placed(D, q)
    <3>1. Quiet(D, f, q, {})
      BY <2>5 DEF Quiet
    <3>2. \A m \in DOMAIN D : q[m].handler \in {"run", "ran"} => f[m].handler = q[m].handler
      BY <2>4
    <3> QED
      BY <2>5, <3>1, <3>2, ExecutorFacts DEF Placed
  <2>7. Ownership(D, q, made, i) /\ Types(D, q)
    <3>1. Types(D, f)
      BY ExecutorFacts
    <3>2. q[n].caller \in {"worker", "outside"} /\ q[n].on \in {"worker", "outside"}
      BY <1>1, <2>5, <3>1 DEF Types
    <3>3. Agree(f, q, {"handler", "how", "caller", "on", "guards", "results"})
      BY <2>4 DEF Agree
    <3>4. PhaseChanges(D, f, n, q)
      BY <1>1, <2>2, <2>4, <3>2, <3>3 DEF PhaseChanges, Handlers, Holding
    <3>5. Ownership(D, q, made, i)
      BY <1>1, <3>4, PhaseKeepsOwnership
    <3> QED
      BY <3>5 DEF Ownership
  <2>8. f' = IF f[n].slot # 0 THEN Release(q, f[n].to, f[n].slot, th)
             ELSE IF f[n].how = "dropped" THEN SetResult(q, f[n].to, Broken(f[n].to), th)
             ELSE q
    BY <1>4, <2>1, <2>3, Zenon DEF DestroyClosure
  <2>9. PICK k : k = f[n].to
    OBVIOUS
  <2>10. Quiet(D, q, f', {}) /\ Placed(D, f')
    <3>1. CASE f[n].slot # 0
      <4>1. PICK owner : owner = f[n].slot
        OBVIOUS
      <4>2. CollectLink(D, f, made, i, n, k, f[n].slot, f[n].forwards)
        <5>1. Link(D, f, made, i, n, k, f[n].slot, f[n].forwards)
          BY <1>1, <2>2, <2>9 DEF Links
        <5> QED
          BY <3>1, <5>1 DEF Link, ThenLink, ForwardLink
      <4>3. k \in DOMAIN D
        BY <4>2 DEF CollectLink
      <4>4. f' = Release(q, k, owner, th)
        BY <2>8, <2>9, <3>1, <4>1
      <4> QED
        BY <2>6, <2>7, <4>3, <4>4, ReleaseQuiet
    <3>2. CASE f[n].slot = 0 /\ f[n].how = "dropped"
      <4>1. Holds(f, n)
        BY <1>1, <2>2, <3>2 DEF Hows, Holds, Holding
      <4>2. k \in DOMAIN D /\ f[k].local = FALSE
        <5>1. \/ ThenLink(D, f, made, n, f[n].to, f[n].slot, f[n].forwards)
              \/ ForwardLink(D, f, made, n, f[n].to, f[n].slot, f[n].forwards)
          BY <1>1, <4>1, HolderLink
        <5>2. f[n].to \in DOMAIN D
          BY <1>1, <4>1, HolderLink
        <5> QED
          BY <2>9, <5>1, <5>2, Zenon DEF ThenLink, ForwardLink
      <4>3. q[k].local = FALSE
        BY <2>5, <4>2
      <4>4. PICK t : f' = SetResult(q, k, t, th)
        BY <2>8, <2>9, <3>2
      <4> QED
        BY <2>6, <2>7, <4>2, <4>3, <4>4, SetResultQuiet
    <3>3. CASE f[n].slot = 0 /\ f[n].how # "dropped"
      <4>1. f' = q
        BY <2>8, <3>3
      <4>2. Quiet(D, q, q, {}) /\ Placed(D, q)
        BY <2>6 DEF Quiet
      <4> QED
        BY <4>1, <4>2
    <3> QED
      BY <3>1, <3>2, <3>3
  <2>11. Quiet(D, f, f', {})
    BY <2>5, <2>10 DEF Quiet
  <2> QED
    BY <1>1, <2>10, <2>11, QuietKeepsExecutors
<1> QED
  BY <1>5, <1>6

\* No continuation yet on the state of a future that a Then is about to use.
LEMMA UnusedState ==
    ASSUME NEW D, NEW s, NEW md, NEW ii, Ownership(D, s, md, ii), NEW k \in DOMAIN D, k = md + 1,
           D[k].kind = "then", NEW x \in 1 .. md, Uses(D, s, k, x), NEW n, n = s[x].alias
    PROVE  s[n].handler = "none"
<1> SUFFICES ASSUME s[n].handler # "none" PROVE FALSE
  OBVIOUS
<1>1. \/ ThenLink(D, s, md, n, k, s[n].slot, s[n].forwards)
      \/ CollectLink(D, s, md, ii, n, k, s[n].slot, s[n].forwards)
      \/ ForwardLink(D, s, md, n, k, s[n].slot, s[n].forwards)
  BY ContinuationOfUser
<1>2. k \notin 1 .. md
  BY DEF Ownership
<1> QED
  BY <1>1, <1>2 DEF ThenLink, CollectLink, ForwardLink

LEMMA MakeSourceExecutors ==
    ASSUME OwnershipInv, ExecutorInv, NEW k \in Nodes, MakeSource(k) PROVE ExecutorInv'
<1> DEFINE D == program.nodes
<1>1. /\ k = made + 1 /\ k \in DOMAIN D /\ D[k].kind = "source" /\ Desc(k) = D[k]
      /\ f[k].alias = k /\ f[k].local = FALSE /\ f[k].handler = "none"
  BY MakingFacts DEF MakeSource
<1>2. /\ f' = [f EXCEPT ![k].executor = D[k].executor] /\ program' = program /\ made' = k
  BY <1>1 DEF MakeSource, Made
<1>3. /\ \A m \in DOMAIN D : m # k => f'[m] = f[m]
      /\ f'[k].executor = D[k].executor /\ f'[k].alias = k /\ f'[k].local = FALSE
      /\ f'[k].handler = "none"
  BY <1>1, <1>2, ExecutorFacts DEF Fields, Blank
<1>4. Quiet(D, f, f', {k}) /\ Placed(D, f')
  BY <1>3, ExecutorFacts DEF Quiet, Placed
<1>5. Equips(D, f, f', k)
  BY <1>1, <1>3 DEF Equips
<1> QED
  BY <1>1, <1>2, <1>3, <1>4, <1>5, MakeKeepsExecutors

LEMMA MakeReadyFutureExecutors ==
    ASSUME OwnershipInv, ExecutorInv, NEW k \in Nodes, MakeReadyFuture(k) PROVE ExecutorInv'
<1> DEFINE D == program.nodes
<1>1. /\ k = made + 1 /\ k \in DOMAIN D /\ D[k].kind = "ready" /\ Desc(k) = D[k]
      /\ f[k].alias = k /\ f[k].handler = "none"
  BY MakingFacts DEF MakeReadyFuture
<1>2. /\ \E t : f' = [f EXCEPT ![k].local = TRUE, ![k].executor = D[k].executor, ![k].result = t]
      /\ program' = program /\ made' = k
  BY <1>1 DEF MakeReadyFuture, Made
<1>3. /\ \A m \in DOMAIN D : m # k => f'[m] = f[m]
      /\ f'[k].executor = D[k].executor /\ f'[k].alias = k /\ f'[k].handler = "none"
  BY <1>1, <1>2, ExecutorFacts DEF Fields, Blank
<1>4. Quiet(D, f, f', {k}) /\ Placed(D, f')
  BY <1>3, ExecutorFacts DEF Quiet, Placed
<1>5. Equips(D, f, f', k)
  BY <1>1, <1>3 DEF Equips
<1> QED
  BY <1>1, <1>2, <1>4, <1>5, MakeKeepsExecutors

LEMMA ThenSharedExecutors ==
    ASSUME OwnershipInv, ExecutorInv, NEW k \in Nodes, ThenShared(k) PROVE ExecutorInv'
<1> DEFINE D == program.nodes
<1>1. /\ k = made + 1 /\ k \in DOMAIN D /\ D[k].kind = "then" /\ D[k].kind # "source"
      /\ f[k].alias = k /\ f[k].handler = "none"
      /\ Input(k) \in DOMAIN D /\ Input(k) # k /\ Input(k) = f[D[k].from[1]].alias
      /\ program' = program /\ made' = k
  BY ThenFacts DEF ThenShared, Made
<1>2. PICK n : n = Input(k)
  OBVIOUS
<1>3. PICK q : q = [f EXCEPT ![k].executor = f[n].executor]
  OBVIOUS
<1>4. f' = SetContinuation(q, n, k, 0, FALSE, "outside")
  BY <1>2, <1>3 DEF ThenShared
<1>5. /\ Agree(f, q, {"executor"}) /\ \A m \in DOMAIN D : m # k => q[m] = f[m]
      /\ q[k].executor = f[n].executor /\ q[k].alias = k /\ q[k].handler = "none"
  BY <1>1, <1>3, ExecutorFacts DEF Agree, Fields, Blank
<1>6. Types(D, q)
  <2>1. Types(D, f) /\ n \in DOMAIN D
    BY <1>1, <1>2, ExecutorFacts
  <2>2. DOMAIN q = DOMAIN D /\ \A m \in DOMAIN D :
          /\ DOMAIN q[m] = Fields /\ q[m].twice = f[m].twice
          /\ q[m].alias = f[m].alias /\ q[m].local = f[m].local
          /\ q[m].handler = f[m].handler /\ q[m].on = f[m].on
          /\ q[m].caller = f[m].caller /\ q[m].guards = f[m].guards /\ q[m].ctx = f[m].ctx
    BY <1>5, ExecutorFacts, AgreeFacts
  <2>3. \A m \in DOMAIN D : q[m].executor \in {"none", "ex"}
    BY <1>5, <2>1 DEF Types
  <2> QED
    BY <2>1, <2>2, <2>3 DEF Types
<1>7. Quiet(D, f, q, {k}) /\ Placed(D, q)
  BY <1>5, ExecutorFacts DEF Quiet, Placed
<1>8. Quiet(D, q, f', {}) /\ Placed(D, f')
  BY <1>1, <1>2, <1>4, <1>6, <1>7, SetContinuationQuiet
<1>9. Quiet(D, f, f', {k})
  BY <1>5, <1>8 DEF Quiet
<1>10. Equips(D, f, f', k)
  <2>1. f'[k].alias = k /\ (f[n].executor = "ex" => f'[k].executor = "ex")
    BY <1>1, <1>5, <1>8 DEF Quiet
  <2> QED
    BY <1>1, <1>2, <2>1 DEF Equips
<1> QED
  BY <1>1, <1>8, <1>9, <1>10, MakeKeepsExecutors

LEMMA ThenLocalValueExecutors ==
    ASSUME OwnershipInv, ExecutorInv, NEW k \in Nodes, ThenLocalValue(k) PROVE ExecutorInv'
<1> DEFINE D == program.nodes
<1>1. /\ k = made + 1 /\ k \in DOMAIN D /\ D[k].kind = "then" /\ D[k].kind # "source"
      /\ f[k].alias = k /\ f[k].handler = "none" /\ Input(k) = f[D[k].from[1]].alias
      /\ program' = program /\ made' = k
  BY ThenFacts DEF ThenLocalValue, Made
<1>2. PICK t, executor :
        /\ f' = [f EXCEPT ![k].local = TRUE, ![k].executor = executor, ![k].result = t]
        /\ executor = f[Input(k)].executor
  BY DEF ThenLocalValue
<1>3. /\ \A m \in DOMAIN D : m # k => f'[m] = f[m]
      /\ f'[k].executor = f[Input(k)].executor /\ f'[k].alias = k /\ f'[k].handler = "none"
  BY <1>1, <1>2, ExecutorFacts, ZenonT(60) DEF Fields, Blank
<1>4. Quiet(D, f, f', {k}) /\ Placed(D, f')
  BY <1>3, ExecutorFacts DEF Quiet, Placed
<1>5. Equips(D, f, f', k)
  BY <1>1, <1>3 DEF Equips
<1> QED
  BY <1>1, <1>4, <1>5, MakeKeepsExecutors

LEMMA ThenLocalFutureExecutors ==
    ASSUME OwnershipInv, ExecutorInv, NEW k \in Nodes, ThenLocalFuture(k) PROVE ExecutorInv'
<1> DEFINE D == program.nodes
<1>1. /\ k = made + 1 /\ k \in DOMAIN D /\ D[k].kind = "then" /\ D[k].kind # "source"
      /\ f[k].alias = k /\ f[k].handler = "none" /\ Input(k) = f[D[k].from[1]].alias
      /\ Input(k) \in DOMAIN D /\ Input(k) # k
      /\ program' = program /\ made' = k /\ Desc(k) = D[k]
  BY ThenFacts DEF ThenLocalFuture, Made
<1>2. D[k].inner # 0 /\ f[Input(k)].local
  BY <1>1 DEF ThenLocalFuture
<1>3. CASE FailsFirst(k, f[Input(k)].result)
  <2>1. \E t : f' = [f EXCEPT ![k].local = TRUE, ![k].result = t]
    BY <1>3 DEF ThenLocalFuture
  <2>2. /\ \A m \in DOMAIN D : m # k => f'[m] = f[m]
        /\ f'[k].handler = "none"
    BY <1>1, <2>1, ExecutorFacts DEF Fields, Blank
  <2>3. Quiet(D, f, f', {k}) /\ Placed(D, f')
    BY <2>2, ExecutorFacts DEF Quiet, Placed
  <2>4. Loses(D, f, k)
    BY <1>1, <1>2, <1>3 DEF Loses, Fails, FailsFirst
  <2>5. Equips(D, f, f', k)
    BY <1>1, <2>4 DEF Equips
  <2> QED
    BY <1>1, <2>3, <2>5, MakeKeepsExecutors
<1>4. CASE ~FailsFirst(k, f[Input(k)].result)
  <2>1. PICK x : x = D[k].inner
    OBVIOUS
  <2>2. PICK o : o = f[x].alias
    OBVIOUS
  <2>3. x \in 1 .. made /\ o \in DOMAIN D /\ o # k
    <3>1. x \in DOMAIN D /\ x \in 0 .. k - 1 /\ x # 0
      BY <1>1, <1>2, <2>1, OwnershipFacts, ProgramShape
    <3>2. o \in 1 .. x
      BY <2>2, <3>1, OwnershipFacts DEF Types
    <3> QED
      BY <1>1, <3>1, <3>2, OwnershipFacts
  <2>4. f[o].handler = "none"
    <3>1. Uses(D, f, k, x)
      BY <1>1, <2>1 DEF Uses
    <3>2. Ownership(D, f, made, i)
      BY OwnershipFacts, Zenon
    <3> QED
      BY <1>1, <2>2, <2>3, <3>1, <3>2, UnusedState
  <2>5. f' = [f EXCEPT ![k].alias = o, ![k].local = f[o].local,
                       ![o].executor = IF f[o].executor = "none" THEN f[Input(k)].executor
                                       ELSE f[o].executor]
    BY <1>1, <1>4, <2>1, <2>2, <2>3, ZenonT(60) DEF ThenLocalFuture
  <2>6. /\ \A m \in DOMAIN D : m # k /\ m # o => f'[m] = f[m]
        /\ f'[k].alias = o /\ f'[k].handler = "none" /\ f'[o].handler = "none"
        /\ f'[o].alias = f[o].alias /\ f'[o].local = f[o].local /\ f'[o].result = f[o].result
        /\ f'[o].executor = IF f[o].executor = "none" THEN f[Input(k)].executor
                            ELSE f[o].executor
    BY <1>1, <2>3, <2>4, <2>5, ExecutorFacts, ZenonT(60) DEF Fields, Blank
  <2>7. f[o].executor \in {"none", "ex"}
    BY <2>3, ExecutorFacts DEF Types
  <2>8. Quiet(D, f, f', {k}) /\ Placed(D, f')
    BY <2>6, ExecutorFacts DEF Quiet, Placed
  <2>9. Equips(D, f, f', k)
    BY <1>1, <2>6, <2>7 DEF Equips
  <2> QED
    BY <1>1, <2>8, <2>9, MakeKeepsExecutors
<1> QED
  BY <1>3, <1>4, Zenon

LEMMA CollectAllExecutors ==
    ASSUME OwnershipInv, ExecutorInv, NEW k \in Nodes, CollectAll(k) PROVE ExecutorInv'
<1> DEFINE D == program.nodes
<1>1. /\ k = made + 1 /\ k \in DOMAIN D /\ D[k].kind = "collect" /\ f[k].handler = "none"
      /\ Desc(k) = D[k] /\ program' = program
  BY MakingFacts, ZenonT(60) DEF CollectAll, Made
<1>2. \/ \E t : f' = [f EXCEPT ![k].local = TRUE, ![k].result = t] /\ made' = k
      \/ \E results : f' = [f EXCEPT ![k].results = results, ![k].ctx = {0}] /\ made' = made
  BY DEF CollectAll, Made
<1>3. CASE \E t : f' = [f EXCEPT ![k].local = TRUE, ![k].result = t] /\ made' = k
  <2>1. (\A m \in DOMAIN D : m # k => f'[m] = f[m]) /\ f'[k].handler = "none"
    BY <1>1, <1>3, ExecutorFacts DEF Fields, Blank
  <2>2. Quiet(D, f, f', {k}) /\ Placed(D, f') /\ Equips(D, f, f', k)
    BY <1>1, <2>1, ExecutorFacts DEF Quiet, Placed, Equips
  <2> QED
    BY <1>1, <1>3, <2>2, MakeKeepsExecutors
<1>4. CASE \E results : f' = [f EXCEPT ![k].results = results, ![k].ctx = {0}] /\ made' = made
  <2>1. /\ \A m \in DOMAIN D : m # k => f'[m] = f[m]
        /\ f'[k].alias = f[k].alias /\ f'[k].local = f[k].local /\ f'[k].result = f[k].result
        /\ f'[k].executor = f[k].executor /\ f'[k].handler = "none"
    BY <1>1, <1>4, ExecutorFacts DEF Fields, Blank
  <2>2. Quiet(D, f, f', {}) /\ Placed(D, f')
    BY <2>1, ExecutorFacts DEF Quiet, Placed
  <2> QED
    BY <1>1, <1>4, <2>2, QuietKeepsExecutors
<1> QED
  BY <1>2, <1>3, <1>4

LEMMA CollectCheckExecutors ==
    ASSUME OwnershipInv, ExecutorInv, NEW k \in Nodes, CollectCheck(k) PROVE ExecutorInv'
<1> DEFINE D == program.nodes
<1>1. /\ program' = program /\ made' = made
      /\ f' = f \/ \E j, t : f' = [f EXCEPT ![k].results[j] = t]
  BY DEF CollectCheck
<1>2. \A m \in DOMAIN D :
        /\ f'[m].alias = f[m].alias /\ f'[m].local = f[m].local
        /\ f'[m].executor = f[m].executor /\ f'[m].result = f[m].result
        /\ f'[m].handler = f[m].handler /\ f'[m].how = f[m].how /\ f'[m].on = f[m].on
  BY <1>1, ExecutorFacts DEF Fields, Blank
<1>3. Quiet(D, f, f', {}) /\ Placed(D, f')
  BY <1>2, ExecutorFacts DEF Quiet, Placed
<1> QED
  BY <1>1, <1>3, QuietKeepsExecutors

LEMMA CollectSetContinuationExecutors ==
    ASSUME OwnershipInv, ExecutorInv, NEW k \in Nodes, CollectSetContinuation(k)
    PROVE  ExecutorInv'
<1> DEFINE D == program.nodes
<1>1. /\ Making(k, "collect") /\ checked /\ program' = program /\ made' = made
  BY DEF CollectSetContinuation
<1>2. k \in DOMAIN D /\ Desc(k) = D[k] /\ i \in DOMAIN D[k].from
  BY <1>1, OwnershipFacts DEF Making, OwnershipInv
<1>3. i \in Nat /\ i > 0
  <2>1. i \in Nat \ {0}
    BY <1>2, OwnershipFacts, ProgramShape
  <2> QED
    BY <2>1
<1>4. PICK n : n = f[D[k].from[i]].alias
  OBVIOUS
<1>5. n \in DOMAIN D /\ Len(D[k].from) \in Nat /\ DOMAIN D[k].from = 1 .. Len(D[k].from)
  <2>1. /\ Len(D[k].from) \in Nat /\ DOMAIN D[k].from = 1 .. Len(D[k].from)
        /\ \A j \in DOMAIN D[k].from : f[D[k].from[j]].alias \in 1 .. made
    BY <1>1, <1>3, LoopFacts
  <2>2. n \in 1 .. made
    BY <1>2, <1>4, <2>1
  <2> QED
    BY <2>1, <2>2, OwnershipFacts
<1>6. PICK q : q = [f EXCEPT ![k].ctx = f[k].ctx \union {i}]
  OBVIOUS
<1>7. f' = SetContinuation(q, n, k, i, FALSE, "outside")
  BY <1>2, <1>4, <1>6 DEF CollectSetContinuation
<1>8. Agree(f, q, {"ctx"}) /\ \A m \in DOMAIN D : m # k => q[m] = f[m]
      /\ q[k].ctx = f[k].ctx \union {i}
  BY <1>2, <1>6, ExecutorFacts DEF Agree, Fields, Blank
<1>9. DOMAIN q = DOMAIN D /\ \A m \in DOMAIN D :
        /\ DOMAIN q[m] = Fields /\ q[m].twice = f[m].twice /\ q[m].executor = f[m].executor
        /\ q[m].alias = f[m].alias /\ q[m].local = f[m].local /\ q[m].result = f[m].result
        /\ q[m].handler = f[m].handler /\ q[m].on = f[m].on /\ q[m].how = f[m].how
        /\ q[m].caller = f[m].caller /\ q[m].guards = f[m].guards
  BY <1>8, ExecutorFacts, AgreeFacts
<1>10. Types(D, q)
  <2>1. Types(D, f)
    BY ExecutorFacts
  <2>2. \A m \in DOMAIN D : q[m].ctx \subseteq 0 .. Len(D[m].from)
    BY <1>2, <1>5, <1>6, <2>1, ExecutorFacts DEF Types, Fields, Blank
  <2> QED
    BY <1>9, <2>1, <2>2 DEF Types
<1>11. Quiet(D, f, q, {}) /\ Placed(D, q)
  BY <1>9, ExecutorFacts DEF Quiet, Placed
<1>12. Quiet(D, q, f', {}) /\ Placed(D, f')
  BY <1>5, <1>7, <1>10, <1>11, SetContinuationQuiet
<1>13. Quiet(D, f, f', {})
  BY <1>9, <1>12 DEF Quiet
<1> QED
  BY <1>1, <1>12, <1>13, QuietKeepsExecutors

LEMMA CollectReturnExecutors ==
    ASSUME OwnershipInv, ExecutorInv, NEW k \in Nodes, CollectReturn(k) PROVE ExecutorInv'
<1> DEFINE D == program.nodes
<1>1. /\ k = made + 1 /\ k \in DOMAIN D /\ D[k].kind = "collect" /\ program' = program
      /\ made' = k /\ f' = Release(f, k, 0, "outside")
  BY OwnershipFacts DEF CollectReturn, Making
<1>2. Ownership(D, f, made, i) /\ Placed(D, f)
  BY ExecutorFacts
<1>3. Quiet(D, f, f', {}) /\ Placed(D, f')
  BY <1>1, <1>2, ReleaseQuiet
<1>4. Quiet(D, f, f', {k}) /\ Equips(D, f, f', k)
  BY <1>1, <1>3 DEF Quiet, Equips
<1> QED
  BY <1>1, <1>3, <1>4, MakeKeepsExecutors

LEMMA ExecutorStep == ASSUME OwnershipInv, ExecutorInv, [Next]_vars PROVE ExecutorInv'
<1>1. ASSUME MakeStep PROVE ExecutorInv'
  BY <1>1, MakeSourceExecutors, MakeReadyFutureExecutors, ThenSharedExecutors,
     ThenLocalValueExecutors, ThenLocalFutureExecutors, CollectAllExecutors,
     CollectCheckExecutors, CollectSetContinuationExecutors, CollectReturnExecutors
     DEF MakeStep
<1>2. ASSUME NEW k \in Nodes, NEW th \in {"worker", "outside"}, Settle(k, th)
      PROVE  ExecutorInv'
  BY <1>2, SettleExecutors
<1>3. ASSUME ContinuationStep PROVE ExecutorInv'
  BY <1>3, ScheduleExecutors, RunQueuedExecutors, DropQueuedExecutors, RunExecutors,
     GuardDoneExecutors DEF ContinuationStep
<1>4. ASSUME UNCHANGED vars PROVE ExecutorInv'
  <2>1. program' = program /\ made' = made /\ f' = f
    BY <1>4 DEF vars
  <2> QED
    BY <2>1 DEF ExecutorInv
<1> QED
  BY <1>1, <1>2, <1>3, <1>4 DEF Next, Step, Terminated

LEMMA InitExecutors == ASSUME Init PROVE ExecutorInv
<1> DEFINE D == program.nodes
<1>1. \A k \in DOMAIN D : f[k].local = FALSE /\ f[k].handler = "none"
  BY DEF Init, Nodes, Blank
<1>2. made = 0 /\ 1 .. 0 = {}
  BY DEF Init
<1> QED
  BY <1>1, <1>2 DEF ExecutorInv, SourcesShared, Placed, Equipped

LEMMA ExecutorsAlways == Spec => []ExecutorInv
<1>1. Init => OwnershipInv /\ ExecutorInv
  BY InitOwnership, InitExecutors
<1>2. OwnershipInv /\ ExecutorInv /\ [Next]_vars => (OwnershipInv /\ ExecutorInv)'
  BY OwnershipStep, ExecutorStep
<1> QED
  BY <1>1, <1>2, PTL DEF Spec

LEMMA ExecutorCallback == ASSUME OwnershipInv, ExecutorInv PROVE CallbackOnExecutor
<1> DEFINE D == program.nodes
<1> SUFFICES ASSUME NEW n \in Nodes, f[n].handler \in {"run", "ran"}, f[n].on = "outside",
                    ~f[n].forwards, f[n].slot = 0,
                    InheritedExecutor[Desc(f[n].to).from[1]] = "ex"
             PROVE  f[n].how \in {"trigger", "refused"}
  BY DEF CallbackOnExecutor
<1>1. n \in DOMAIN D /\ Placed(D, f) /\ Equipped(D, f, made)
  BY ExecutorFacts DEF ExecutorInv
<1>2. PICK k : k = f[n].to
  OBVIOUS
<1>3. ThenLink(D, f, made, n, k, f[n].slot, f[n].forwards)
  <2>1. Link(D, f, made, i, n, k, f[n].slot, f[n].forwards)
    BY <1>1, <1>2, OwnershipFacts DEF Ownership, Links
  <2>2. ~ForwardLink(D, f, made, n, k, f[n].slot, f[n].forwards)
    BY Zenon DEF ForwardLink
  <2>3. ~CollectLink(D, f, made, i, n, k, f[n].slot, f[n].forwards)
    BY OwnershipFacts, ProgramShape DEF CollectLink
  <2> QED
    BY <2>1, <2>2, <2>3 DEF Link
<1>4. k \in 1 .. made /\ k \in DOMAIN D /\ D[k].kind = "then" /\ f[D[k].from[1]].alias = n
  BY <1>3, OwnershipFacts DEF ThenLink
<1>5. D[k].from[1] \in 1 .. made
  <2>1. D[k].from[1] \in 1 .. k - 1
    BY <1>4, OwnershipFacts, ProgramShape
  <2> QED
    BY <1>4, <2>1, OwnershipFacts
<1>6. Executors(D, f)[D[k].from[1]] = "ex"
  BY <1>2, ExecutorsOfState DEF Desc
<1>7. f[n].executor = "ex"
  BY <1>1, <1>4, <1>5, <1>6 DEF Equipped
<1> QED
  BY <1>1, <1>7 DEF Placed

\* ChainCallbackOnExecutor: the callback of a Then on a chain with an executor
\* (future.hpp, ThenImpl, and future_state.hpp, ScheduleContinuation) runs outside its
\* workers only if the result was there before the callback, or the executor refused it.
THEOREM ChainCallbackOnExecutor == Spec => []CallbackOnExecutor
BY OwnershipAlways, ExecutorsAlways, ExecutorCallback, PTL
=============================================================================
