--------------------------- MODULE TryObjectProofs ---------------------------
(***************************************************************************)
(* Theorems about Try and TryV, for any number of objects, values and      *)
(* exceptions.                                                             *)
(***************************************************************************)
EXTENDS TryObject, TLAPS

USE ConstantsAssumption

\* The contents of a union, and what its moves leave there.
LEMMA ContentsOf ==
    /\ \A c \in Contents \union {T(Moved)} :
        /\ c.is \in {"kValue", "kException"} /\ c # Empty /\ c # Nothing
        /\ LeftIn(c) \in Contents \union {T(Moved)}
        /\ LeftIn(c).is = c.is
        /\ LeftInVariant(c) \in {T(Moved), ExceptionPtr(Moved)}
    /\ LeftIn(Empty) = Empty
    /\ LeftInVariant(ExceptionPtr(Moved)) = ExceptionPtr(Moved)
    /\ LeftInVariant(Nothing) = Nothing /\ LeftInVariant(Valueless) = Valueless
    /\ T(Moved).is = "kValue" /\ Nothing.is = "kNothing"
    /\ \A v \in Values : T(v) \in Contents /\ T(v).is = "kValue"
    /\ \A e \in Exceptions : ExceptionPtr(e) \in Contents /\ ExceptionPtr(e).is = "kException"
<1>1. ASSUME NEW v \in Values PROVE T(v) \in Contents
  BY DEF Contents
<1>2. ASSUME NEW e \in Exceptions PROVE ExceptionPtr(e) \in Contents
  BY DEF Contents
<1>3. ASSUME NEW c \in Contents \union {T(Moved)}
      PROVE  \/ c.is = "kValue" /\ \E v : c = T(v)
             \/ c.is = "kException" /\ \E e : c = ExceptionPtr(e)
  BY DEF Contents, T, ExceptionPtr
<1>4. ASSUME NEW c \in Contents \union {T(Moved)}
      PROVE  c # Empty /\ c # Nothing
  <2>1. c # Nothing
    BY <1>3 DEF Nothing
  <2> QED
    BY <2>1
<1>5. ASSUME NEW v PROVE LeftInVariant(T(v)) = T(Moved)
  BY DEF LeftInVariant, T
<1>6. ASSUME NEW e PROVE LeftInVariant(ExceptionPtr(e)) = ExceptionPtr(Moved)
  BY DEF LeftInVariant, ExceptionPtr
<1>7. ASSUME NEW c \in Contents \union {T(Moved)}
      PROVE  LeftInVariant(c) \in {T(Moved), ExceptionPtr(Moved)}
  BY <1>3, <1>5, <1>6
<1>8. ASSUME NEW c \in Contents \union {T(Moved)}
      PROVE  LeftIn(c) \in Contents \union {T(Moved)} /\ LeftIn(c).is = c.is
  BY <1>3, T(Moved).is = "kValue" DEF LeftIn, T
<1>9. /\ LeftIn(Empty) = Empty
      /\ LeftInVariant(Nothing) = Nothing /\ LeftInVariant(Valueless) = Valueless
  BY DEF LeftIn, LeftInVariant, Nothing, Valueless
<1>10. /\ T(Moved).is = "kValue" /\ Nothing.is = "kNothing"
       /\ \A v \in Values : T(v).is = "kValue"
       /\ \A e \in Exceptions : ExceptionPtr(e).is = "kException"
  BY DEF T, Nothing, ExceptionPtr
<1> QED
  BY <1>1, <1>2, <1>3, <1>4, <1>6, <1>7, <1>8, <1>9, <1>10

LEMMA TypeInit == Init => TypeOK
BY DEF Init, TypeOK, Objects

LEMMA MeansType ==
    ASSUME NEW o \in Objects, NEW c \in Contents \union {Nothing}, TypeOK, Means(o, c)
    PROVE  moved' \subseteq Objects /\ meant' \in [Objects -> Contents \union {Nothing}]
BY DEF Means, TypeOK

LEMMA MovesToType ==
    ASSUME NEW o \in Objects, NEW from \in Objects, TypeOK, MovesTo(o, from)
    PROVE  moved' \subseteq Objects /\ meant' \in [Objects -> Contents \union {Nothing}]
BY DEF MovesTo, TypeOK

LEMMA DestroyType ==
    ASSUME NEW x \in Tries, TypeOK, Destroy(x)
    PROVE  undefined' \subseteq Tries
BY DEF Destroy, TypeOK

LEMMA TypeStep == TypeOK /\ [Next]_vars => TypeOK'
<1> SUFFICES ASSUME TypeOK, [Next]_vars PROVE TypeOK'
  OBVIOUS
<1> USE ContentsOf DEF Objects
<1>1. ASSUME NEW x \in Tries, NEW c \in Contents \union {Nothing}, Construct(x, c)
      PROVE  TypeOK'
  BY <1>1, MeansType DEF Construct, VariantSet, TypeOK
<1>2. ASSUME NEW x \in Tries, NEW y \in Tries, MoveConstruct(x, y) PROVE TypeOK'
  BY <1>2, MovesToType DEF MoveConstruct, VariantAssign, TypeOK, Alive
<1>3. ASSUME NEW x \in Tries, NEW y \in Tries, MoveAssign(x, y) PROVE TypeOK'
  BY <1>3, MovesToType, DestroyType DEF MoveAssign, VariantAssign, TypeOK, Alive
<1>4. ASSUME NEW x \in Tries, NEW y \in Tries, MoveAssignThrows(x, y) PROVE TypeOK'
  BY <1>4, DestroyType DEF MoveAssignThrows, TypeOK, Alive
<1>5. ASSUME NEW x \in Tries, NEW e \in Exceptions,
             SetException(x, e) \/ AssignException(x, e)
      PROVE  TypeOK'
  BY <1>5, MeansType, DestroyType DEF SetException, AssignException, VariantSet, TypeOK
<1>6. ASSUME NEW x \in Tries, NEW u \in Voids, FromVoid(x, u) PROVE TypeOK'
  BY <1>6, <1>1 DEF FromVoid, TypeOK
<1>7. ASSUME NEW x \in Tries, TakeValue(x) PROVE TypeOK'
  BY <1>7 DEF TakeValue, VariantSet, TypeOK
<1>8. ASSUME NEW x \in Tries, Destruct(x) PROVE TypeOK'
  BY <1>8, MeansType, DestroyType DEF Destruct, TypeOK
<1>9. ASSUME NEW u \in Voids, VoidStep PROVE TypeOK'
  BY <1>9, MeansType, MovesToType
     DEF VoidStep, ConstructVoid, MoveConstructVoid, MoveAssignVoid, SetExceptionVoid,
         DestructVoid, VoidContent, TypeOK
<1>10. CASE UNCHANGED vars
  BY <1>10 DEF vars, TypeOK
<1> QED
  BY <1>1, <1>2, <1>3, <1>4, <1>5, <1>6, <1>7, <1>8, <1>9, <1>10
     DEF Next, TryStep, VoidStep, Stopped

-----------------------------------------------------------------------------
(* One object lives in each union, the one that inner_type_ names.          *)
Lives(x) ==
    IF inner_type_[x] \in {"kNothing", Dead} THEN union[x] = Empty
    ELSE union[x] # Empty /\ union[x].is = inner_type_[x]

\* Where the right object lives, its destructor is the right one.
LEMMA DestroysWell ==
    ASSUME NEW x \in Tries, TypeOK, LifetimesMatch, Alive(x), Destroy(x)
    PROVE  undefined' \subseteq invalid
BY DEF Destroy, LifetimesMatch, TypeOK, Alive

LEMMA LifetimesStep == LifetimesMatch /\ [Next]_vars => LifetimesMatch'
<1> SUFFICES ASSUME LifetimesMatch, [Next]_vars PROVE LifetimesMatch'
  OBVIOUS
<1>t. TypeOK /\ TypeOK'
  BY TypeStep DEF LifetimesMatch
<1>m. ASSUME undefined' \subseteq invalid', \A z \in Tries \ invalid' : Lives(z)'
      PROVE  LifetimesMatch'
  BY <1>t, <1>m DEF LifetimesMatch, Lives
<1>l. undefined \subseteq invalid /\ \A z \in Tries \ invalid : Lives(z)
  BY DEF LifetimesMatch, Lives
<1> USE ContentsOf, <1>t DEF Lives
<1>1. ASSUME NEW x \in Tries, NEW c \in Contents \union {Nothing}, Construct(x, c)
      PROVE  LifetimesMatch'
  BY <1>1, <1>m, <1>l DEF Construct, VariantSet, TypeOK
<1>2. ASSUME NEW x \in Tries, NEW y \in Tries, MoveConstruct(x, y) PROVE LifetimesMatch'
  BY <1>2, <1>m, <1>l DEF MoveConstruct, VariantAssign, TypeOK
<1>3. ASSUME NEW x \in Tries, NEW y \in Tries, MoveAssign(x, y) PROVE LifetimesMatch'
  BY <1>3, <1>m, <1>l, DestroysWell DEF MoveAssign, VariantAssign, TypeOK
<1>4. ASSUME NEW x \in Tries, NEW y \in Tries, MoveAssignThrows(x, y) PROVE LifetimesMatch'
  BY <1>4, <1>m, <1>l, DestroysWell DEF MoveAssignThrows, TypeOK
<1>5. ASSUME NEW x \in Tries, NEW e \in Exceptions,
             SetException(x, e) \/ AssignException(x, e)
      PROVE  LifetimesMatch'
  BY <1>5, <1>m, <1>l, DestroysWell DEF SetException, AssignException, VariantSet, TypeOK
<1>6. ASSUME NEW x \in Tries, NEW u \in Voids, FromVoid(x, u) PROVE LifetimesMatch'
  BY <1>6, <1>1 DEF FromVoid, TypeOK
<1>7. ASSUME NEW x \in Tries, TakeValue(x) PROVE LifetimesMatch'
  BY <1>7, <1>m, <1>l DEF TakeValue, VariantSet, TypeOK, Alive
<1>8. ASSUME NEW x \in Tries, Destruct(x) PROVE LifetimesMatch'
  BY <1>8, <1>m, <1>l, DestroysWell DEF Destruct, TypeOK
<1>9. ASSUME VoidStep PROVE LifetimesMatch'
  BY <1>9, <1>m, <1>l
     DEF VoidStep, ConstructVoid, MoveConstructVoid, MoveAssignVoid, SetExceptionVoid, DestructVoid
<1>10. CASE UNCHANGED vars
  BY <1>10, <1>m, <1>l DEF vars
<1> QED
  BY <1>1, <1>2, <1>3, <1>4, <1>5, <1>6, <1>7, <1>8, <1>9, <1>10
     DEF Next, TryStep, Stopped

\* Each T and each exception_ptr in a Try is destroyed once, by its own destructor,
\* for any number of objects, unless the move of a T into a live Try throws.
THEOREM EveryDestructorFits == Spec => []LifetimesMatch
<1>1. Init => LifetimesMatch
  BY TypeInit DEF Init, LifetimesMatch
<1> QED
  BY <1>1, LifetimesStep, PTL DEF Spec

-----------------------------------------------------------------------------
(* What is read is what was put in.                                         *)
LEMMA ReadsBackStep == LifetimesMatch /\ ReadsBack /\ [Next]_vars => ReadsBack'
<1> SUFFICES ASSUME LifetimesMatch, ReadsBack, [Next]_vars PROVE ReadsBack'
  OBVIOUS
<1>t. TypeOK /\ TypeOK'
  BY TypeStep DEF LifetimesMatch
<1> USE ContentsOf, <1>t DEF ReadsBack, Objects
<1> USE DEF Held, HeldVariant, HeldVoid
<1>1. ASSUME NEW x \in Tries, NEW c \in Contents \union {Nothing}, Construct(x, c)
      PROVE  ReadsBack'
  <2>1. c # Dead /\ c.is # Dead /\ (c.is = "kNothing" <=> c = Nothing)
    OBVIOUS
  <2>2. Held(x)' = c /\ HeldVariant(x)' = c /\ meant'[x] = c
    BY <1>1, <2>1 DEF Construct, VariantSet, Means, TypeOK
  <2> QED
    BY <1>1, <2>2 DEF Construct, VariantSet, Means, TypeOK
<1>2. ASSUME NEW x \in Tries, NEW y \in Tries, MoveConstruct(x, y) PROVE ReadsBack'
  BY <1>2 DEF MoveConstruct, VariantAssign, MovesTo, TypeOK, Alive
<1>3. ASSUME NEW x \in Tries, NEW y \in Tries, MoveAssign(x, y) PROVE ReadsBack'
  BY <1>3 DEF MoveAssign, VariantAssign, MovesTo, TypeOK, Alive
<1>4. ASSUME NEW x \in Tries, NEW y \in Tries, MoveAssignThrows(x, y) PROVE ReadsBack'
  BY <1>4 DEF MoveAssignThrows, TypeOK, Alive
<1>5. ASSUME NEW x \in Tries, NEW e \in Exceptions,
             SetException(x, e) \/ AssignException(x, e)
      PROVE  ReadsBack'
  BY <1>5 DEF SetException, AssignException, VariantSet, Means, TypeOK
<1>6. ASSUME NEW x \in Tries, NEW u \in Voids, FromVoid(x, u) PROVE ReadsBack'
  BY <1>6, <1>1 DEF FromVoid, TypeOK
<1>7. ASSUME NEW x \in Tries, TakeValue(x) PROVE ReadsBack'
  BY <1>7 DEF TakeValue, VariantSet, TypeOK
<1>8. ASSUME NEW x \in Tries, Destruct(x) PROVE ReadsBack'
  BY <1>8 DEF Destruct, Means, TypeOK
<1>9. ASSUME VoidStep PROVE ReadsBack'
  BY <1>9
     DEF VoidStep, ConstructVoid, MoveConstructVoid, MoveAssignVoid, SetExceptionVoid,
         DestructVoid, VoidContent, Means, MovesTo, TypeOK
<1>10. CASE UNCHANGED vars
  BY <1>10 DEF vars
<1> QED
  BY <1>1, <1>2, <1>3, <1>4, <1>5, <1>6, <1>7, <1>8, <1>9, <1>10
     DEF Next, TryStep, Stopped

\* A Try, a TryV and a Try<void> read back what was put into them, and a Try and a
\* TryV that are used alike read alike, whatever the sequence of operations.
THEOREM ReadsBackAlways == Spec => []ReadsBack
<1>1. Init => ReadsBack
  BY DEF Init, ReadsBack, Held, HeldVariant, HeldVoid, Objects
<1> QED
  BY <1>1, LifetimesStep, ReadsBackStep, EveryDestructorFits, PTL DEF Spec
=============================================================================
