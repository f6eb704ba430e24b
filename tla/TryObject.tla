----------------------------- MODULE TryObject -----------------------------
(***************************************************************************)
(* Try<T> (base/try.hpp), a hand-made union of nothing, a value and an     *)
(* exception_ptr, next to TryV<T> (base/try_variant.hpp), which does the   *)
(* same with a std::variant: every operation is applied to one object of   *)
(* each class.  Try<void>, which both files spell alike, holds a pointer.  *)
(*                                                                         *)
(* What matters is which object lives in the union: a constructor runs     *)
(* where nothing lives, a destructor where its type lives.  Afterwards     *)
(* everything is undefined, and the program stops.                         *)
(***************************************************************************)
EXTENDS FiniteSets

CONSTANTS
    Tries,       \* the objects of type Try<T>, and the TryV<T> next to each
    Voids,       \* the objects of type Try<void>
    Values,      \* what a T can be
    Exceptions,  \* what an exception_ptr can point to
    Moved,       \* a T, or an exception_ptr, that was moved from
    Empty,       \* no object lives here: in the union, or no exception
    Dead         \* outside of the lifetime

VARIABLES
    inner_type_,  \* of each Try
    union,        \* what lives in its union: [is, holds] or Empty
    value_,       \* the variant of each TryV
    exception_,   \* of each Try<void>
    moved,        \* the objects that were moved from, and not assigned since
    meant,        \* what the program last put into each object
    invalid,      \* the objects whose T threw while it was moved in
    undefined     \* the objects whose union was misused

vars == <<inner_type_, union, value_, exception_, moved, meant, invalid, undefined>>

Objects == Tries \union Voids

T(v)         == [is |-> "kValue", holds |-> v]
ExceptionPtr(e) == [is |-> "kException", holds |-> e]
Nothing      == [is |-> "kNothing", holds |-> Empty]
Valueless    == [is |-> "valueless", holds |-> Empty]   \* valueless_by_exception

Contents == {T(v) : v \in Values} \union {ExceptionPtr(e) : e \in Exceptions}

ASSUME ConstantsAssumption ==
    /\ Tries \intersect Voids = {}
    /\ {Empty, Dead} \intersect (Contents \union {T(Moved), ExceptionPtr(Moved), Nothing, Valueless}) = {}
    /\ {Empty, Dead} \intersect Exceptions = {} /\ Empty # Dead
    /\ Dead \notin {"kNothing", "kValue", "kException"}

TypeOK ==
    /\ inner_type_ \in [Tries -> {"kNothing", "kValue", "kException", Dead}]
    /\ union \in [Tries -> Contents \union {T(Moved), Empty}]
    /\ value_ \in [Tries -> Contents \union {T(Moved), ExceptionPtr(Moved), Nothing, Valueless, Dead}]
    /\ \A x \in Tries : value_[x] = Dead <=> inner_type_[x] = Dead
    /\ exception_ \in [Voids -> Exceptions \union {Empty, Dead}]
    /\ moved \subseteq Objects /\ invalid \subseteq Tries /\ undefined \subseteq Tries
    /\ meant \in [Objects -> Contents \union {Nothing}]

Init ==
    /\ inner_type_ = [x \in Tries |-> Dead] /\ union = [x \in Tries |-> Empty]
    /\ value_ = [x \in Tries |-> Dead]
    /\ exception_ = [u \in Voids |-> Dead]
    /\ moved = {} /\ invalid = {} /\ undefined = {}
    /\ meant = [o \in Objects |-> Nothing]

-----------------------------------------------------------------------------
(* The union.  Try objects are noncopyable; exception_ptrs are copied.      *)
Alive(x) == inner_type_[x] # Dead

\* The program puts c into o, or moves it there from another object.
Means(o, c) == meant' = [meant EXCEPT ![o] = c] /\ moved' = moved \ {o}
MovesTo(o, from) ==
    /\ meant' = [meant EXCEPT ![o] = meant[from]]
    /\ moved' = (IF from \in moved THEN moved \union {o} ELSE moved \ {o}) \union {from}

\* Destroy(): the destructor that inner_type_ names runs on the union.
Destroy(x) ==
    undefined' = IF \/ inner_type_[x] = "kNothing"
                    \/ union[x] # Empty /\ union[x].is = inner_type_[x]
                   THEN undefined ELSE undefined \union {x}

\* What a move constructor leaves of c: the T is moved, the exception_ptr copied.
LeftIn(c) == IF c # Empty /\ c.is = "kValue" THEN T(Moved) ELSE c

\* What std::variant's move leaves of c.
LeftInVariant(c) == IF c.is \in {"kValue", "kException"} THEN [c EXCEPT !.holds = Moved] ELSE c

VariantAssign(x, y) ==
    value_' = [value_ EXCEPT ![x] = value_[y], ![y] = LeftInVariant(@)]

VariantSet(x, c) == value_' = [value_ EXCEPT ![x] = c]

\* Try(), Try(val), Try(exception), and what MakeTryCall returns.
Construct(x, c) ==
    /\ ~Alive(x)
    /\ inner_type_' = [inner_type_ EXCEPT ![x] = c.is]
    /\ union' = [union EXCEPT ![x] = IF c = Nothing THEN Empty ELSE c]
    /\ VariantSet(x, c)
    /\ Means(x, c)
    /\ UNCHANGED <<exception_, invalid, undefined>>

\* Wrong variant: the moved-from object is declared empty, and its T forgotten.
MoveConstructClears(x, y) ==
    /\ ~Alive(x) /\ Alive(y) /\ y \notin invalid
    /\ inner_type_' = [inner_type_ EXCEPT ![x] = inner_type_[y], ![y] = "kNothing"]
    /\ union' = [union EXCEPT ![x] = union[y], ![y] = LeftIn(@)]
    /\ VariantAssign(x, y)
    /\ MovesTo(x, y)
    /\ UNCHANGED <<exception_, invalid, undefined>>

\* Try(Try &&): if the T throws, the object never lived.
MoveConstruct(x, y) ==
    /\ ~Alive(x) /\ Alive(y) /\ y \notin invalid
    /\ inner_type_' = [inner_type_ EXCEPT ![x] = inner_type_[y]]
    /\ union' = [union EXCEPT ![x] = union[y], ![y] = LeftIn(@)]
    /\ VariantAssign(x, y)
    /\ MovesTo(x, y)
    /\ UNCHANGED <<exception_, invalid, undefined>>

\* Try<Unit>(const Try<void> &): a value if there is no exception.
FromVoid(x, u) ==
    /\ exception_[u] # Dead /\ u \notin moved
    /\ \E unit \in Values :
        Construct(x, IF exception_[u] = Empty THEN T(unit) ELSE ExceptionPtr(exception_[u]))

\* Wrong variant: no test of &other == this.
MoveAssignToItself(x, y) ==
    /\ Alive(x) /\ Alive(y) /\ y \notin invalid
    /\ Destroy(x)
    /\ inner_type_' = [inner_type_ EXCEPT ![x] = IF x = y THEN "kNothing" ELSE inner_type_[y]]
    /\ union' = [union EXCEPT ![x] = IF x = y THEN Empty ELSE union[y], ![y] = LeftIn(@)]
    /\ value_' = [value_ EXCEPT ![x] = value_[y], ![y] = IF x = y THEN @ ELSE LeftInVariant(@)]
    /\ IF x = y THEN UNCHANGED <<meant, moved>> ELSE MovesTo(x, y)
    /\ UNCHANGED <<exception_, invalid>>

\* operator=(Try &&), of another object or of itself.
MoveAssign(x, y) ==
    /\ Alive(x) /\ Alive(y) /\ y \notin invalid
    /\ IF x = y
         THEN UNCHANGED <<inner_type_, union, value_, meant, moved, undefined>>
         ELSE /\ Destroy(x)
              /\ inner_type_' = [inner_type_ EXCEPT ![x] = inner_type_[y]]
              /\ union' = [union EXCEPT ![x] = union[y], ![y] = LeftIn(@)]
              /\ VariantAssign(x, y)
              /\ MovesTo(x, y)
    /\ UNCHANGED <<exception_, invalid>>

\* operator=(Try &&) when T's move constructor throws: inner_type_ is assigned, the
\* old object destroyed, and no new one constructed.  MakeWrapperTask (collect.hpp)
\* catches what was thrown and calls SetException on the object.
MoveAssignThrows(x, y) ==
    /\ Alive(x) /\ Alive(y) /\ x # y /\ inner_type_[y] = "kValue" /\ y \notin invalid
    /\ Destroy(x)
    /\ inner_type_' = [inner_type_ EXCEPT ![x] = "kValue"]
    /\ union' = [union EXCEPT ![x] = Empty]
    /\ value_' = [value_ EXCEPT ![x] = IF @.is = "kValue" THEN @ ELSE Valueless]
    /\ invalid' = invalid \union {x}
    /\ UNCHANGED <<exception_, moved, meant>>

\* Wrong variant: an exception is never replaced by another one.
SetExceptionOnce(x, e) ==
    /\ Alive(x)
    /\ IF inner_type_[x] = "kException"
         THEN UNCHANGED <<inner_type_, union, undefined>>
         ELSE /\ Destroy(x)
              /\ inner_type_' = [inner_type_ EXCEPT ![x] = "kException"]
              /\ union' = [union EXCEPT ![x] = ExceptionPtr(e)]
    /\ VariantSet(x, ExceptionPtr(e))
    /\ Means(x, ExceptionPtr(e))
    /\ UNCHANGED <<exception_, invalid>>

SetException(x, e) ==
    /\ Alive(x)
    /\ IF inner_type_[x] = "kException" /\ union[x] = ExceptionPtr(e)
         THEN UNCHANGED <<inner_type_, union, undefined>>
         ELSE /\ Destroy(x)
              /\ inner_type_' = [inner_type_ EXCEPT ![x] = "kException"]
              /\ union' = [union EXCEPT ![x] = ExceptionPtr(e)]
    /\ VariantSet(x, ExceptionPtr(e))
    /\ Means(x, ExceptionPtr(e))
    /\ UNCHANGED <<exception_, invalid>>

\* operator=(const std::exception_ptr &) does the same.
AssignException(x, e) == SetException(x, e)

\* std::move(x).Value(), and a T is move-constructed from it.
TakeValue(x) ==
    /\ Alive(x) /\ inner_type_[x] = "kValue" /\ x \notin moved \union invalid
    /\ union' = [union EXCEPT ![x] = T(Moved)]
    /\ VariantSet(x, T(Moved))
    /\ moved' = moved \union {x}
    /\ UNCHANGED <<inner_type_, exception_, meant, invalid, undefined>>

\* ~Try().
Destruct(x) ==
    /\ Alive(x)
    /\ Destroy(x)
    /\ inner_type_' = [inner_type_ EXCEPT ![x] = Dead]
    /\ union' = [union EXCEPT ![x] = IF inner_type_[x] = "kNothing" THEN @ ELSE Empty]
    /\ value_' = [value_ EXCEPT ![x] = Dead]
    /\ Means(x, Nothing)
    /\ UNCHANGED <<exception_, invalid>>

-----------------------------------------------------------------------------
(* Try<void>: no exception is success.                                      *)
VoidContent(e) == IF e = Empty THEN Nothing ELSE ExceptionPtr(e)

\* Try(), Try(exception), and what MakeTryCall returns.
ConstructVoid(u, e) ==
    /\ exception_[u] = Dead
    /\ exception_' = [exception_ EXCEPT ![u] = e]
    /\ Means(u, VoidContent(e))
    /\ UNCHANGED <<inner_type_, union, value_, invalid, undefined>>

MoveConstructVoid(u, w) ==
    /\ exception_[u] = Dead /\ exception_[w] # Dead
    /\ exception_' = [exception_ EXCEPT ![u] = exception_[w], ![w] = Empty]
    /\ MovesTo(u, w)
    /\ UNCHANGED <<inner_type_, union, value_, invalid, undefined>>

\* SetException and operator=(std::exception_ptr).
SetExceptionVoid(u, e) ==
    /\ exception_[u] # Dead
    /\ exception_' = [exception_ EXCEPT ![u] = e]
    /\ Means(u, VoidContent(e))
    /\ UNCHANGED <<inner_type_, union, value_, invalid, undefined>>

\* operator=(Try &&) swaps: what u held lives on in w.
MoveAssignVoid(u, w) ==
    /\ exception_[u] # Dead /\ exception_[w] # Dead
    /\ exception_' = [exception_ EXCEPT ![u] = exception_[w], ![w] = exception_[u]]
    /\ IF u = w THEN UNCHANGED <<meant, moved>> ELSE MovesTo(u, w)
    /\ UNCHANGED <<inner_type_, union, value_, invalid, undefined>>

DestructVoid(u) ==
    /\ exception_[u] # Dead
    /\ exception_' = [exception_ EXCEPT ![u] = Dead]
    /\ Means(u, Nothing)
    /\ UNCHANGED <<inner_type_, union, value_, invalid, undefined>>

-----------------------------------------------------------------------------
TryStep ==
    \E x \in Tries :
        \/ \E c \in Contents \union {Nothing} : Construct(x, c)
        \/ \E y \in Tries : MoveConstruct(x, y) \/ MoveAssign(x, y) \/ MoveAssignThrows(x, y)
        \/ \E e \in Exceptions : SetException(x, e) \/ AssignException(x, e)
        \/ \E u \in Voids : FromVoid(x, u)
        \/ TakeValue(x) \/ Destruct(x)

VoidStep ==
    \E u \in Voids :
        \/ \E e \in Exceptions \union {Empty} : ConstructVoid(u, e)
        \/ \E w \in Voids : MoveConstructVoid(u, w) \/ MoveAssignVoid(u, w)
        \/ \E e \in Exceptions : SetExceptionVoid(u, e)
        \/ DestructVoid(u)

\* Nothing is said of a program after its undefined behaviour.
Stopped == undefined # {} /\ UNCHANGED vars

Next == (undefined = {} /\ (TryStep \/ VoidStep)) \/ Stopped

Spec == Init /\ [][Next]_vars

-----------------------------------------------------------------------------
(* Properties.                                                              *)

\* Reading x: Available(), HasException(), Value() and GetException() are determined
\* by what CheckHoldsValue finds.
Held(x)        == IF inner_type_[x] \in {"kNothing", Dead} THEN Nothing ELSE union[x]
HeldVariant(x) == IF value_[x] = Dead THEN Nothing ELSE value_[x]
HeldVoid(u)    == IF exception_[u] = Dead THEN Nothing ELSE VoidContent(exception_[u])

\* inner_type_ always names the object that lives in the union, so that each T and
\* each exception_ptr is destroyed exactly once; except where the move of a T into
\* an existing Try has thrown.  The variables keep their types.
LifetimesMatch ==
    /\ TypeOK
    /\ undefined \subseteq invalid
    /\ \A x \in Tries \ invalid :
        IF inner_type_[x] \in {"kNothing", Dead} THEN union[x] = Empty
        ELSE union[x] # Empty /\ union[x].is = inner_type_[x]

\* An object that was not moved from reads as what was last put into it, through any
\* sequence of moves, swaps and assignments; a Try reads as the TryV next to it.
ReadsBack ==
    /\ \A x \in Tries \ (moved \union invalid) :
        Held(x) = meant[x] /\ HeldVariant(x) = meant[x]
    /\ \A u \in Voids \ moved : HeldVoid(u) = meant[u]
=============================================================================
