------------------------------- MODULE OneShot -------------------------------
(***************************************************************************)
(* What a promise/future pair promises to its users, with no word about    *)
(* reference counts, executors or compare-exchanges: one result, one       *)
(* handler, one call.  FutureState implements it.                          *)
(***************************************************************************)
EXTENDS Sequences

CONSTANTS Owners,     \* who may hold a producing end
          Values,     \* results an owner can provide
          Broken,     \* the result when every owner left without providing one
          Handlers,   \* who may subscribe
          None

VARIABLES owners, result, handler, calls

channel == <<owners, result, handler, calls>>

Init ==
    /\ \E o \in Owners : owners = {o}
    /\ result = None /\ handler = None /\ calls = <<>>

\* An owner shares its producing end, or gives it up.
Share(o) ==
    /\ owners # {} /\ o \notin owners
    /\ owners' = owners \union {o}
    /\ UNCHANGED <<result, handler, calls>>

Leave(o) ==
    /\ o \in owners
    /\ owners' = owners \ {o}
    /\ UNCHANGED <<result, handler, calls>>

Fulfil(v) ==
    /\ owners # {} /\ result = None
    /\ result' = v
    /\ UNCHANGED <<owners, handler, calls>>

Break ==
    /\ owners = {} /\ result = None
    /\ result' = Broken
    /\ UNCHANGED <<owners, handler, calls>>

Subscribe(h) ==
    /\ handler = None
    /\ handler' = h
    /\ UNCHANGED <<owners, result, calls>>

Deliver ==
    /\ result # None /\ handler # None /\ calls = <<>>
    /\ calls' = <<<<handler, result>>>>
    /\ UNCHANGED <<owners, result, handler>>

Next ==
    \/ \E o \in Owners : Share(o) \/ Leave(o)
    \/ \E v \in Values : Fulfil(v)
    \/ \E h \in Handlers : Subscribe(h)
    \/ Break \/ Deliver

Spec == Init /\ [][Next]_channel

\* A broken channel says so, and a result that is awaited arrives.
LiveSpec == Spec /\ WF_channel(Break) /\ WF_channel(Deliver)
=============================================================================
