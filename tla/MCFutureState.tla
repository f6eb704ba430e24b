---------------------------- MODULE MCFutureState ----------------------------
(* Symmetric instances of FutureState for TLC: no run with liveness uses it.  *)
EXTENDS FutureState, TLC

\* Handles of one kind and the values are interchangeable when both promises
\* are Setters and both futures Continuers.
Symmetry == Permutations(Promises) \union Permutations(Futures) \union Permutations(Values)
=============================================================================
