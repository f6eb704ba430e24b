-------------------------- MODULE MCFutureStateFair --------------------------
(* Fair instances of FutureState in which the owner of the futures either      *)
(* waits for them and takes the result, or continues them, never both.         *)
EXTENDS FutureState

VARIABLE waits

MCInit == Init /\ waits \in BOOLEAN

\* A waiter's state is not force-scheduled: FutureState_force_wait shows why.
KeepsRole ==
    /\ \A f \in Futures :
        At(f, "idle") => pc'[f] \notin (IF waits THEN {"check"} ELSE {"w_exec", "taken"})
    /\ waits => ~force_scheduled'

MCNext == Next /\ KeepsRole /\ UNCHANGED waits

MCFairSpec == MCInit /\ [][MCNext]_<<vars, waits>> /\ Fairness
=============================================================================
