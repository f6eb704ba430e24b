----------------------------- MODULE MCLazyTask -----------------------------
(* The programs that TLC runs through LazyTask.                             *)
EXTENDS LazyTask, TLC

\* A root started through Via keeps to the executor of its coroutine; a root
\* without executor neither yields nor schedules.
MCAwaits ==
    "via"   :> {"lazy", "via", "yield", "schedule", "sleep", "future", "unsuspended"} @@
    "plain" :> {"lazy", "via", "sleep", "future", "unsuspended"}
=============================================================================
