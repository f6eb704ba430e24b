---------------------------- MODULE MCCollectAll ----------------------------
(* The calls of CollectAll that TLC checks.                                  *)
EXTENDS CollectAll

MCCalls == {
    \* CollectAll, started one after the other on the parent's thread
    [max_concurrency |-> 0, yield |-> FALSE, Para |-> FALSE,
     variadic |-> FALSE, executor |-> "none"],
    \* CollectAllPara through an executor that may refuse each lazy
    [max_concurrency |-> 0, yield |-> FALSE, Para |-> TRUE,
     variadic |-> FALSE, executor |-> "refuses"],
    \* CollectAllWindowedPara: windows of three and one, the last one started inline
    [max_concurrency |-> 3, yield |-> TRUE, Para |-> TRUE,
     variadic |-> FALSE, executor |-> "accepts"],
    \* CollectAllWindowed: two windows of two, and yields that may be refused
    [max_concurrency |-> 2, yield |-> TRUE, Para |-> FALSE,
     variadic |-> FALSE, executor |-> "refuses"],
    \* CollectAllPara(a, b, c, d), which fills a tuple
    [max_concurrency |-> 0, yield |-> FALSE, Para |-> TRUE, variadic |-> TRUE,
     executor |-> "accepts"]}
=============================================================================
