---------------------------- MODULE MCFutureChain ----------------------------
(* The programs of futures that TLC runs.                                    *)
EXTENDS FutureChain

Node(kind, from) ==
    [kind |-> kind, executor |-> "none", ok |-> TRUE, from |-> from,
     is_try |-> FALSE, throws |-> FALSE, inner |-> 0]
Source   == Node("source", <<>>)
SourceEx == [Source EXCEPT !.executor = "ex"]
Ready    == Node("ready", <<>>)
ThenValue(n) == Node("then", <<n>>)
ThenTry(n)   == [Node("then", <<n>>) EXCEPT !.is_try = TRUE]
Throwing(d)        == [d EXCEPT !.throws = TRUE]
Returning(d, inner) == [d EXCEPT !.inner = inner]
Collect(from)      == Node("collect", from)

MCPrograms == {
    \* a chain that skips, throws and recovers
    [nodes |-> <<SourceEx, ThenValue(1), Throwing(ThenTry(2)), ThenValue(3), ThenTry(4)>>,
     drops |-> FALSE],
    \* a callback that returns another promise's future, and one that uses it
    [nodes |-> <<Source, SourceEx, Returning(ThenValue(2), 1), ThenTry(3)>>,
     drops |-> TRUE],
    \* CollectAll of a future, a chain and a ready future, with a callback on it
    [nodes |-> <<SourceEx, SourceEx, ThenValue(1), Ready, Collect(<<3, 2, 4>>), ThenTry(5)>>,
     drops |-> TRUE],
    \* local states: a callback's future is handed out as it is, or an exception
    [nodes |-> <<[Ready EXCEPT !.executor = "ex"], Source, Returning(ThenValue(1), 2),
                 ThenValue(3), [Ready EXCEPT !.ok = FALSE], Ready, Returning(ThenValue(5), 6),
                 Returning(ThenTry(7), 4), Throwing(ThenTry(8))>>,
     drops |-> FALSE],
    \* a ready exception loses its executor when it skips a callback with a future
    [nodes |-> <<[Ready EXCEPT !.ok = FALSE, !.executor = "ex"], Ready,
                 Returning(ThenValue(1), 2), Source, Returning(ThenTry(3), 4), ThenValue(5)>>,
     drops |-> FALSE]}
=============================================================================
