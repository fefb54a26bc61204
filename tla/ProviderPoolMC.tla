--------------------------- MODULE ProviderPoolMC ---------------------------
(* TLC instances of ProviderPool. *)
EXTENDS ProviderPool, TLC

CONSTANTS p1, p2, w1, w2, w3, c1, c2, c3, c4, c5

TwoProcesses == {p1, p2}
OneProcess   == {p1}
Three        == {w1, w2, w3}
Two          == {w1, w2}
AllConns     == {c1, c2, c3, c4, c5}

Split   == w1 :> p1 @@ w2 :> p1 @@ w3 :> p2
TwoOnP1 == [w \in {w1, w2} |-> p1]

Pools(one, two) == p1 :> one @@ p2 :> two
Config(lock, conns, isolateDDL) ==
    [lock |-> lock, conns |-> conns, isolateDDL |-> isolateDDL]

\* Pools that are large enough: with a session locker any size, with a table
\* locker one connection more than there are goroutines, else two.
Sufficient == {Config("session", Pools({c1, c2}, {c3}), FALSE),
               Config("session", Pools({c1}, {c3}), FALSE),
               Config("table", Pools({c1, c2, c3}, {c4, c5}), FALSE),
               Config("none", Pools({c1, c2}, {c3, c4}), TRUE)}

\* One that is not.
TableLockerOnTwo == {Config("table", p1 :> {c1, c2}, FALSE)}

MixedPlans == {<<"goNoTx", "sqlNoTx">>, <<"goTx">>}
=============================================================================
