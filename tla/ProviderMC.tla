------------------------------ MODULE ProviderMC ------------------------------
(* TLC instances of Provider: two processes, or two goroutines of one. *)
EXTENDS Provider, TLC

CONSTANTS p1, p2, w1, w2

MCProviders == {p1, p2}
MCWorkers   == {w1, w2}
OneEach     == w1 :> p1 @@ w2 :> p2
BothOnOne   == w1 :> p1 @@ w2 :> p1

\* p2 is a newer release than p1, with a migration that was merged late.
LateMerge == p1 :> <<1, 3>> @@ p2 :> <<1, 2, 3>>
SameFiles == p1 :> <<1, 2>> @@ p2 :> <<1, 2>>
OneRelease == p1 :> <<1, 2, 3>> @@ p2 :> <<1, 2, 3>>

MixedKinds == [v \in Versions |-> CASE v = 1 -> "sqlTx" [] v = 2 -> "goNoTx" [] OTHER -> "goTx"]
SQLKinds   == [v \in Versions |-> IF v = 2 THEN "sqlNoTx" ELSE "sqlTx"]
GoKinds    == 1 :> "goNoTx" @@ 2 :> "goTx"

o(k) == [kind |-> k]
oTo(k, v) == [kind |-> k, version |-> v]
oApply(v, b) == [kind |-> "apply", version |-> v, up |-> b]

OrderedOps == {o("up"), oTo("upTo", 2), o("down"), oTo("downTo", 1)}
\* ApplyVersion takes versions out of the history and puts them back.
LateOps    == {o("up"), o("upByOne"), oTo("upTo", 2), oTo("upTo", 0), oTo("downTo", 1),
               oApply(1, TRUE), oApply(1, FALSE), o("status"), o("hasPending"),
               o("getVersions"), o("getDBVersion")}
UpOps      == {o("up"), oTo("downTo", 0)}
=============================================================================
