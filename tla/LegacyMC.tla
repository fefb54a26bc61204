------------------------------ MODULE LegacyMC ------------------------------
(* TLC instances of Legacy. *)
EXTENDS Legacy, TLC

CONSTANTS p1, p2, p3

MCOp(kind, target, missing, bare) ==
    [kind |-> kind, target |-> target, allowMissing |-> missing,
     noVersioning |-> bare]

Plain(kinds, target) == {MCOp(k, target, FALSE, FALSE) : k \in kinds}
Bare(kinds, target)  == {MCOp(k, target, FALSE, TRUE) : k \in kinds}

\* A service in two releases, the newer one with a migration merged late, and
\* a tool that loads seeds without versioning.
Service == {p1, p2, p3}
Releases == p1 :> {1, 3} @@ p2 :> {1, 2, 3} @@ p3 :> {4}
Both(k) == [up |-> k, down |-> k]
Kinds == <<Both("sqlTx"), Both("goNoTx"), [up |-> "goTx", down |-> "goNoTx"], Both("sqlNoTx")>>
ServiceOps ==
    p1 :> Plain({"up", "upByOne", "down", "redo", "reset", "status"}, 4)
          \cup Plain({"upTo", "downTo"}, 1) \cup Plain({"upTo"}, 0)
    @@ p2 :> Plain({"version", "down"}, 4) \cup Plain({"downTo"}, 2)
          \cup {MCOp("up", 4, TRUE, FALSE), MCOp("upByOne", 4, TRUE, FALSE)}
    @@ p3 :> Bare({"up", "upByOne", "redo", "down", "reset"}, 4)
          \cup Bare({"downTo"}, 0)
=============================================================================
