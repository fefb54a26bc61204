--------------------------- MODULE TableLockerMC ---------------------------
(* TLC instances of TableLocker: two processes, one with two goroutines on  *)
(* the same Locker.                                                         *)
EXTENDS TableLocker, TLC

CONSTANTS p1, p2, g1, g2, g3

MCInstances  == {p1, p2}
MCGoroutines == {g1, g2, g3}
MCLockerOf   == g1 :> p1 @@ g2 :> p1 @@ g3 :> p2
=============================================================================
