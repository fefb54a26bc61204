---------------------------- MODULE ContainersMC ----------------------------
(* TLC instances of Containers. *)
EXTENDS Containers, TLC

CONSTANTS w1, w2, i1, i2

Two    == {w1, w2}
TwoIds == {i1, i2}

\* One starts containers, the other clears up as well.
StarterAndCleaner == w1 :> Starts @@ w2 :> {"Start", "StopManaged", "RemoveManaged"}
=============================================================================
