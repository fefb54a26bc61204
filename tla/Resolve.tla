------------------------------- MODULE Resolve -------------------------------
(***************************************************************************)
(* Which migrations a call has to run: internal/gooseutil/resolve.go for   *)
(* the up direction, the walk over the recorded history in provider.go for *)
(* the down direction.  Versions are natural numbers; the history of the   *)
(* database is the sequence of recorded versions in the order of their     *)
(* insertion, and starts with the zero version.                            *)
(***************************************************************************)
EXTENDS Naturals, Sequences, SequencesExt, VersionLists

Outcome(e, vs) == [err |-> e, versions |-> vs]
Failed         == Outcome(TRUE, <<>>)

\* dbMaxVersion starts at zero: an empty history counts as version 0.
dbMaxVersion(history) == Max(ToSet(history) \cup {0})

\* Fault: the target is excluded.
UpVersionsBelow(fsysVersions, history, target, allowMissing) ==
    LET unapplied == {v \in fsysVersions : v \notin ToSet(history) /\ v < target}
    IN  IF (\E v \in unapplied : v < dbMaxVersion(history)) /\ ~allowMissing
        THEN Failed
        ELSE Outcome(FALSE, Ascending(unapplied))

\* The missing (out-of-order) versions and the new ones, in that order of
\* concern; the result is sorted, so that the missing ones come first.
UpVersions(fsysVersions, history, target, allowMissing) ==
    LET unapplied == {v \in fsysVersions : v \notin ToSet(history) /\ v <= target}
        missing   == {v \in unapplied : v < dbMaxVersion(history)}
        new       == {v \in unapplied : v > dbMaxVersion(history)}
    IN  IF missing # {} /\ ~allowMissing
        THEN Failed
        ELSE Outcome(FALSE, Ascending(missing \cup new))

\* The history from its newest row back to the first version that is not
\* above the target.  A version that has no migration fails the whole call.
DownVersions(fsysVersions, history, target) ==
    LET newestFirst == Reverse(history)
        stop  == SelectInSeq(newestFirst, LAMBDA v : v <= target)
        above == IF stop = 0 THEN newestFirst ELSE SubSeq(newestFirst, 1, stop - 1)
    IN  IF Head(newestFirst) # 0 /\ ~(ToSet(above) \subseteq fsysVersions)
        THEN Failed
        ELSE Outcome(FALSE, IF Head(newestFirst) = 0 THEN <<>> ELSE above)
=============================================================================
