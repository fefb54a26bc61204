---------------------------- MODULE VersionLists ----------------------------
(***************************************************************************)
(* Lists of versions: what sort.Slice and the deletion of rows do to them. *)
(***************************************************************************)
EXTENDS Naturals, Sequences, FiniteSets, SequencesExt

\* The elements of a finite set of numbers, the smallest first: the i-th has
\* i - 1 elements below it.
Ascending(S) ==
    [i \in 1..Cardinality(S) |->
        CHOOSE x \in S : Cardinality({y \in S : y < x}) = i - 1]

Descending(S) == Reverse(Ascending(S))

\* The elements of S by ascending key; no two of them have the same.
SortedBy(S, key) ==
    LET keys == Ascending({key[x] : x \in S})
    IN  [i \in DOMAIN keys |-> CHOOSE x \in S : key[x] = keys[i]]

\* What the list s has at the positions I, in their order.
Part(s, I) ==
    LET kept == Ascending(I)
    IN  [i \in DOMAIN kept |-> s[kept[i]]]

\* The list s without v, the others in their order.
Without(s, v) == Part(s, {i \in DOMAIN s : s[i] # v})
=============================================================================
