------------------------- MODULE VersionListsProofs -------------------------
(***************************************************************************)
(* Lemmas about lists of versions: sorting, deleting, first and last.      *)
(*                                                                         *)
(* Induction over data is out of the provers' reach, so sorting is defined *)
(* by the rank of an element, and what is proved about it rests on the     *)
(* library's facts about finite sets: an injection into a set of the same  *)
(* size is a bijection, strict inclusion of finite sets is well founded.   *)
(***************************************************************************)
EXTENDS VersionLists, FiniteSetTheorems, SequenceTheorems, TLAPS

\* Every non-empty set of natural numbers has a least element.
LEMMA LeastExists ==
    ASSUME NEW T \in SUBSET Nat, T # {}
    PROVE  \E m \in T : \A n \in T : m <= n
<1> DEFINE R == StrictSubsetOrdering(Nat)
           Below == {0..n : n \in T}
<1>1. ASSUME NEW n \in T PROVE 0..n \in FiniteSubsetsOf(Nat)
  <2>1. IsFiniteSet(0..n)
    BY FS_Interval, 0 \in Int, n \in Int
  <2> QED
    BY <2>1 DEF FiniteSubsetsOf
<1>2. Below \subseteq FiniteSubsetsOf(Nat) /\ Below # {}
  BY <1>1
<1>3. PICK B \in Below : \A C \in Below : ~ (<<C, B>> \in R)
  BY <1>2, FS_StrictSubsetOrderingWellFounded, WFMin
<1>4. PICK m \in T : B = 0..m
  BY <1>3
<1>5. ASSUME NEW n \in T PROVE m <= n
  <2>1. CASE n < m
    <3>1. 0..n \subseteq 0..m /\ 0..n # 0..m /\ 0..n \in SUBSET Nat /\ 0..m \in SUBSET Nat
      BY <2>1
    <3>2. <<0..n, 0..m>> \in R
      BY <3>1 DEF StrictSubsetOrdering
    <3> QED
      BY <3>2, <1>3, <1>4
  <2> QED
    BY <2>1
<1> QED
  BY <1>5

\* For the elements of a finite set of numbers, being smaller is having fewer
\* elements below.
LEMMA RankMonotone ==
    ASSUME NEW S \in SUBSET Nat, IsFiniteSet(S), NEW x \in S, NEW z \in S, x < z
    PROVE  Cardinality({y \in S : y < x}) < Cardinality({y \in S : y < z})
<1> DEFINE X == {y \in S : y < x}
           Z == {y \in S : y < z}
<1>1. IsFiniteSet(Z) /\ Cardinality(Z) \in Nat
  BY FS_Subset, FS_CardinalityType
<1>2. X \subseteq Z /\ x \in Z /\ x \notin X
  <2>1. x \in Nat /\ z \in Nat /\ \A y \in S : y \in Nat
    OBVIOUS
  <2>2. \A y \in S : y < x => y < z
    BY <2>1
  <2>3. ~(x < x)
    BY <2>1
  <2> QED
    BY <2>2, <2>3
<1>3. Cardinality(X) \in Nat /\ Cardinality(X) <= Cardinality(Z) /\ Cardinality(X) # Cardinality(Z)
  BY <1>1, <1>2, FS_Subset, FS_CardinalityType
<1> QED
  BY <1>1, <1>3

\* What Ascending returns: every element once, in ascending order.
LEMMA AscendingProperties ==
    ASSUME NEW S \in SUBSET Nat, IsFiniteSet(S)
    PROVE  /\ Ascending(S) \in Seq(S)
           /\ Len(Ascending(S)) = Cardinality(S)
           /\ ToSet(Ascending(S)) = S
           /\ \A i, j \in 1..Cardinality(S) : i < j => Ascending(S)[i] < Ascending(S)[j]
           /\ \A i \in 1..Cardinality(S) :
                  Cardinality({y \in S : y < Ascending(S)[i]}) = i - 1
<1> DEFINE n == Cardinality(S)
           rank == [x \in S |-> Cardinality({y \in S : y < x}) + 1]
<1>1. n \in Nat
  BY FS_CardinalityType
<1>2. rank \in [S -> 1..n]
  <2>1. ASSUME NEW x \in S PROVE rank[x] \in 1..n
    <3> DEFINE X == {y \in S : y < x}
    <3>1. x \in Nat /\ ~(x < x)
      OBVIOUS
    <3>2. X \subseteq S /\ X # S
      BY <3>1
    <3>3. Cardinality(X) \in Nat /\ Cardinality(X) < n
      BY <3>2, <1>1, FS_Subset, FS_CardinalityType
    <3>4. rank[x] = Cardinality(X) + 1
      OBVIOUS
    <3> HIDE DEF X
    <3> QED
      BY <1>1, <3>3, <3>4
  <2> QED
    BY <2>1
<1>3. ASSUME NEW x \in S, NEW z \in S, x < z PROVE rank[x] < rank[z]
  <2>1. Cardinality({y \in S : y < x}) < Cardinality({y \in S : y < z})
    BY <1>3, RankMonotone
  <2>2. rank[x] \in 1..n /\ rank[z] \in 1..n
    BY <1>2
  <2>3. /\ rank[x] = Cardinality({y \in S : y < x}) + 1
        /\ rank[z] = Cardinality({y \in S : y < z}) + 1
    OBVIOUS
  <2>4. Cardinality({y \in S : y < x}) \in Nat /\ Cardinality({y \in S : y < z}) \in Nat
    BY FS_Subset, FS_CardinalityType
  <2> QED
    BY <2>1, <2>3, <2>4
<1> HIDE DEF n, rank
<1>4. \A x, z \in S : x \in Nat /\ z \in Nat /\ rank[x] \in Nat /\ rank[z] \in Nat
  BY <1>1, <1>2
<1>5. ASSUME NEW x \in S, NEW z \in S, rank[x] = rank[z] PROVE x = z
  <2>1. ~(rank[x] < rank[z]) /\ ~(rank[z] < rank[x])
    BY <1>5, <1>4
  <2>2. ~(x < z) /\ ~(z < x)
    BY <2>1, <1>3
  <2> QED
    BY <2>2, <1>4
<1>6. rank \in Injection(S, 1..n)
  BY <1>2, <1>5 DEF Injection, IsInjective
<1>7. rank \in Surjection(S, 1..n)
  <2>1. IsFiniteSet(1..n) /\ Cardinality(1..n) = n
    BY <1>1, FS_Interval
  <2> QED
    BY <2>1, <1>6, FS_Injection DEF n
<1>8. ASSUME NEW i \in 1..n PROVE \E x \in S : rank[x] = i
  BY <1>7 DEF Surjection
<1>9. Ascending(S) = [i \in 1..n |-> CHOOSE x \in S : Cardinality({y \in S : y < x}) = i - 1]
  BY DEF Ascending, n
<1>10. ASSUME NEW i \in 1..n PROVE Ascending(S)[i] \in S /\ rank[Ascending(S)[i]] = i
  <2>1. PICK x \in S : rank[x] = i
    BY <1>8
  <2>2. \A z \in S : /\ rank[z] = Cardinality({y \in S : y < z}) + 1
                     /\ Cardinality({y \in S : y < z}) \in Nat
    BY FS_Subset, FS_CardinalityType DEF rank
  <2>3. \A z \in S : rank[z] = i <=> Cardinality({y \in S : y < z}) = i - 1
    BY <2>2, <1>1
  <2>4. Ascending(S)[i] = CHOOSE z \in S : Cardinality({y \in S : y < z}) = i - 1
    BY <1>9
  <2> QED
    BY <2>1, <2>3, <2>4
<1>11. ASSUME NEW i \in 1..n, NEW j \in 1..n, i < j
       PROVE  Ascending(S)[i] < Ascending(S)[j]
  <2> DEFINE a == Ascending(S)[i]
             b == Ascending(S)[j]
  <2>1. a \in S /\ b \in S /\ rank[a] = i /\ rank[b] = j
    BY <1>10
  <2> HIDE DEF a, b
  <2>2. ~(b < a) /\ a # b
    <3>1. ~(j < i) /\ i # j
      BY <1>1, <1>11
    <3> QED
      BY <3>1, <2>1, <1>3
  <2>3. a < b
    BY <2>1, <2>2, <1>4
  <2> QED
    BY <2>3 DEF a, b
<1>12. Ascending(S) \in [1..n -> S]
  BY <1>9, <1>10
<1>13. Ascending(S) \in Seq(S) /\ Len(Ascending(S)) = n
  BY <1>12, <1>1
<1>14. ASSUME NEW x \in S PROVE \E i \in 1..n : Ascending(S)[i] = x
  <2>1. rank[x] \in 1..n
    BY <1>2
  <2>2. Ascending(S)[rank[x]] \in S /\ rank[Ascending(S)[rank[x]]] = rank[x]
    BY <2>1, <1>10
  <2>3. Ascending(S)[rank[x]] = x
    BY <2>2, <1>5
  <2> QED
    BY <2>1, <2>3
<1>15. ToSet(Ascending(S)) = S
  <2>1. DOMAIN Ascending(S) = 1..n
    BY <1>12
  <2>2. ASSUME NEW x \in ToSet(Ascending(S)) PROVE x \in S
    <3>1. PICK i \in 1..n : x = Ascending(S)[i]
      BY <2>1 DEF ToSet
    <3> QED
      BY <3>1, <1>12
  <2>3. ASSUME NEW x \in S PROVE x \in ToSet(Ascending(S))
    <3>1. PICK i \in 1..n : Ascending(S)[i] = x
      BY <1>14
    <3> QED
      BY <3>1, <2>1 DEF ToSet
  <2> QED
    BY <2>2, <2>3
<1>16. ASSUME NEW i \in 1..n PROVE Cardinality({y \in S : y < Ascending(S)[i]}) = i - 1
  <2> DEFINE a == Ascending(S)[i]
  <2>1. a \in S /\ rank[a] = i
    BY <1>10
  <2>2. rank[a] = Cardinality({y \in S : y < a}) + 1 /\ Cardinality({y \in S : y < a}) \in Nat
    BY <2>1, FS_Subset, FS_CardinalityType DEF rank
  <2> HIDE DEF a
  <2>3. Cardinality({y \in S : y < a}) = i - 1
    BY <2>1, <2>2, <1>1
  <2> QED
    BY <2>3 DEF a
<1> QED
  BY <1>11, <1>13, <1>15, <1>16 DEF n

\* A number above all others is the last of the list.
LEMMA AscendingLonger ==
    ASSUME NEW S \in SUBSET Nat, IsFiniteSet(S), NEW m \in Nat, \A x \in S : x < m
    PROVE  Ascending(S \cup {m}) = Append(Ascending(S), m)
<1> DEFINE T == S \cup {m}
           c == Cardinality(S)
           a == Ascending(S)
           b == Ascending(T)
<1>1. /\ c \in Nat /\ IsFiniteSet(T) /\ T \in SUBSET Nat /\ m \notin S
      /\ Cardinality(T) = c + 1
  BY FS_CardinalityType, FS_AddElement
<1>2. /\ a \in Seq(S) /\ Len(a) = c
      /\ \A i \in 1..c : Cardinality({y \in S : y < a[i]}) = i - 1
  BY AscendingProperties
<1>3. /\ b \in Seq(T) /\ Len(b) = c + 1
      /\ \A i \in 1..(c + 1) : Cardinality({y \in T : y < b[i]}) = i - 1
  BY <1>1, AscendingProperties
<1> HIDE DEF a, b
<1>4. \A i \in 1..c : a[i] \in S
  BY <1>2
<1>5. \A i \in 1..(c + 1) : b[i] \in T
  BY <1>3
<1>6. ASSUME NEW i \in 1..c PROVE Cardinality({y \in T : y < a[i]}) = i - 1
  <2>1. a[i] \in Nat /\ a[i] < m /\ ~(m < a[i])
    <3>1. \A x \in S : x \in Nat /\ x < m /\ ~(m < x)
      OBVIOUS
    <3> QED
      BY <3>1, <1>4
  <2>2. {y \in T : y < a[i]} = {y \in S : y < a[i]}
    BY <2>1
  <2> QED
    BY <2>2, <1>2
<1>7. Cardinality({y \in T : y < m}) = c
  <2>1. ~(m < m)
    OBVIOUS
  <2>2. {y \in T : y < m} = S
    BY <2>1
  <2> QED
    BY <2>2
<1> HIDE DEF T, c
<1>8. ASSUME NEW x \in T, NEW z \in T,
             Cardinality({y \in T : y < x}) = Cardinality({y \in T : y < z})
      PROVE  x = z
  <2>1. Cardinality({y \in T : y < x}) \in Nat /\ Cardinality({y \in T : y < z}) \in Nat
    BY <1>1, FS_Subset, FS_CardinalityType
  <2>2. ~(x < z)
    BY <2>1, <1>1, <1>8, RankMonotone
  <2>3. ~(z < x)
    BY <2>1, <1>1, <1>8, RankMonotone
  <2> QED
    BY <2>2, <2>3, <1>1
<1>9. ASSUME NEW i \in 1..c PROVE b[i] = a[i]
  <2>1. i \in 1..(c + 1) /\ a[i] \in T /\ b[i] \in T
    BY <1>1, <1>4, <1>5 DEF T
  <2> QED
    BY <2>1, <1>3, <1>6, <1>8
<1>10. b[c + 1] = m
  <2>1. c + 1 \in 1..(c + 1) /\ (c + 1) - 1 = c
    BY <1>1
  <2>2. m \in T /\ b[c + 1] \in T
    BY <2>1, <1>5 DEF T
  <2>3. Cardinality({y \in T : y < b[c + 1]}) = c
    BY <2>1, <1>3
  <2> QED
    BY <2>2, <2>3, <1>7, <1>8
<1>11. /\ Append(a, m) \in Seq(Nat) /\ b \in Seq(Nat)
       /\ Len(Append(a, m)) = c + 1
       /\ \A i \in 1..c : Append(a, m)[i] = a[i] /\ Append(a, m)[c + 1] = m
  <2>1. a \in Seq(Nat) /\ b \in Seq(Nat)
    BY <1>1, <1>2, <1>3, SeqMonotonic
  <2> QED
    BY <2>1, <1>2, AppendProperties
<1>12. b = Append(a, m)
  <2>1. Append(a, m)[c + 1] = m
    BY <1>2, AppendProperties
  <2>2. \A i \in 1..(c + 1) : b[i] = Append(a, m)[i]
    BY <2>1, <1>1, <1>9, <1>10, <1>11
  <2> QED
    BY <2>2, <1>3, <1>11, SeqEqual
<1> QED
  BY <1>12 DEF a, b, T

-----------------------------------------------------------------------------
(* Lists: their elements, and which of them are once in the list *)

\* The elements of a list.
LEMMA ElementsTyped ==
    ASSUME NEW X, NEW s \in Seq(X)
    PROVE  /\ ToSet(s) \subseteq X
           /\ s \in Seq(ToSet(s))
           /\ s # <<>> => Head(s) \in ToSet(s)
           /\ s = <<>> <=> ToSet(s) = {}
<1>1. Len(s) \in Nat /\ DOMAIN s = 1..Len(s) /\ \A i \in 1..Len(s) : s[i] \in X
  BY LenProperties
<1>2. s # <<>> => Len(s) # 0 /\ Head(s) = s[1]
  BY EmptySeq
<1>3. s = <<>> => Len(s) = 0
  BY EmptySeq
<1>4. s \in [1..Len(s) -> ToSet(s)]
  BY <1>1, LenProperties DEF ToSet
<1>5. s \in Seq(ToSet(s))
  BY <1>1, <1>4, SeqDef
<1>6. s # <<>> => Head(s) \in ToSet(s)
  <2>1. s # <<>> => 1 \in DOMAIN s
    BY <1>1, <1>2
  <2> QED
    BY <1>2, <2>1 DEF ToSet
<1>7. s = <<>> => ToSet(s) = {}
  BY <1>1, <1>3 DEF ToSet
<1> QED
  BY <1>1, <1>5, <1>6, <1>7 DEF ToSet

\* The elements of a list with one more element.
LEMMA ElementsAppend ==
    ASSUME NEW X, NEW s \in Seq(X), NEW e \in X
    PROVE  /\ ToSet(Append(s, e)) = ToSet(s) \cup {e}
           /\ IsInjective(s) /\ e \notin ToSet(s) => IsInjective(Append(s, e))
<1> DEFINE t == Append(s, e)
           n == Len(s)
<1>1. n \in Nat /\ DOMAIN s = 1..n
  BY LenProperties
<1>2. /\ t \in Seq(X) /\ Len(t) = n + 1 /\ t[n + 1] = e
      /\ \A i \in 1..n : t[i] = s[i]
  BY AppendProperties
<1>3. DOMAIN t = 1..(n + 1)
  BY <1>2, LenProperties
<1> HIDE DEF t, n
<1>4. 1..(n + 1) = (1..n) \cup {n + 1}
  BY <1>1
<1>5. ToSet(t) = ToSet(s) \cup {e}
  BY <1>1, <1>2, <1>3, <1>4 DEF ToSet
<1>6. ASSUME IsInjective(s), e \notin ToSet(s) PROVE IsInjective(t)
  <2>1. \A i \in 1..n : s[i] # e
    BY <1>1, <1>6 DEF ToSet
  <2> SUFFICES ASSUME NEW i \in 1..(n + 1), NEW j \in 1..(n + 1), t[i] = t[j]
               PROVE  i = j
    BY <1>3 DEF IsInjective
  <2>2. CASE i \in 1..n /\ j \in 1..n
    BY <2>2, <1>1, <1>2, <1>6 DEF IsInjective
  <2>3. CASE i = n + 1 \/ j = n + 1
    BY <2>1, <2>3, <1>2, <1>4
  <2> QED
    BY <2>2, <2>3, <1>4
<1> QED
  BY <1>5, <1>6 DEF t

\* The elements of a list and those after its first.
LEMMA ElementsTail ==
    ASSUME NEW X, NEW s \in Seq(X), s # <<>>
    PROVE  /\ ToSet(s) = {Head(s)} \cup ToSet(Tail(s))
           /\ Head(s) \in X /\ Tail(s) \in Seq(X)
           /\ IsInjective(s) => IsInjective(Tail(s)) /\ Head(s) \notin ToSet(Tail(s))
<1> DEFINE t == Tail(s)
           n == Len(s)
<1>1. n \in Nat \ {0} /\ DOMAIN s = 1..n /\ Head(s) = s[1]
  BY LenProperties, EmptySeq
<1>2. Head(s) \in X /\ t \in Seq(X) /\ Len(t) = n - 1 /\ \A i \in 1..(n - 1) : t[i] = s[i + 1]
  BY HeadTailProperties
<1>3. DOMAIN t = 1..(n - 1)
  BY <1>2, LenProperties
<1> HIDE DEF t, n
<1>4. \A i \in 1..(n - 1) : i + 1 \in 1..n
  BY <1>1
<1>5. \A i \in 1..n : i # 1 => i - 1 \in 1..(n - 1) /\ (i - 1) + 1 = i
  BY <1>1
<1>6. ToSet(s) = {Head(s)} \cup ToSet(t)
  <2>1. ASSUME NEW x \in ToSet(s) PROVE x \in {Head(s)} \cup ToSet(t)
    <3>1. PICK i \in 1..n : x = s[i]
      BY <1>1 DEF ToSet
    <3>2. CASE i # 1
      <4>1. i - 1 \in 1..(n - 1) /\ x = t[i - 1]
        BY <3>1, <3>2, <1>2, <1>5
      <4> QED
        BY <4>1, <1>3 DEF ToSet
    <3> QED
      BY <3>1, <3>2, <1>1
  <2>2. ASSUME NEW x \in ToSet(t) PROVE x \in ToSet(s)
    <3>1. PICK i \in 1..(n - 1) : x = t[i]
      BY <1>3 DEF ToSet
    <3>2. i + 1 \in 1..n /\ x = s[i + 1]
      BY <3>1, <1>2, <1>4
    <3> QED
      BY <3>2, <1>1 DEF ToSet
  <2>3. Head(s) \in ToSet(s)
    BY <1>1 DEF ToSet
  <2> QED
    BY <2>1, <2>2, <2>3
<1>7. ASSUME IsInjective(s) PROVE IsInjective(t) /\ Head(s) \notin ToSet(t)
  <2>1. \A i, j \in 1..n : s[i] = s[j] => i = j
    BY <1>1, <1>7 DEF IsInjective
  <2>2. \A i, j \in 1..(n - 1) : t[i] = t[j] => i = j
    <3> SUFFICES ASSUME NEW i \in 1..(n - 1), NEW j \in 1..(n - 1), t[i] = t[j]
                 PROVE  i = j
      OBVIOUS
    <3>1. s[i + 1] = s[j + 1] /\ i + 1 \in 1..n /\ j + 1 \in 1..n
      BY <1>2, <1>4
    <3>2. i + 1 = j + 1
      BY <3>1, <2>1
    <3> QED
      BY <3>2, <1>1
  <2>3. \A i \in 1..(n - 1) : t[i] # Head(s)
    <3> SUFFICES ASSUME NEW i \in 1..(n - 1) PROVE t[i] # s[1]
      BY <1>1
    <3>1. t[i] = s[i + 1] /\ i + 1 \in 1..n /\ 1 \in 1..n /\ i + 1 # 1
      BY <1>1, <1>2, <1>4
    <3> QED
      BY <3>1, <2>1
  <2> QED
    BY <2>2, <2>3, <1>3 DEF IsInjective, ToSet
<1> QED
  BY <1>2, <1>6, <1>7 DEF t

\* A list that has every element once is as long as it has elements.
LEMMA InjectiveLength ==
    ASSUME NEW X, NEW s \in Seq(X), IsInjective(s)
    PROVE  Cardinality(ToSet(s)) = Len(s)
<1>1. Len(s) \in Nat /\ DOMAIN s = 1..Len(s) /\ s \in [1..Len(s) -> X]
  BY LenProperties
<1>2. s \in [1..Len(s) -> ToSet(s)] /\ \A x \in ToSet(s) : \E i \in 1..Len(s) : s[i] = x
  BY <1>1 DEF ToSet
<1>3. s \in Bijection(1..Len(s), ToSet(s))
  BY <1>1, <1>2 DEF Bijection, Injection, Surjection, IsInjective
<1>4. ExistsBijection(1..Len(s), ToSet(s))
  BY <1>3 DEF ExistsBijection
<1> QED
  BY <1>1, <1>4, FS_CountingElements

\* Some positions of a list: what is there, in that order.
LEMMA PartProperties ==
    ASSUME NEW X, NEW s \in Seq(X), NEW I \in SUBSET DOMAIN s
    PROVE  /\ Part(s, I) \in Seq(X)
           /\ ToSet(Part(s, I)) = {s[i] : i \in I}
           /\ IsInjective(s) => IsInjective(Part(s, I))
           /\ \A i \in 1..Len(Part(s, I)) : \E k \in I : Part(s, I)[i] = s[k]
           /\ \A i, j \in 1..Len(Part(s, I)) : i < j =>
                 \E k, l \in I : k < l /\ Part(s, I)[i] = s[k] /\ Part(s, I)[j] = s[l]
<1> DEFINE kept == Ascending(I)
           n == Cardinality(I)
           t == Part(s, I)
<1>1. Len(s) \in Nat /\ DOMAIN s = 1..Len(s) /\ \A i \in 1..Len(s) : s[i] \in X
  BY LenProperties
<1>2. I \in SUBSET Nat /\ IsFiniteSet(I) /\ n \in Nat
  <2>1. IsFiniteSet(1..Len(s))
    BY <1>1, FS_Interval
  <2> QED
    BY <1>1, <2>1, FS_Subset, FS_CardinalityType
<1>3. /\ kept \in Seq(I) /\ Len(kept) = n /\ ToSet(kept) = I
      /\ \A i, j \in 1..n : i < j => kept[i] < kept[j]
  BY <1>2, AscendingProperties
<1>4. t = [i \in DOMAIN kept |-> s[kept[i]]]
  BY DEF Part
<1> HIDE DEF kept, n, t
<1>5. DOMAIN kept = 1..n /\ \A i \in 1..n : kept[i] \in I
  BY <1>3, LenProperties
<1>6. /\ t \in [1..n -> X]
      /\ \A i \in 1..n : t[i] = s[kept[i]] /\ kept[i] \in 1..Len(s) /\ kept[i] \in Nat
  BY <1>1, <1>2, <1>4, <1>5
<1>7. t \in Seq(X) /\ Len(t) = n /\ DOMAIN t = 1..n
  BY <1>2, <1>6, SeqDef
<1>8. ToSet(t) = {s[i] : i \in I}
  <2>1. ASSUME NEW x \in ToSet(t) PROVE \E i \in I : x = s[i]
    BY <1>5, <1>6, <1>7 DEF ToSet
  <2>2. ASSUME NEW k \in I PROVE s[k] \in ToSet(t)
    <3>1. PICK i \in 1..n : k = kept[i]
      BY <1>3, <1>5 DEF ToSet
    <3> QED
      BY <3>1, <1>6, <1>7 DEF ToSet
  <2> QED
    BY <2>1, <2>2
<1>9. ASSUME IsInjective(s) PROVE IsInjective(t)
  <2> SUFFICES ASSUME NEW i \in 1..n, NEW j \in 1..n, t[i] = t[j] PROVE i = j
    BY <1>7 DEF IsInjective
  <2>1. kept[i] = kept[j]
    BY <1>1, <1>6, <1>9 DEF IsInjective
  <2>2. ~(kept[i] < kept[j]) /\ ~(kept[j] < kept[i])
    BY <2>1, <1>6
  <2>3. ~(i < j) /\ ~(j < i)
    BY <2>2, <1>3
  <2> QED
    BY <2>3, <1>2
<1>10. ASSUME NEW i \in 1..n PROVE \E k \in I : t[i] = s[k]
  BY <1>5, <1>6
<1>11. ASSUME NEW i \in 1..n, NEW j \in 1..n, i < j
       PROVE  \E k, l \in I : k < l /\ t[i] = s[k] /\ t[j] = s[l]
  BY <1>3, <1>5, <1>6, <1>11
<1> QED
  BY <1>7, <1>8, <1>9, <1>10, <1>11 DEF t

\* Deleting a version from a list keeps the others, in their order.
LEMMA WithoutProperties ==
    ASSUME NEW X, NEW s \in Seq(X), NEW v
    PROVE  /\ Without(s, v) \in Seq(X)
           /\ ToSet(Without(s, v)) = ToSet(s) \ {v}
           /\ IsInjective(s) => IsInjective(Without(s, v))
           /\ \A i, j \in 1..Len(Without(s, v)) : i < j =>
                 \E k, l \in 1..Len(s) : /\ k < l
                                         /\ Without(s, v)[i] = s[k]
                                         /\ Without(s, v)[j] = s[l]
<1> DEFINE keep == {i \in DOMAIN s : s[i] # v}
<1>1. DOMAIN s = 1..Len(s)
  BY LenProperties
<1>2. Without(s, v) = Part(s, keep) /\ keep \in SUBSET DOMAIN s
  BY DEF Without
<1>3. {s[i] : i \in keep} = ToSet(s) \ {v}
  BY DEF ToSet
<1> HIDE DEF keep
<1> QED
  BY <1>1, <1>2, <1>3, PartProperties

\* Sorting by a key that tells the elements apart.
LEMMA SortedByProperties ==
    ASSUME NEW S, IsFiniteSet(S), NEW key \in [S -> Nat],
           \A x, y \in S : key[x] = key[y] => x = y
    PROVE  /\ SortedBy(S, key) \in Seq(S)
           /\ Len(SortedBy(S, key)) = Cardinality(S)
           /\ ToSet(SortedBy(S, key)) = S
           /\ \A i, j \in 1..Cardinality(S) : i < j =>
                  key[SortedBy(S, key)[i]] < key[SortedBy(S, key)[j]]
<1> DEFINE K == {key[x] : x \in S}
           keys == Ascending(K)
           n == Cardinality(S)
           t == SortedBy(S, key)
<1>1. K \in SUBSET Nat /\ key \in Bijection(S, K)
  <2>1. K \in SUBSET Nat /\ key \in [S -> K] /\ \A k \in K : \E x \in S : key[x] = k
    OBVIOUS
  <2> HIDE DEF K
  <2> QED
    BY <2>1 DEF Bijection, Injection, Surjection, IsInjective
<1>2. IsFiniteSet(K) /\ Cardinality(K) = n /\ n \in Nat
  <2>1. ExistsBijection(S, K)
    BY <1>1 DEF ExistsBijection
  <2> QED
    BY <2>1, FS_Bijection, FS_CardinalityType
<1>3. t = [i \in DOMAIN keys |-> CHOOSE x \in S : key[x] = keys[i]]
  BY DEF SortedBy
<1>4. \A k \in K : \E x \in S : key[x] = k
  OBVIOUS
<1> HIDE DEF K
<1>5. /\ keys \in Seq(K) /\ Len(keys) = n /\ ToSet(keys) = K
      /\ \A i, j \in 1..n : i < j => keys[i] < keys[j]
  BY <1>1, <1>2, AscendingProperties
<1> HIDE DEF keys, n, t
<1>6. DOMAIN keys = 1..n /\ \A i \in 1..n : keys[i] \in K
  BY <1>5, LenProperties
<1>7. \A i \in 1..n : t[i] \in S /\ key[t[i]] = keys[i]
  BY <1>3, <1>4, <1>6
<1>8. t \in [1..n -> S]
  BY <1>3, <1>6, <1>7
<1>9. t \in Seq(S) /\ Len(t) = n /\ DOMAIN t = 1..n
  BY <1>2, <1>8, SeqDef
<1>10. ToSet(t) = S
  <2>1. ASSUME NEW x \in S PROVE x \in ToSet(t)
    <3>1. key[x] \in K
      BY DEF K
    <3>2. PICK i \in 1..n : keys[i] = key[x]
      BY <3>1, <1>5, <1>6 DEF ToSet
    <3>3. t[i] = x
      BY <3>2, <1>7
    <3> QED
      BY <3>3, <1>9 DEF ToSet
  <2>2. ToSet(t) \subseteq S
    BY <1>7, <1>9 DEF ToSet
  <2> QED
    BY <2>1, <2>2
<1> QED
  BY <1>5, <1>7, <1>9, <1>10 DEF t, n

\* Max and Min of a set of versions.
LEMMA MaxMinProperties ==
    ASSUME NEW S \in SUBSET Nat, NEW b \in Nat, \A x \in S : x <= b, S # {}
    PROVE  /\ Max(S) \in S /\ \A x \in S : x <= Max(S)
           /\ Min(S) \in S /\ \A x \in S : Min(S) <= x
<1> DEFINE T == {c \in Nat : \A x \in S : x <= c}
<1>1. PICK m \in T : \A c \in T : m <= c
  BY LeastExists
<1>2. m \in S
  <2> SUFFICES ASSUME m \notin S PROVE FALSE
    OBVIOUS
  <2>1. PICK x \in S : TRUE
    OBVIOUS
  <2>2. x \in Nat /\ m \in Nat /\ x <= m /\ x # m
    BY <2>1
  <2>3. m - 1 \in Nat
    BY <2>2
  <2>4. \A y \in S : y <= m - 1
    <3> SUFFICES ASSUME NEW y \in S PROVE y <= m - 1
      OBVIOUS
    <3>1. y \in Nat /\ y <= m /\ y # m
      OBVIOUS
    <3> QED
      BY <3>1, <2>2
  <2>5. m <= m - 1
    BY <1>1, <2>3, <2>4
  <2> QED
    BY <2>2, <2>5
<1>3. m \in S /\ \A x \in S : x <= m /\ x \in Nat /\ m >= x
  BY <1>1, <1>2
<1>4. Max(S) \in S /\ \A x \in S : Max(S) >= x
  BY <1>3 DEF Max
<1>5. PICK k \in S : \A x \in S : k <= x
  BY LeastExists
<1>6. Min(S) \in S /\ \A x \in S : Min(S) <= x
  BY <1>5 DEF Min
<1> QED
  BY <1>4, <1>6

\* One list after the other.
LEMMA ElementsConcat ==
    ASSUME NEW X, NEW s \in Seq(X), NEW t \in Seq(X)
    PROVE  /\ s \o t \in Seq(X)
           /\ ToSet(s \o t) = ToSet(s) \cup ToSet(t)
           /\ IsInjective(s) /\ IsInjective(t) /\ ToSet(s) \cap ToSet(t) = {}
                 => IsInjective(s \o t)
<1> DEFINE u == s \o t
           m == Len(s)
           n == Len(t)
<1>1. m \in Nat /\ n \in Nat /\ DOMAIN s = 1..m /\ DOMAIN t = 1..n
  BY LenProperties
<1>2. /\ u \in Seq(X) /\ Len(u) = m + n
      /\ \A i \in 1..(m + n) : u[i] = IF i <= m THEN s[i] ELSE t[i - m]
  BY ConcatProperties
<1>3. DOMAIN u = 1..(m + n)
  BY <1>2, LenProperties
<1> HIDE DEF u, m, n
<1>4. \A i \in 1..(m + n) : i \in 1..m \/ (i - m \in 1..n /\ ~(i <= m))
  BY <1>1
<1>5. \A j \in 1..n : j + m \in 1..(m + n) /\ ~(j + m <= m) /\ (j + m) - m = j
  BY <1>1
<1>6. ASSUME NEW x \in ToSet(u) PROVE x \in ToSet(s) \cup ToSet(t)
  <2>1. PICK i \in 1..(m + n) : x = u[i]
    BY <1>3, <1>6 DEF ToSet
  <2>2. (i \in 1..m /\ x = s[i]) \/ (i - m \in 1..n /\ x = t[i - m])
    BY <2>1, <1>1, <1>2, <1>4
  <2> QED
    BY <2>2, <1>1 DEF ToSet
<1>7. ASSUME NEW x \in ToSet(s) PROVE x \in ToSet(u)
  <2>1. PICK i \in 1..m : x = s[i]
    BY <1>1, <1>7 DEF ToSet
  <2>2. i \in 1..(m + n) /\ i <= m
    BY <1>1
  <2> QED
    BY <2>1, <2>2, <1>2, <1>3 DEF ToSet
<1>8. ASSUME NEW x \in ToSet(t) PROVE x \in ToSet(u)
  <2>1. PICK j \in 1..n : x = t[j]
    BY <1>1, <1>8 DEF ToSet
  <2>2. u[j + m] = x
    BY <2>1, <1>2, <1>5
  <2> QED
    BY <2>2, <1>3, <1>5 DEF ToSet
<1>9. ToSet(u) = ToSet(s) \cup ToSet(t)
  BY <1>6, <1>7, <1>8
<1>10. ASSUME IsInjective(s), IsInjective(t), ToSet(s) \cap ToSet(t) = {} PROVE IsInjective(u)
  <2>1. \A i \in 1..m, j \in 1..n : s[i] # t[j]
    BY <1>1, <1>10 DEF ToSet
  <2> SUFFICES ASSUME NEW i \in 1..(m + n), NEW j \in 1..(m + n), u[i] = u[j]
               PROVE  i = j
    BY <1>3 DEF IsInjective
  <2>2. CASE i \in 1..m /\ j \in 1..m
    <3>1. s[i] = s[j]
      BY <2>2, <1>1, <1>2
    <3> QED
      BY <2>2, <3>1, <1>1, <1>10 DEF IsInjective
  <2>3. CASE ~(i <= m) /\ ~(j <= m)
    <3>1. i - m \in 1..n /\ j - m \in 1..n /\ t[i - m] = t[j - m]
      BY <2>3, <1>1, <1>2, <1>4
    <3>2. i - m = j - m
      BY <3>1, <1>1, <1>10 DEF IsInjective
    <3> QED
      BY <3>2, <1>1
  <2>4. CASE i \in 1..m /\ ~(j <= m)
    BY <2>1, <2>4, <1>1, <1>2, <1>4
  <2>5. CASE j \in 1..m /\ ~(i <= m)
    BY <2>1, <2>5, <1>1, <1>2, <1>4
  <2> QED
    BY <2>2, <2>3, <2>4, <2>5, <1>4
<1> QED
  BY <1>2, <1>9, <1>10 DEF u

\* The sorted lists have every element once.
LEMMA SortedOnce ==
    ASSUME NEW S \in SUBSET Nat, IsFiniteSet(S)
    PROVE  /\ Ascending(S) \in Seq(S) /\ ToSet(Ascending(S)) = S /\ IsInjective(Ascending(S))
           /\ Descending(S) \in Seq(S) /\ ToSet(Descending(S)) = S
<1> DEFINE a == Ascending(S)
           n == Cardinality(S)
<1>1. /\ a \in Seq(S) /\ Len(a) = n /\ ToSet(a) = S
      /\ \A i, j \in 1..n : i < j => a[i] < a[j]
  BY AscendingProperties
<1>2. n \in Nat /\ DOMAIN a = 1..n /\ \A i \in 1..n : a[i] \in S
  BY <1>1, FS_CardinalityType, LenProperties
<1>3. Descending(S) = [i \in 1..n |-> a[(n - i) + 1]]
  BY <1>1 DEF Descending, Reverse
<1> HIDE DEF a, n
<1>4. IsInjective(a)
  <2> SUFFICES ASSUME NEW i \in 1..n, NEW j \in 1..n, a[i] = a[j] PROVE i = j
    BY <1>2 DEF IsInjective
  <2>1. a[i] \in Nat /\ a[j] \in Nat /\ i \in Nat /\ j \in Nat
    <3>1. a[i] \in S /\ a[j] \in S
      BY <1>2
    <3>2. S \subseteq Nat
      OBVIOUS
    <3>3. i \in Nat /\ j \in Nat
      BY <1>2
    <3> QED
      BY <3>1, <3>2, <3>3
  <2>2. ~(i < j) /\ ~(j < i)
    BY <1>1, <2>1
  <2> QED
    BY <2>1, <2>2
<1> DEFINE d == [i \in 1..n |-> a[(n - i) + 1]]
<1>5. \A i \in 1..n : (n - i) + 1 \in 1..n
  BY <1>2
<1>6. d \in Seq(S) /\ DOMAIN d = 1..n /\ \A i \in 1..n : d[i] = a[(n - i) + 1]
  <2>1. \A i \in 1..n : a[(n - i) + 1] \in S
    BY <1>2, <1>5
  <2> QED
    BY <2>1, <1>2, IsASeq
<1> HIDE DEF d
<1>7. ASSUME NEW x \in S PROVE x \in ToSet(d)
  <2>1. PICK i \in 1..n : a[i] = x
    BY <1>1, <1>2 DEF ToSet
  <2>2. (n - ((n - i) + 1)) + 1 = i
    BY <1>2
  <2>3. d[(n - i) + 1] = x
    BY <2>1, <2>2, <1>5, <1>6
  <2> QED
    BY <2>3, <1>5, <1>6 DEF ToSet
<1>8. ToSet(d) \subseteq S
  BY <1>2, <1>5, <1>6 DEF ToSet
<1> QED
  BY <1>1, <1>3, <1>4, <1>6, <1>7, <1>8 DEF a, d

\* The first of a list without repetitions stays the first, unless it is the
\* one taken out.
LEMMA WithoutKeepsFirst ==
    ASSUME NEW X, NEW s \in Seq(X), NEW v, IsInjective(s), s # <<>>, s[1] # v
    PROVE  Without(s, v) # <<>> /\ Without(s, v)[1] = s[1]
<1> DEFINE t == Without(s, v)
<1>1. /\ t \in Seq(X) /\ ToSet(t) = ToSet(s) \ {v}
      /\ \A i, j \in 1..Len(t) : i < j =>
            \E k, l \in 1..Len(s) : k < l /\ t[i] = s[k] /\ t[j] = s[l]
  BY WithoutProperties
<1>2. Len(s) \in Nat /\ DOMAIN s = 1..Len(s) /\ Len(t) \in Nat /\ DOMAIN t = 1..Len(t)
  BY <1>1, LenProperties
<1> HIDE DEF t
<1>3. 1 \in 1..Len(s)
  BY <1>2, EmptySeq
<1>4. s[1] \in ToSet(t)
  BY <1>1, <1>2, <1>3 DEF ToSet
<1>5. PICK j \in 1..Len(t) : t[j] = s[1]
  BY <1>2, <1>4 DEF ToSet
<1>6. 1 \in 1..Len(t) /\ j \in Nat
  BY <1>2, <1>5
<1>7. ~(1 < j)
  <2> SUFFICES ASSUME 1 < j PROVE FALSE
    OBVIOUS
  <2>1. PICK k, l \in 1..Len(s) : k < l /\ t[1] = s[k] /\ t[j] = s[l]
    BY <1>1, <1>6
  <2>2. l = 1
    BY <2>1, <1>2, <1>3, <1>5 DEF IsInjective
  <2> QED
    BY <2>1, <2>2, <1>2
<1>8. j = 1
  BY <1>5, <1>6, <1>7
<1> QED
  BY <1>1, <1>5, <1>6, <1>8, EmptySeq DEF t
=============================================================================
