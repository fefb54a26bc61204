--------------------------- MODULE ProviderProofs ---------------------------
(***************************************************************************)
(* Proofs about Provider, for every number of processes and goroutines,    *)
(* every set of migrations, calls, failures and crashes: first its locks,  *)
(* then what it promises about the version table, the schema and the       *)
(* results of its calls.                                                   *)
(***************************************************************************)
EXTENDS Provider, VersionListsProofs

(* What the version resolution returns, for every set of migrations and history *)

\* What UpVersions returns when it returns a list.
LEMMA UpVersionsProperties ==
    ASSUME NEW b \in Nat, NEW F \in SUBSET (1..b), NEW h \in Seq(0..b),
           NEW t \in Nat, NEW a \in BOOLEAN, ~UpVersions(F, h, t, a).err
    PROVE  LET vs == UpVersions(F, h, t, a).versions
           IN  /\ vs \in Seq(F) /\ IsInjective(vs)
               /\ \A v : v \in ToSet(vs) <=> v \in F /\ v \notin ToSet(h) /\ v <= t
               /\ \A i, j \in 1..Len(vs) : i < j => vs[i] < vs[j]
               /\ ~a => \A v \in ToSet(vs), r \in ToSet(h) : r <= v
<1> DEFINE m         == dbMaxVersion(h)
           unapplied == {v \in F : v \notin ToSet(h) /\ v <= t}
           missing   == {v \in unapplied : v < m}
           new       == {v \in unapplied : v > m}
           vs        == UpVersions(F, h, t, a).versions
<1>1. /\ m \in ToSet(h) \cup {0} /\ m \in Nat
      /\ \A r \in ToSet(h) : r \in Nat /\ r <= m
  <2> DEFINE S == ToSet(h) \cup {0}
  <2>1. S \in SUBSET Nat /\ S # {} /\ \A x \in S : x <= b
    BY ElementsTyped
  <2> HIDE DEF S
  <2>2. Max(S) \in S /\ \A x \in S : x <= Max(S)
    BY <2>1, MaxMinProperties
  <2> QED
    BY <2>1, <2>2 DEF dbMaxVersion, S
<1>2. \A v \in unapplied : v \in Nat /\ v # m /\ v # 0
  BY <1>1
<1>3. missing \cup new = unapplied
  <2>1. \A v \in unapplied : v < m \/ v > m
    <3> HIDE DEF unapplied, m
    <3> QED
      BY <1>1, <1>2
  <2> HIDE DEF m, unapplied
  <2> QED
    BY <2>1
<1>4. UpVersions(F, h, t, a) = IF missing # {} /\ ~a THEN Failed
                               ELSE Outcome(FALSE, Ascending(missing \cup new))
  BY DEF UpVersions
<1>5. (missing = {} \/ a) /\ vs = Ascending(unapplied)
  <2>1. Failed.err = TRUE
    BY DEF Failed, Outcome
  <2>2. Outcome(FALSE, Ascending(unapplied)).versions = Ascending(unapplied)
    BY DEF Outcome
  <2> HIDE DEF m, unapplied, missing, new
  <2>3. ~(missing # {} /\ ~a)
    BY <2>1, <1>4, Zenon
  <2>4. UpVersions(F, h, t, a) = Outcome(FALSE, Ascending(unapplied))
    BY <2>3, <1>3, <1>4, Zenon
  <2> QED
    BY <2>2, <2>3, <2>4, Zenon
<1>6. unapplied \in SUBSET Nat /\ IsFiniteSet(unapplied) /\ Cardinality(unapplied) \in Nat
  <2>1. IsFiniteSet(1..b)
    BY FS_Interval
  <2>2. unapplied \in SUBSET (1..b)
    OBVIOUS
  <2> QED
    BY <2>1, <2>2, FS_Subset, FS_CardinalityType
<1>7. ~a => \A v \in unapplied, r \in ToSet(h) : r <= v
  BY <1>1, <1>2, <1>5
<1>8. unapplied \subseteq F
  OBVIOUS
<1> HIDE DEF unapplied, missing, new, m, vs
<1>9. /\ vs \in Seq(unapplied) /\ ToSet(vs) = unapplied /\ Len(vs) = Cardinality(unapplied)
      /\ \A i, j \in 1..Len(vs) : i < j => vs[i] < vs[j]
  BY <1>5, <1>6, AscendingProperties
<1>10. vs \in Seq(F)
  BY <1>8, <1>9, SeqMonotonic
<1>11. IsInjective(vs)
  <2> SUFFICES ASSUME NEW i \in 1..Len(vs), NEW j \in 1..Len(vs), vs[i] = vs[j]
               PROVE  i = j
    BY <1>9, LenProperties DEF IsInjective
  <2>1. vs[i] \in Nat /\ vs[j] \in Nat
    BY <1>6, <1>9, ElementOfSeq
  <2>2. ~(i < j) /\ ~(j < i)
    BY <1>9, <2>1
  <2> QED
    BY <2>2, <1>6, <1>9
<1> QED
  BY <1>7, <1>9, <1>10, <1>11 DEF unapplied, vs

\* What the walk over the history returns when it returns a list.
LEMMA DownVersionsProperties ==
    ASSUME NEW b \in Nat, NEW F \in SUBSET (1..b), NEW h \in Seq(0..b), h # <<>>,
           NEW t \in Nat, ~DownVersions(F, h, t).err
    PROVE  LET vs == DownVersions(F, h, t).versions
           IN  /\ vs \in Seq(F)
               /\ \A v \in ToSet(vs) : v \in ToSet(h) /\ v > t
               /\ IsInjective(h) => IsInjective(vs)
               /\ (\A i, j \in 1..Len(h) : i < j => h[i] <= h[j]) =>
                      \A v \in ToSet(h) : v > t => v \in ToSet(vs)
<1> DEFINE n     == Len(h)
           nf    == Reverse(h)
           I     == {i \in 1..Len(nf) : nf[i] <= t}
           stop  == SelectInSeq(nf, LAMBDA v : v <= t)
           above == IF stop = 0 THEN nf ELSE SubSeq(nf, 1, stop - 1)
           vs    == DownVersions(F, h, t).versions
<1>1. n \in Nat \ {0} /\ DOMAIN h = 1..n /\ \A i \in 1..n : h[i] \in Nat
  BY LenProperties, EmptySeq, ElementOfSeq
<1>2. \A i \in 1..n : (n - i) + 1 \in 1..n
  BY <1>1
<1>3. nf \in [1..n -> 0..b] /\ \A i \in 1..n : nf[i] = h[(n - i) + 1]
  BY <1>1, <1>2, LenProperties DEF Reverse
<1>4. nf \in Seq(0..b) /\ Len(nf) = n
  BY SMTT(30), <1>1, <1>3, SeqDef
<1>5. stop = IF I # {} THEN Min(I) ELSE 0
  BY DEF SelectInSeq
<1> HIDE DEF n, nf, stop
<1>6. \/ stop = 0 /\ \A i \in 1..n : nf[i] > t
      \/ stop \in 1..n /\ nf[stop] <= t /\ \A i \in 1..(stop - 1) : nf[i] > t
  <2>1. CASE I = {}
    <3>1. \A i \in 1..n : ~(nf[i] <= t)
      BY <2>1, <1>4
    <3>2. \A i \in 1..n : nf[i] \in Nat
      BY <1>3
    <3>3. stop = 0
      BY <2>1, <1>5
    <3> QED
      BY <3>1, <3>2, <3>3
  <2>2. CASE I # {}
    <3>1. I \in SUBSET Nat /\ \A x \in I : x <= n
      BY <1>1, <1>4
    <3>2. Min(I) \in I /\ \A x \in I : Min(I) <= x
      BY <3>1, <2>2, <1>1, MaxMinProperties
    <3>3. stop = Min(I)
      BY <2>2, <1>5
    <3>4. stop \in 1..n /\ nf[stop] <= t /\ \A x \in I : stop <= x
      BY <3>2, <3>3, <1>4
    <3>5. ASSUME NEW i \in 1..(stop - 1) PROVE nf[i] > t
      <4>1. i \in 1..n /\ ~(stop <= i)
        BY <3>4, <1>1
      <4>2. ~(nf[i] <= t)
        BY <4>1, <3>4, <1>4
      <4> QED
        BY <4>1, <4>2, <1>3
    <3> QED
      BY <3>4, <3>5
  <2> QED
    BY <2>1, <2>2
<1>7. PICK k \in 0..n : /\ above \in Seq(0..b) /\ Len(above) = k
                        /\ \A i \in 1..k : above[i] = nf[i] /\ nf[i] > t
                        /\ k # n => nf[k + 1] <= t
  <2>1. CASE stop = 0
    <3>1. n \in 0..n /\ above = nf
      BY <2>1, <1>1
    <3>2. stop \notin 1..n
      BY <2>1, <1>1
    <3> QED
      BY <3>1, <3>2, <1>4, <1>6
  <2>2. CASE stop # 0
    <3>1. stop \in 1..n /\ nf[stop] <= t /\ \A i \in 1..(stop - 1) : nf[i] > t
      BY <2>2, <1>6
    <3>2. /\ stop - 1 \in 0..n /\ (stop - 1) + 1 = stop
          /\ \A i \in 1..(stop - 1) : i \in 1..n /\ 1 + i - 1 = i
      BY <3>1, <1>1
    <3>3. /\ SubSeq(nf, 1, stop - 1) \in Seq(0..b)
          /\ Len(SubSeq(nf, 1, stop - 1)) = stop - 1
          /\ \A i \in 1..(stop - 1) : SubSeq(nf, 1, stop - 1)[i] = nf[i]
      BY <3>1, <3>2, <1>1, <1>3, SubSeqProperties
    <3> QED
      BY <2>2, <3>1, <3>2, <3>3
  <2> QED
    BY <2>1, <2>2
<1>8. DownVersions(F, h, t) =
        IF Head(nf) # 0 /\ ~(ToSet(above) \subseteq F) THEN Failed
        ELSE Outcome(FALSE, IF Head(nf) = 0 THEN <<>> ELSE above)
  BY DEF DownVersions, nf, stop
<1>9. Head(nf) = nf[1]
  BY <1>1, <1>4
<1> HIDE DEF above
<1>10. CASE Head(nf) = 0
  <2>1. vs = <<>>
    BY <1>8, <1>10 DEF Outcome
  <2>2. vs \in Seq(F) /\ ToSet(vs) = {} /\ IsInjective(vs)
    BY <2>1, EmptySeq DEF ToSet, IsInjective
  <2>3. ASSUME \A i, j \in 1..n : i < j => h[i] <= h[j], NEW v \in ToSet(h) PROVE ~(v > t)
    <3>1. h[n] = 0
      <4>1. nf[1] = h[(n - 1) + 1] /\ (n - 1) + 1 = n
        BY <1>1, <1>3
      <4> QED
        BY <4>1, <1>9, <1>10
    <3>2. PICK i \in 1..n : v = h[i]
      BY <1>1 DEF ToSet
    <3>3. v \in Nat /\ v <= h[n]
      BY <3>2, <2>3, <1>1
    <3> QED
      BY <3>1, <3>3
  <2> QED
    BY <2>2, <2>3 DEF vs, n
<1>11. CASE Head(nf) # 0
  <2>1. vs = above /\ ToSet(above) \subseteq F
    BY <1>8, <1>11 DEF Outcome, Failed
  <2>2. vs \in Seq(F)
    BY <2>1, <1>7, ElementsTyped, SeqMonotonic
  <2>3. DOMAIN above = 1..k
    BY <1>7, LenProperties
  <2>4. ASSUME NEW v \in ToSet(vs) PROVE v \in ToSet(h) /\ v > t
    <3>1. PICK i \in 1..k : v = nf[i] /\ v > t
      BY <2>1, <2>3, <1>7 DEF ToSet
    <3>2. i \in 1..n
      BY <1>1
    <3> QED
      BY <3>1, <3>2, <1>1, <1>2, <1>3 DEF ToSet
  <2>5. ASSUME IsInjective(h) PROVE IsInjective(vs)
    <3> SUFFICES ASSUME NEW i \in 1..k, NEW j \in 1..k, above[i] = above[j] PROVE i = j
      BY <2>1, <2>3 DEF IsInjective
    <3>1. i \in 1..n /\ j \in 1..n
      BY <1>1
    <3>2. h[(n - i) + 1] = h[(n - j) + 1]
      BY <3>1, <1>3, <1>7
    <3>3. (n - i) + 1 = (n - j) + 1
      BY <3>1, <3>2, <2>5, <1>1, <1>2 DEF IsInjective
    <3> QED
      BY <3>1, <3>3, <1>1
  <2>6. ASSUME \A i, j \in 1..n : i < j => h[i] <= h[j], NEW v \in ToSet(h), v > t
        PROVE  v \in ToSet(vs)
    <3>1. PICK i \in 1..n : v = h[i]
      BY <1>1 DEF ToSet
    <3> DEFINE l == (n - i) + 1
    <3>2. l \in 1..n /\ (n - l) + 1 = i
      BY <1>1
    <3>3. nf[l] = v
      BY <3>1, <3>2, <1>3
    <3>4. CASE l <= k
      <4>1. l \in 1..k
        BY <3>2, <3>4
      <4> QED
        BY <4>1, <3>3, <2>1, <2>3, <1>7 DEF ToSet
    <3>5. CASE ~(l <= k)
      <4>1. k # n /\ k + 1 \in 1..n /\ k + 1 <= l
        BY <3>2, <3>5, <1>1
      <4> DEFINE q == (n - (k + 1)) + 1
      <4>2. q \in 1..n /\ i <= q
        BY <4>1, <3>2, <1>1
      <4>3. nf[k + 1] = h[q] /\ h[q] <= t
        BY <4>1, <1>3, <1>7
      <4>4. h[i] <= h[q]
        <5>1. h[i] \in Nat
          BY <1>1
        <5>2. CASE i < q
          BY <4>2, <5>2, <2>6
        <5>3. CASE i = q
          BY <5>1, <5>3
        <5> QED
          BY <4>2, <5>2, <5>3, <1>1
      <4> QED
        BY <4>2, <4>3, <4>4, <3>1, <2>6, <1>1
    <3> QED
      BY <3>2, <3>4, <3>5, <1>1
  <2> QED
    BY <2>2, <2>4, <2>5, <2>6 DEF vs, n
<1> QED
  BY <1>10, <1>11

-----------------------------------------------------------------------------
(* Versions and migrations *)

\* Versions are positive, and the migrations of a Provider are versions.
LEMMA VersionFacts ==
    /\ Versions \subseteq 1..MaxVersion
    /\ Versions \subseteq Nat
    /\ 0 \notin Versions
    /\ \A w \in Workers : Known(w) \subseteq Versions
    /\ \A w \in Workers : Migrations[ProviderOf[w]] \in Seq(Versions) \ {<<>>}
<1>1. \A p \in Providers : /\ Migrations[p] \in Seq(1..MaxVersion)
                           /\ Migrations[p] # <<>>
                           /\ ToSet(Migrations[p]) \subseteq 1..MaxVersion
                           /\ ToSet(Migrations[p]) \subseteq Versions
                           /\ Migrations[p] \in Seq(ToSet(Migrations[p]))
  BY ProviderAssumption, ElementsTyped DEF Versions
<1>2. Versions \subseteq 1..MaxVersion
  BY <1>1 DEF Versions
<1>3. \A p \in Providers : Migrations[p] \in Seq(Versions)
  BY <1>1, SeqMonotonic
<1> QED
  BY <1>1, <1>2, <1>3, ProviderAssumption DEF Known

-----------------------------------------------------------------------------
(* Types and locals, in every configuration *)

\* The goroutine is between the decision what to run and the end of it.
Planned(w) == pc[w] \in {"prepare", "run", "record"}

\* The locals of a goroutine fit the place it is at: what it has to run and
\* what it has run are empty before up, down or apply has decided, and in
\* HasPending always; "record" is reached only outside a transaction.
Locals ==
    \A w \in Workers :
        /\ pc[w] # "idle" => /\ op[w] \in Ops
                             /\ op[w].kind = "apply" => op[w].version \in Known(w)
                             /\ phase[w] = "run" => op[w].kind \notin Unlocked
        /\ ~Planned(w) /\ pc[w] \notin {"cleanup", "unlock"} => plan[w] = <<>>
        /\ done[w] # <<>> => pc[w] \in {"run", "record", "cleanup", "unlock"}
        /\ phase[w] = "pending" => ~Planned(w) /\ plan[w] = <<>> /\ done[w] = <<>>
        /\ ret[w] = "pending" => phase[w] = "pending"
        /\ pc[w] = "idle" => phase[w] = "run"
        /\ pc[w] = "record" => plan[w] # <<>> /\ ~Atomic(NextUp(w))

\* The fields of a call.
LEMMA OpFacts ==
    ASSUME NEW o \in Ops
    PROVE  /\ o.kind \in {"up", "upByOne", "upTo", "down", "downTo", "apply", "status",
                          "hasPending", "getVersions", "getDBVersion"}
           /\ o.kind \in {"upTo", "downTo", "apply"} => o.version \in 0..MaxVersion
           /\ o.kind = "apply" => o.up \in BOOLEAN
           /\ Target(o) \in Nat \/ o.kind \in Unlocked \cup {"status", "getDBVersion"}
<1>1. o \in Op
  BY ProviderAssumption
<1>2. /\ o.kind \in {"up", "upByOne", "upTo", "down", "downTo", "apply", "status",
                          "hasPending", "getVersions", "getDBVersion"}
      /\ o.kind \in {"upTo", "downTo", "apply"} => o.version \in 0..MaxVersion
      /\ o.kind = "apply" => o.up \in BOOLEAN
  BY <1>1 DEF Op
<1>3. Target(o) \in Nat \/ o.kind \in Unlocked \cup {"status", "getDBVersion"}
  BY <1>2, ProviderAssumption DEF Target, Unlocked
<1> QED
  BY <1>2, <1>3

\* What a call decides to run are migrations of its Provider.
LEMMA ResolvedTyped ==
    ASSUME TypeOK, Locals, NEW w \in Workers, pc[w] = "list", phase[w] = "run",
           ~Resolved(w).err
    PROVE  Resolved(w).versions \in Seq(Versions)
<1> DEFINE o == op[w]
<1>1. o \in Ops /\ o.kind \notin Unlocked /\ (o.kind = "apply" => o.version \in Known(w))
  BY DEF Locals
<1>2. o.kind \in UpKinds \cup {"down", "downTo", "apply", "status", "getDBVersion"}
  BY <1>1, OpFacts DEF Unlocked, UpKinds
<1>3. rows \in Seq(0..MaxVersion)
  <2>1. Versions \cup {0} \subseteq 0..MaxVersion
    BY VersionFacts, ProviderAssumption
  <2> QED
    BY <2>1, SeqMonotonic DEF TypeOK
<1>4. Known(w) \in SUBSET (1..MaxVersion) /\ Known(w) \subseteq Versions
  BY VersionFacts
<1>9. \A v \in Versions : <<v>> \in Seq(Versions)
  OBVIOUS
<1>5. CASE o.kind \in UpKinds
  <2>1. Resolved(w) = up(w)
    BY <1>5 DEF Resolved, UpKinds
  <2>2. Target(o) \in Nat
    BY <1>1, <1>5, OpFacts DEF UpKinds, Unlocked
  <2>3. CASE DisableVersioning
    <3>1. up(w).versions \in {<<>>, Migrations[ProviderOf[w]]}
      BY <2>3 DEF up, Failed, Outcome
    <3> QED
      BY <2>1, <3>1, VersionFacts, EmptySeq
  <2>4. CASE ~DisableVersioning /\ rows = <<>>
    <3>1. up(w).err = TRUE
      BY <2>4 DEF up, Failed, Outcome
    <3> QED
      BY <2>1, <3>1
  <2>5. CASE ~DisableVersioning /\ rows # <<>>
    <3>1. up(w) = UpVersions(Known(w), rows, Target(o), AllowMissing)
      BY <2>5 DEF up
    <3>2. AllowMissing \in BOOLEAN /\ MaxVersion \in Nat
      BY ProviderAssumption
    <3>3. ~UpVersions(Known(w), rows, Target(o), AllowMissing).err
      BY <2>1, <3>1
    <3>4. up(w).versions \in Seq(Known(w))
      <4> HIDE DEF o
      <4> QED
        BY <2>2, <3>1, <3>2, <3>3, <1>3, <1>4, UpVersionsProperties
    <3> QED
      BY <2>1, <3>4, <1>4, SeqMonotonic
  <2> QED
    BY <2>3, <2>4, <2>5
<1>6. CASE o.kind \in {"down", "downTo"}
  <2>1. Resolved(w) = down(w)
    BY <1>6 DEF Resolved, UpKinds
  <2>2. Target(o) \in Nat
    BY <1>1, <1>6, OpFacts DEF Unlocked
  <2>3. CASE DisableVersioning
    <3> DEFINE ms == Migrations[ProviderOf[w]]
    <3>1. down(w).versions \in {<<Last(ms)>>, ms}
      BY <2>3 DEF down, Outcome
    <3>2. ms \in Seq(Versions) /\ Last(ms) \in Versions
      BY VersionFacts, LenProperties, EmptySeq DEF Last
    <3> QED
      BY <2>1, <3>1, <3>2, <1>9
  <2>4. CASE ~DisableVersioning /\ rows = <<>>
    <3>1. down(w).err = TRUE
      BY <2>4 DEF down, Failed, Outcome
    <3> QED
      BY <2>1, <3>1
  <2>5. CASE ~DisableVersioning /\ rows # <<>>
    <3>1. down(w) = DownVersions(Known(w), rows, Target(o))
      BY <2>5 DEF down
    <3>2. down(w).versions \in Seq(Known(w))
      BY <2>1, <2>2, <2>5, <3>1, <1>3, <1>4, ProviderAssumption, DownVersionsProperties
    <3> QED
      BY <2>1, <3>2, <1>4, SeqMonotonic
  <2> QED
    BY <2>3, <2>4, <2>5
<1>7. CASE o.kind = "apply"
  <2>1. Resolved(w) = apply(w)
    BY <1>7 DEF Resolved, UpKinds
  <2>2. apply(w).versions \in {<<>>, <<o.version>>}
    BY DEF apply, Failed, Outcome
  <2>3. o.version \in Versions
    BY <1>1, <1>4, <1>7
  <2> QED
    BY <2>1, <2>2, <2>3, <1>9, EmptySeq
<1>8. CASE o.kind \in {"status", "getDBVersion"}
  <2>1. Resolved(w).versions = <<>>
    BY <1>8 DEF Resolved, UpKinds, Outcome
  <2> QED
    BY <2>1, EmptySeq
<1> QED
  BY <1>2, <1>5, <1>6, <1>7, <1>8

\* A version row is written or deleted.
LEMMA RecordedTyped ==
    ASSUME TypeOK, NEW v \in Versions, NEW u \in BOOLEAN
    PROVE  Recorded(v, u) \in Seq(Versions \cup {0})
BY AppendProperties, WithoutProperties DEF TypeOK, Recorded

\* The next migration of a goroutine that has something to run.
LEMMA NextUpTyped ==
    ASSUME TypeOK, NEW w \in Workers, plan[w] # <<>>
    PROVE  /\ NextUp(w) \in Versions
           /\ Tail(plan[w]) \in Seq(Versions)
           /\ Append(done[w], NextUp(w)) \in Seq(Versions)
<1>1. plan[w] \in Seq(Versions) /\ done[w] \in Seq(Versions)
  BY DEF TypeOK
<1>2. NextUp(w) \in Versions /\ Tail(plan[w]) \in Seq(Versions)
  BY <1>1, HeadTailProperties DEF NextUp
<1> QED
  BY <1>1, <1>2, AppendProperties

\* A call goes up or down.
LEMMA IsUpBoolean == \A w \in Workers : IsUp(op[w]) \in BOOLEAN
BY DEF IsUp

\* The steps of initialize keep the types and the locals in order.
LEMMA InitializeTyped ==
    ASSUME TypeOK, Locals, NEW w \in Workers, Initialize(w)
    PROVE  TypeOK' /\ Locals'
<1> USE ProviderAssumption DEF TypeOK, Locals, Goto, Finish, db, call, PCs, Planned,
        NextUp, Atomic, useTx, UseOnce
<1>1. CASE LockMu(w)
  <2>1. TypeOK'
    BY <1>1, EmptySeq DEF LockMu, AfterLock
  <2>2. Locals'
    BY ZenonT(60), <1>1 DEF LockMu, AfterLock
  <2> QED
    BY <2>1, <2>2
<1>2. CASE ConnFails(w)
  <2>1. TypeOK'
    BY <1>2, EmptySeq DEF ConnFails, Return, Fresh
  <2>2. Locals'
    BY <1>2 DEF ConnFails, Return, Fresh
  <2> QED
    BY <2>1, <2>2
<1>3. CASE AcquireLock(w)
  <2>1. TypeOK'
    BY <1>3, EmptySeq DEF AcquireLock, AfterLock
  <2>2. Locals'
    BY SMTT(30), <1>3 DEF AcquireLock, AfterLock
  <2> QED
    BY <2>1, <2>2
<1>4. CASE LockFails(w)
  <2>1. TypeOK'
    BY <1>4, EmptySeq DEF LockFails
  <2>2. Locals'
    BY <1>4 DEF LockFails
  <2> QED
    BY <2>1, <2>2
<1>5. CASE CheckTable(w)
  <2>1. CASE UseOnce(w, "ok") /\ Goto(w, "list")
    BY SMTT(30), <2>1, <1>5 DEF CheckTable
  <2>2. CASE Goto(w, "create") /\ UNCHANGED <<once, tries>>
    BY SMTT(30), <2>2, <1>5 DEF CheckTable
  <2> QED
    BY <2>1, <2>2, <1>5 DEF CheckTable
<1>6. CASE CheckTableFails(w)
  <2>1. CASE UseOnce(w, "err") /\ Finish(w, "err")
    BY SMTT(30), <2>1, <1>6 DEF CheckTableFails
  <2>2. CASE Goto(w, "create") /\ UNCHANGED <<once, tries, ret>>
    BY SMTT(30), <2>2, <1>6 DEF CheckTableFails
  <2> QED
    BY <2>1, <2>2, <1>6 DEF CheckTableFails
<1>7. CASE CreateVersionTable(w)
  <2>1. <<0>> \in Seq(Versions \cup {0}) /\ Append(rows, 0) \in Seq(Versions \cup {0})
    BY AppendProperties
  <2>2. TypeOK'
    BY <2>1, <1>7 DEF CreateVersionTable
  <2>3. Locals'
    BY SMTT(30), <1>7 DEF CreateVersionTable
  <2> QED
    BY <2>2, <2>3
<1>8. CASE CreateTableOnly(w)
  <2>1. TypeOK'
    BY <1>8, EmptySeq DEF CreateTableOnly
  <2>2. Locals'
    BY SMTT(30), <1>8 DEF CreateTableOnly
  <2> QED
    BY <2>1, <2>2
<1>9. CASE InsertZero(w)
  <2>1. <<0>> \in Seq(Versions \cup {0}) /\ Append(rows, 0) \in Seq(Versions \cup {0})
    BY AppendProperties
  <2>2. TypeOK'
    BY <2>1, <1>9 DEF InsertZero
  <2>3. Locals'
    BY SMTT(30), <1>9 DEF InsertZero
  <2> QED
    BY <2>2, <2>3
<1>10. CASE CreateFails(w)
  <2>1. table' \in BOOLEAN /\ rows' \in Seq(Versions \cup {0})
    <3>1. <<0>> \in Seq(Versions \cup {0}) /\ Append(rows, 0) \in Seq(Versions \cup {0})
      BY AppendProperties
    <3> QED
      BY ZenonT(60), <3>1, <1>10 DEF CreateFails
  <2>2. CASE /\ tries[w] < EnsureRetries
             /\ tries' = [tries EXCEPT ![w] = @ + 1]
             /\ Goto(w, "ensure")
             /\ UNCHANGED <<once, ret>>
    <3>1. tries' \in [Workers -> 0..EnsureRetries]
      BY <2>2
    <3>2. TypeOK'
      BY <2>1, <2>2, <3>1, <1>10 DEF CreateFails
    <3>3. Locals'
      BY ZenonT(60), <2>2, <1>10 DEF CreateFails
    <3> QED
      BY <3>2, <3>3
  <2>3. CASE UseOnce(w, "err") /\ Finish(w, "err")
    BY SMTT(30), <2>1, <2>3, <1>10 DEF CreateFails
  <2> HIDE DEF TypeOK, Locals, Goto, Finish, UseOnce
  <2> QED
    BY <2>2, <2>3, <1>10 DEF CreateFails
<1> QED
  BY <1>1, <1>2, <1>3, <1>4, <1>5, <1>6, <1>7, <1>8, <1>9, <1>10 DEF Initialize

\* What a migration leaves behind is typed.
LEMMA ExecutedTyped ==
    ASSUME TypeOK, NEW v \in Versions, NEW u \in BOOLEAN
    PROVE  /\ Executed(v, u) \in [Versions -> {"none", "partial", "applied"}]
           /\ RanTwice(v, u) \subseteq Versions
BY DEF TypeOK, Executed, RanTwice

\* The steps of up, down, apply, status and cleanup keep the types and the
\* locals in order.
LEMMA RunTyped ==
    ASSUME TypeOK, Locals, NEW w \in Workers, Run(w)
    PROVE  TypeOK' /\ Locals'
<1> USE ProviderAssumption DEF TypeOK, Locals, Goto, Finish, db, call, PCs, Planned, NextUp
<1>1. CASE ListFails(w)
  BY <1>1 DEF ListFails
<1>2. CASE HasPending(w)
  <2>1. PICK r \in {"err", "ok", "pending"} : Finish(w, r)
    BY <1>2 DEF HasPending
  <2>2. TypeOK'
    BY <2>1, <1>2 DEF HasPending
  <2>3. /\ pc[w] = "list" /\ phase[w] = "pending"
        /\ UNCHANGED <<db, mu, once, holders, call>>
    BY <1>2 DEF HasPending
  <2>4. Locals'
    BY ZenonT(60), <2>1, <2>3
  <2> QED
    BY <2>2, <2>4
<1>3. CASE Decide(w)
  <2> DEFINE r == Resolved(w)
  <2>1. CASE ~r.err /\ r.versions # <<>>
             /\ plan' = [plan EXCEPT ![w] = IF ByOne(op[w]) THEN <<Head(r.versions)>>
                                            ELSE r.versions]
             /\ Goto(w, "prepare") /\ UNCHANGED ret
    <3>1. r.versions \in Seq(Versions)
      BY <2>1, <1>3, ResolvedTyped DEF Decide
    <3>2. <<Head(r.versions)>> \in Seq(Versions)
      <4>1. Head(r.versions) \in Versions
        BY <2>1, <3>1, HeadTailProperties
      <4> QED
        BY <4>1
    <3> HIDE DEF r
    <3>3. plan' \in [Workers -> Seq(Versions)]
      BY <2>1, <3>1, <3>2
    <3>4. \A x \in Workers : x # w => plan'[x] = plan[x]
      BY <2>1
    <3>5. TypeOK'
      BY <2>1, <3>3, <1>3 DEF Decide
    <3>6. Locals'
      BY ZenonT(60), <2>1, <3>4, <1>3 DEF Decide
    <3> QED
      BY <3>5, <3>6
  <2>2. CASE \E e \in {"err", "ok"} : Finish(w, e) /\ UNCHANGED plan
    BY SMTT(30), <2>2, <1>3 DEF Decide
  <2> QED
    BY <2>1, <2>2, <1>3 DEF Decide
<1>4. CASE Prepare(w)
  <2>1. CASE Goto(w, "run") /\ UNCHANGED ret
    BY <2>1, <1>4 DEF Prepare
  <2>2. CASE Finish(w, "err")
    BY <2>2, <1>4 DEF Prepare
  <2> QED
    BY <2>1, <2>2, <1>4 DEF Prepare
<1>5. CASE RunTx(w)
  <2>1. /\ NextUp(w) \in Versions /\ Tail(plan[w]) \in Seq(Versions)
        /\ Append(done[w], NextUp(w)) \in Seq(Versions)
    BY <1>5, NextUpTyped DEF RunTx
  <2>2. /\ schema' \in [Versions -> {"none", "partial", "applied"}] /\ twice' \subseteq Versions
        /\ rows' \in Seq(Versions \cup {0})
    BY <2>1, <1>5, ExecutedTyped, RecordedTyped, IsUpBoolean DEF RunTx
  <2>3. TypeOK'
    BY <2>1, <2>2, <1>5 DEF RunTx, Advance
  <2>4. Locals'
    BY SMTT(30), <1>5 DEF RunTx, Advance
  <2> QED
    BY <2>3, <2>4
<1>6. CASE RunTxFails(w)
  <2>1. NextUp(w) \in Versions
    BY <1>6, NextUpTyped DEF RunTxFails
  <2>2. /\ schema' \in [Versions -> {"none", "partial", "applied"}] /\ twice' \subseteq Versions
        /\ rows' \in Seq(Versions \cup {0}) /\ UNCHANGED <<table, disturbed>>
    <3>1. CASE UNCHANGED db
      BY <3>1
    <3>2. CASE /\ schema' = Executed(NextUp(w), IsUp(op[w]))
               /\ twice' = RanTwice(NextUp(w), IsUp(op[w]))
               /\ rows' = Recorded(NextUp(w), IsUp(op[w]))
               /\ UNCHANGED <<table, disturbed>>
      <4> HIDE DEF NextUp
      <4> QED
        BY <2>1, <3>2, ExecutedTyped, RecordedTyped, IsUpBoolean
    <3> QED
      BY <3>1, <3>2, <1>6 DEF RunTxFails
  <2>3. TypeOK'
    BY <2>2, <1>6 DEF RunTxFails
  <2>4. Locals'
    BY <1>6 DEF RunTxFails
  <2> QED
    BY <2>3, <2>4
<1>7. CASE RunStatements(w)
  <2>1. NextUp(w) \in Versions
    BY <1>7, NextUpTyped DEF RunStatements
  <2>2. schema' \in [Versions -> {"none", "partial", "applied"}] /\ twice' \subseteq Versions
    BY <2>1, <1>7, ExecutedTyped, IsUpBoolean DEF RunStatements
  <2>3. TypeOK'
    BY <2>2, <1>7 DEF RunStatements
  <2>4. Locals'
    BY SMTT(30), <1>7 DEF RunStatements
  <2> QED
    BY <2>3, <2>4
<1>8. CASE RunStatementsFail(w)
  <2>1. NextUp(w) \in Versions
    BY <1>8, NextUpTyped DEF RunStatementsFail
  <2>2. schema' \in [Versions -> {"none", "partial", "applied"}] /\ disturbed' \subseteq Versions
    BY <2>1, <1>8 DEF RunStatementsFail
  <2>3. TypeOK'
    BY <2>2, <1>8 DEF RunStatementsFail
  <2>4. Locals'
    BY <1>8 DEF RunStatementsFail
  <2> QED
    BY <2>3, <2>4
<1>9. CASE Record(w)
  <2>1. /\ NextUp(w) \in Versions /\ Tail(plan[w]) \in Seq(Versions)
        /\ Append(done[w], NextUp(w)) \in Seq(Versions)
    BY <1>9, NextUpTyped DEF Record
  <2>2. rows' \in Seq(Versions \cup {0})
    BY <2>1, <1>9, RecordedTyped, IsUpBoolean DEF Record
  <2>3. TypeOK'
    BY <2>1, <2>2, <1>9 DEF Record, Advance
  <2>4. Locals'
    BY SMTT(30), <1>9 DEF Record, Advance
  <2> QED
    BY <2>3, <2>4
<1>10. CASE RecordFails(w)
  <2>1. NextUp(w) \in Versions
    BY <1>10, NextUpTyped DEF RecordFails
  <2>2. rows' \in Seq(Versions \cup {0}) /\ disturbed' \subseteq Versions
    <3>1. Recorded(NextUp(w), IsUp(op[w])) \in Seq(Versions \cup {0})
      BY <2>1, RecordedTyped, IsUpBoolean
    <3> QED
      BY <2>1, <3>1, <1>10 DEF RecordFails
  <2>3. TypeOK'
    BY <2>2, <1>10 DEF RecordFails
  <2>4. Locals'
    BY ZenonT(60), <1>10 DEF RecordFails
  <2> QED
    BY <2>3, <2>4
<1>11. CASE RunDone(w)
  <2>1. PICK r \in {"ok", "err"} : Finish(w, r)
    BY <1>11 DEF RunDone
  <2> QED
    BY ZenonT(60), <2>1, <1>11 DEF RunDone
<1>12. CASE Cleanup(w)
  <2>1. mu' \in [Providers -> Workers \cup {NoOne}]
    BY <1>12 DEF Cleanup
  <2>2. CASE Goto(w, "unlock") /\ UNCHANGED <<call, ret>>
    BY ZenonT(60), <2>1, <2>2, <1>12 DEF Cleanup
  <2>3. CASE /\ ret[w] = "pending" /\ op[w].kind \in UpKinds
             /\ Goto(w, "mu")
             /\ phase' = [phase EXCEPT ![w] = "run"]
             /\ ret' = [ret EXCEPT ![w] = "none"]
             /\ UNCHANGED <<op, plan, done, tries>>
    BY <2>1, <2>3, <1>12 DEF Cleanup, UpKinds, Unlocked
  <2>4. CASE Return({w})
    BY <2>1, <2>4, <1>12, EmptySeq DEF Cleanup, Return, Fresh
  <2> QED
    BY <2>2, <2>3, <2>4, <1>12 DEF Cleanup
<1>13. CASE ReleaseLock(w)
  BY <1>13, EmptySeq DEF ReleaseLock, Return, Fresh
<1> QED
  BY <1>1, <1>2, <1>3, <1>4, <1>5, <1>6, <1>7, <1>8, <1>9, <1>10, <1>11, <1>12, <1>13 DEF Run

\* A call begins.
LEMMA CallTyped ==
    ASSUME TypeOK, Locals, NEW w \in Workers, Call(w)
    PROVE  TypeOK' /\ Locals'
<1> USE ProviderAssumption DEF TypeOK, Locals, Goto, db, PCs, Planned, NextUp
<1>1. PICK o \in Ops :
         /\ o.kind = "apply" => o.version \in Known(w)
         /\ op' = [op EXCEPT ![w] = o]
         /\ phase' = [phase EXCEPT ![w] = IF o.kind \in UpKinds \cup Unlocked
                                          THEN "pending" ELSE "run"]
  BY DEF Call
<1>2. TypeOK'
  BY <1>1 DEF Call
<1>3. \A x \in Workers : x # w => op'[x] = op[x] /\ phase'[x] = phase[x] /\ pc'[x] = pc[x]
  BY <1>1 DEF Call
<1>4. /\ op'[w] = o /\ pc[w] = "idle" /\ pc'[w] = "mu"
      /\ phase'[w] = IF o.kind \in UpKinds \cup Unlocked THEN "pending" ELSE "run"
  BY <1>1 DEF Call
<1>5. UNCHANGED <<plan, done, ret>> /\ Known(w)' = Known(w)
  BY DEF Call, Known
<1>6. o.kind \in Unlocked => phase'[w] = "pending"
  BY <1>4
<1>7. Locals'
  <2> HIDE DEF TypeOK
  <2> SUFFICES ASSUME NEW x \in Workers
               PROVE  /\ pc'[x] # "idle" => /\ op'[x] \in Ops
                                            /\ op'[x].kind = "apply" => op'[x].version \in Known(x)
                                            /\ phase'[x] = "run" => op'[x].kind \notin Unlocked
                      /\ pc'[x] \notin {"prepare", "run", "record", "cleanup", "unlock"}
                           => plan'[x] = <<>>
                      /\ done'[x] # <<>> => pc'[x] \in {"run", "record", "cleanup", "unlock"}
                      /\ phase'[x] = "pending" => /\ pc'[x] \notin {"prepare", "run", "record"}
                                                  /\ plan'[x] = <<>> /\ done'[x] = <<>>
                      /\ ret'[x] = "pending" => phase'[x] = "pending"
                      /\ pc'[x] = "idle" => phase'[x] = "run"
                      /\ pc'[x] = "record" => plan'[x] # <<>> /\ ~Atomic(Head(plan'[x]))
    BY DEF Atomic, useTx, Known
  <2>1. CASE x = w
    BY <2>1, <1>1, <1>4, <1>5, <1>6
  <2>2. CASE x # w
    BY <2>2, <1>3, <1>5
  <2> QED
    BY <2>1, <2>2
<1> QED
  BY <1>2, <1>7

\* A process dies.
LEMMA CrashTyped ==
    ASSUME TypeOK, Locals, NEW p \in Providers, Crash(p)
    PROVE  TypeOK' /\ Locals'
<1> USE DEF TypeOK, Locals, Planned, NextUp
<1> DEFINE mine == {w \in Workers : ProviderOf[w] = p}
           Current(l) == {NextUp(w) : w \in {x \in mine : pc[x] = l /\ plan[x] # <<>>}}
           open == {v \in Current("run") : ~Atomic(v) /\ ~RunsNothing(v)}
<1>1. ASSUME NEW l PROVE Current(l) \subseteq Versions
  <2>1. \A x \in Workers : plan[x] # <<>> => NextUp(x) \in Versions
    BY NextUpTyped
  <2> HIDE DEF NextUp, TypeOK, Locals
  <2> QED
    BY <2>1
<1>2. PICK half \in SUBSET open :
         /\ schema' = [v \in Versions |-> IF v \in half THEN "partial" ELSE schema[v]]
         /\ disturbed' = disturbed \cup half \cup Current("record")
  BY DEF Crash
<1>3. Return(mine)
  BY DEF Crash
<1>4. half \subseteq Versions /\ Current("record") \subseteq Versions
  BY <1>1
<1> HIDE DEF open, Current
<1>5. schema' \in [Versions -> {"none", "partial", "applied"}] /\ disturbed' \subseteq Versions
  BY <1>2, <1>4
<1>6. TypeOK'
  BY <1>3, <1>5, EmptySeq, ProviderAssumption DEF Crash, Return, Fresh, PCs
<1>7. Locals'
  BY <1>3 DEF Return, Fresh
<1> QED
  BY <1>6, <1>7

\* The initial state.
LEMMA TypeInit == Init => TypeOK /\ Locals
<1> SUFFICES ASSUME Init PROVE TypeOK /\ Locals
  OBVIOUS
<1>1. TypeOK
  <2>1. /\ schema \in [Versions -> {"none", "partial", "applied"}]
        /\ mu \in [Providers -> Workers \cup {NoOne}]
        /\ once \in [Providers -> {"unused", "ok", "err"}]
        /\ tries \in [Workers -> 0..EnsureRetries]
    BY ProviderAssumption DEF Init, Fresh
  <2>2. /\ pc \in [Workers -> PCs]
        /\ op \in [Workers -> Ops \cup {Fresh.op}]
        /\ phase \in [Workers -> {"pending", "run"}]
        /\ ret \in [Workers -> {"none", "ok", "pending", "err", "partial"}]
    BY DEF Init, Fresh, PCs
  <2>3. /\ rows \in Seq(Versions \cup {0})
        /\ plan \in [Workers -> Seq(Versions)]
        /\ done \in [Workers -> Seq(Versions)]
    BY EmptySeq DEF Init, Fresh
  <2>4. table \in BOOLEAN /\ twice \subseteq Versions /\ disturbed \subseteq Versions
        /\ holders \subseteq Workers
    BY DEF Init
  <2> QED
    BY <2>1, <2>2, <2>3, <2>4 DEF TypeOK
<1>2. Locals
  BY DEF Init, Fresh, Locals, Planned
<1> QED
  BY <1>1, <1>2

\* Every step.
LEMMA TypeStep == TypeOK /\ Locals /\ [Next]_vars => TypeOK' /\ Locals'
<1> SUFFICES ASSUME TypeOK, Locals, [Next]_vars PROVE TypeOK' /\ Locals'
  OBVIOUS
<1>1. CASE UNCHANGED vars
  BY <1>1 DEF vars, db, call, TypeOK, Locals, Planned, NextUp
<1>2. CASE Next
  BY <1>2, CallTyped, InitializeTyped, RunTyped, CrashTyped DEF Next
<1> QED
  BY <1>1, <1>2

\* In every configuration the state stays typed and the locals of the calls in
\* order; the retries of tryEnsureVersionTable stay within their bound.
THEOREM TypeCorrect == Spec => []TypeOK
<1>1. Spec => [](TypeOK /\ Locals)
  BY TypeInit, TypeStep, PTL DEF Spec
<1> QED
  BY <1>1, PTL

\* The locals are in order in every reachable state.
LEMMA LocalsCorrect == Spec => [](TypeOK /\ Locals)
BY TypeInit, TypeStep, PTL DEF Spec

-----------------------------------------------------------------------------
(* Who may be at work at the same time *)

\* The places between the Lock and the Unlock of p.mu.
MuHeld == {"lock", "ensure", "create", "insertZero", "list", "prepare", "run",
           "record", "cleanup"}

\* p.mu is held exactly between initialize and cleanup.
MuDiscipline == \A w \in Workers : mu[ProviderOf[w]] = w <=> pc[w] \in MuHeld

\* The steps of a goroutine that has p.mu before and after.
Inside(w) ==
    \/ AcquireLock(w) \/ LockFails(w) \/ CheckTable(w) \/ CheckTableFails(w)
    \/ CreateVersionTable(w) \/ CreateTableOnly(w) \/ InsertZero(w) \/ CreateFails(w)
    \/ ListFails(w) \/ HasPending(w) \/ Decide(w) \/ Prepare(w)
    \/ RunTx(w) \/ RunTxFails(w) \/ RunStatements(w) \/ RunStatementsFail(w)
    \/ Record(w) \/ RecordFails(w) \/ RunDone(w)

\* They leave p.mu and the other goroutines alone.
LEMMA InsideEffect ==
    ASSUME TypeOK, NEW w \in Workers, Inside(w)
    PROVE  /\ pc[w] \in MuHeld /\ pc'[w] \in MuHeld \ {"lock"} /\ mu' = mu
           /\ UNCHANGED <<op, phase>>
           /\ \A x \in Workers \ {w} : /\ pc'[x] = pc[x] /\ plan'[x] = plan[x]
                                       /\ done'[x] = done[x] /\ ret'[x] = ret[x]
<1> USE DEF TypeOK, MuHeld, Goto, Finish, call
<1>1. CASE AcquireLock(w)
  BY <1>1 DEF AcquireLock, AfterLock
<1>2. CASE LockFails(w)
  BY <1>2 DEF LockFails
<1>3. CASE CheckTable(w)
  <2>1. pc' = [pc EXCEPT ![w] = "list"] \/ pc' = [pc EXCEPT ![w] = "create"]
    BY <1>3 DEF CheckTable
  <2> QED
    BY <2>1, <1>3 DEF CheckTable
<1>4. CASE CheckTableFails(w)
  <2>1. \/ pc' = [pc EXCEPT ![w] = "cleanup"] /\ ret' = [ret EXCEPT ![w] = "err"]
        \/ pc' = [pc EXCEPT ![w] = "create"] /\ ret' = ret
    BY <1>4 DEF CheckTableFails
  <2> QED
    BY <2>1, <1>4 DEF CheckTableFails
<1>5. CASE CreateVersionTable(w) \/ CreateTableOnly(w) \/ InsertZero(w)
  BY <1>5 DEF CreateVersionTable, CreateTableOnly, InsertZero
<1>6. CASE CreateFails(w)
  <2>1. \/ pc' = [pc EXCEPT ![w] = "cleanup"] /\ ret' = [ret EXCEPT ![w] = "err"]
        \/ pc' = [pc EXCEPT ![w] = "ensure"] /\ ret' = ret
    BY <1>6 DEF CreateFails
  <2>2. pc[w] \in {"create", "insertZero"} /\ UNCHANGED <<mu, op, phase, plan, done>>
    BY <1>6 DEF CreateFails
  <2> QED
    BY <2>1, <2>2
<1>7. CASE ListFails(w)
  BY <1>7 DEF ListFails
<1>8. CASE HasPending(w)
  <2>1. /\ pc[w] = "list" /\ pc' = [pc EXCEPT ![w] = "cleanup"]
        /\ \A x \in Workers \ {w} : ret'[x] = ret[x]
        /\ UNCHANGED <<mu, op, phase, plan, done>>
    BY <1>8 DEF HasPending
  <2> QED
    BY <2>1
<1>9. CASE Decide(w)
  <2>1. /\ pc[w] = "list"
        /\ pc' = [pc EXCEPT ![w] = "cleanup"] \/ pc' = [pc EXCEPT ![w] = "prepare"]
        /\ \A x \in Workers \ {w} : ret'[x] = ret[x] /\ plan'[x] = plan[x]
        /\ UNCHANGED <<mu, op, phase, done>>
    BY <1>9 DEF Decide
  <2> QED
    BY <2>1
<1>10. CASE Prepare(w)
  <2>1. \/ pc' = [pc EXCEPT ![w] = "cleanup"] /\ ret' = [ret EXCEPT ![w] = "err"]
        \/ pc' = [pc EXCEPT ![w] = "run"] /\ ret' = ret
    BY <1>10 DEF Prepare
  <2> QED
    BY <2>1, <1>10 DEF Prepare
<1>11. CASE RunTx(w)
  BY <1>11 DEF RunTx, Advance
<1>12. CASE RunTxFails(w)
  <2>1. /\ pc[w] = "run" /\ pc' = [pc EXCEPT ![w] = "cleanup"]
        /\ ret' = [ret EXCEPT ![w] = "partial"]
        /\ UNCHANGED <<mu, op, phase, plan, done>>
    BY <1>12 DEF RunTxFails
  <2> QED
    BY <2>1
<1>13. CASE RunStatements(w)
  BY <1>13 DEF RunStatements
<1>14. CASE RunStatementsFail(w)
  <2>1. /\ pc[w] = "run" /\ pc' = [pc EXCEPT ![w] = "cleanup"]
        /\ ret' = [ret EXCEPT ![w] = "partial"]
        /\ UNCHANGED <<mu, op, phase, plan, done>>
    BY <1>14 DEF RunStatementsFail
  <2> QED
    BY <2>1
<1>15. CASE Record(w)
  BY <1>15 DEF Record, Advance
<1>16. CASE RecordFails(w)
  BY <1>16 DEF RecordFails
<1>17. CASE RunDone(w)
  <2>1. /\ pc[w] = "run" /\ pc' = [pc EXCEPT ![w] = "cleanup"]
        /\ \A x \in Workers \ {w} : ret'[x] = ret[x]
        /\ UNCHANGED <<mu, op, phase, plan, done>>
    BY <1>17 DEF RunDone
  <2> QED
    BY <2>1
<1> QED
  BY <1>1, <1>2, <1>3, <1>4, <1>5, <1>6, <1>7, <1>8, <1>9, <1>10, <1>11, <1>12, <1>13,
     <1>14, <1>15, <1>16, <1>17 DEF Inside

\* The other steps of a goroutine.
LEMMA Cases ==
    ASSUME [Next]_vars
    PROVE  \/ UNCHANGED vars
           \/ \E w \in Workers : \/ Call(w) \/ LockMu(w) \/ ConnFails(w) \/ Inside(w)
                                 \/ Cleanup(w) \/ ReleaseLock(w)
           \/ \E p \in Providers : Crash(p)
BY DEF Next, Initialize, Run, Inside

\* No step breaks the discipline of p.mu.
LEMMA MuStep == TypeOK /\ MuDiscipline /\ [Next]_vars => MuDiscipline'
<1> SUFFICES ASSUME TypeOK, MuDiscipline, [Next]_vars PROVE MuDiscipline'
  OBVIOUS
<1> USE ProviderAssumption
<1>1. ASSUME NEW w \in Workers, Inside(w) PROVE MuDiscipline'
  <2>1. /\ pc[w] \in MuHeld /\ pc'[w] \in MuHeld /\ mu' = mu
        /\ \A x \in Workers \ {w} : pc'[x] = pc[x]
    BY <1>1, InsideEffect
  <2> QED
    BY <2>1 DEF MuDiscipline
<1>2. ASSUME NEW w \in Workers, LockMu(w) PROVE MuDiscipline'
  <2>1. pc[w] = "mu" /\ pc' = [pc EXCEPT ![w] = pc'[w]] /\ pc'[w] \in MuHeld
    BY <1>2 DEF LockMu, Goto, AfterLock, MuHeld, TypeOK
  <2>2. mu[ProviderOf[w]] = NoOne /\ mu' = [mu EXCEPT ![ProviderOf[w]] = w]
    BY <1>2 DEF LockMu
  <2> QED
    BY <2>1, <2>2 DEF MuDiscipline, TypeOK
<1>3. ASSUME NEW w \in Workers, ConnFails(w) PROVE MuDiscipline'
  BY <1>3 DEF ConnFails, Return, MuDiscipline, TypeOK, MuHeld
<1>4. ASSUME NEW w \in Workers, Call(w) PROVE MuDiscipline'
  BY <1>4 DEF Call, Goto, MuDiscipline, TypeOK, MuHeld
<1>5. ASSUME NEW w \in Workers, Cleanup(w) PROVE MuDiscipline'
  <2>1. /\ pc[w] = "cleanup" /\ mu' = [mu EXCEPT ![ProviderOf[w]] = NoOne]
        /\ pc'[w] \in {"unlock", "mu", "idle"} /\ \A x \in Workers \ {w} : pc'[x] = pc[x]
    BY <1>5 DEF Cleanup, Goto, Return, TypeOK
  <2> QED
    BY SMTT(30), <2>1 DEF MuDiscipline, TypeOK, MuHeld
<1>6. ASSUME NEW w \in Workers, ReleaseLock(w) PROVE MuDiscipline'
  BY <1>6 DEF ReleaseLock, Return, MuDiscipline, TypeOK, MuHeld
<1>7. ASSUME NEW p \in Providers, Crash(p) PROVE MuDiscipline'
  BY <1>7 DEF Crash, Return, MuDiscipline, TypeOK, MuHeld
<1>8. CASE UNCHANGED vars
  BY <1>8 DEF vars, MuDiscipline
<1> QED
  BY <1>1, <1>2, <1>3, <1>4, <1>5, <1>6, <1>7, <1>8, Cases

\* The outcome of the call depends on the version table, or shows in it.
InCharge(w) ==
    /\ phase[w] = "run"
    /\ \/ pc[w] \in {"list", "prepare", "run", "record"}
       \/ pc[w] = "cleanup" /\ (done[w] # <<>> \/ ret[w] = "ok")

\* At most one goroutine has the lock, from SessionLock or Locker.Lock to the
\* end of cleanup, and who is in charge has it, if one is configured.
LockDiscipline ==
    /\ \A w, x \in holders : w = x
    /\ \A w \in holders : phase[w] = "run" /\ pc[w] \in (MuHeld \ {"lock"}) \cup {"unlock"}
    /\ \A w \in Workers : pc[w] = "lock" => phase[w] = "run"
    /\ LockEnabled => \A w \in Workers :
          InCharge(w) \/ (phase[w] = "run" /\ pc[w] \in {"ensure", "create", "insertZero"})
             => w \in holders

\* The lock changes hands in three steps only.
LEMMA HoldersEffect ==
    ASSUME TypeOK, NEW w \in Workers, Inside(w)
    PROVE  \/ holders' = holders /\ pc[w] # "lock"
           \/ holders' = holders /\ pc'[w] = "cleanup" /\ ret'[w] = "err"
           \/ pc[w] = "lock" /\ holders = {} /\ holders' = {w}
<1> USE DEF Inside, call, db, Goto, Finish, TypeOK
<1>1. CASE AcquireLock(w)
  BY <1>1 DEF AcquireLock
<1>2. CASE LockFails(w)
  BY <1>2 DEF LockFails
<1>3. CASE \/ CheckTable(w) \/ CheckTableFails(w) \/ CreateVersionTable(w)
           \/ CreateTableOnly(w) \/ InsertZero(w) \/ CreateFails(w)
  BY <1>3 DEF CheckTable, CheckTableFails, CreateVersionTable, CreateTableOnly, InsertZero,
              CreateFails
<1>4. CASE ListFails(w) \/ HasPending(w) \/ Decide(w) \/ Prepare(w)
  BY <1>4 DEF ListFails, HasPending, Decide, Prepare
<1>5. CASE \/ RunTx(w) \/ RunTxFails(w) \/ RunStatements(w) \/ RunStatementsFail(w)
           \/ Record(w) \/ RecordFails(w) \/ RunDone(w)
  BY <1>5 DEF RunTx, RunTxFails, RunStatements, RunStatementsFail, Record, RecordFails, RunDone
<1> QED
  BY <1>1, <1>2, <1>3, <1>4, <1>5

\* Goroutines that go back to where they need no lock, and give it up.
LEMMA LockGivenUp ==
    ASSUME TypeOK, LockDiscipline, NEW S \in SUBSET Workers,
           \A x \in S : pc'[x] \in {"idle", "mu"}, holders' = holders \ S,
           \A x \in Workers \ S : /\ pc'[x] = pc[x] /\ phase'[x] = phase[x]
                                  /\ done'[x] = done[x] /\ ret'[x] = ret[x]
    PROVE  LockDiscipline'
<1>1. \A x \in holders' : x \in holders /\ x \in Workers \ S
  BY DEF TypeOK
<1>2. \A x, y \in holders' : x = y
  BY <1>1 DEF LockDiscipline
<1>3. \A x \in holders' : phase'[x] = "run" /\ pc'[x] \in (MuHeld \ {"lock"}) \cup {"unlock"}
  BY <1>1 DEF LockDiscipline
<1>4. \A x \in Workers : pc'[x] = "lock" => phase'[x] = "run"
  BY DEF LockDiscipline
<1>5. ASSUME LockEnabled, NEW x \in Workers,
             InCharge(x)' \/ (phase'[x] = "run" /\ pc'[x] \in {"ensure", "create", "insertZero"})
      PROVE  x \in holders'
  <2>1. x \notin S
    BY <1>5 DEF InCharge
  <2>2. InCharge(x) \/ (phase[x] = "run" /\ pc[x] \in {"ensure", "create", "insertZero"})
    BY <1>5, <2>1 DEF InCharge
  <2> QED
    BY <1>5, <2>1, <2>2 DEF LockDiscipline
<1> QED
  BY <1>2, <1>3, <1>4, <1>5 DEF LockDiscipline

\* No step breaks the discipline of the lock.
LEMMA LockStep ==
    TypeOK /\ Locals /\ Locals' /\ LockDiscipline /\ [Next]_vars => LockDiscipline'
<1> SUFFICES ASSUME TypeOK, Locals, Locals', LockDiscipline, [Next]_vars PROVE LockDiscipline'
  OBVIOUS
<1> USE ProviderAssumption
<1>1. ASSUME NEW w \in Workers, Inside(w) PROVE LockDiscipline'
  <2>1. /\ pc[w] \in MuHeld /\ pc'[w] \in MuHeld \ {"lock"} /\ UNCHANGED <<op, phase>>
        /\ \A x \in Workers \ {w} : pc'[x] = pc[x] /\ done'[x] = done[x] /\ ret'[x] = ret[x]
    BY <1>1, InsideEffect
  <2>2. CASE holders' = holders /\ pc[w] # "lock"
    <3>1. \A x \in holders : phase'[x] = "run" /\ pc'[x] \in (MuHeld \ {"lock"}) \cup {"unlock"}
      BY <2>1 DEF LockDiscipline, TypeOK
    <3>2. \A x \in Workers : pc'[x] = "lock" => phase'[x] = "run"
      BY <2>1 DEF LockDiscipline
    <3>3. ASSUME LockEnabled, NEW x \in Workers,
                 \/ InCharge(x)'
                 \/ phase'[x] = "run" /\ pc'[x] \in {"ensure", "create", "insertZero"}
          PROVE  x \in holders
      <4>1. CASE x # w
        BY <4>1, <3>3, <2>1 DEF InCharge, LockDiscipline
      <4>2. CASE x = w /\ pc[w] # "cleanup"
        <5>1. phase[w] = "run" /\ pc[w] \in {"ensure", "create", "insertZero", "list",
                                             "prepare", "run", "record"}
          BY <4>2, <3>3, <2>1, <2>2 DEF InCharge, MuHeld
        <5> QED
          BY <5>1, <4>2, <3>3 DEF InCharge, LockDiscipline
      <4>3. pc[w] # "cleanup"
        BY <1>1 DEF Inside, AcquireLock, LockFails, CheckTable, CheckTableFails,
           CreateVersionTable, CreateTableOnly, InsertZero, CreateFails, ListFails,
           HasPending, Decide, Prepare, RunTx, RunTxFails, RunStatements,
           RunStatementsFail, Record, RecordFails, RunDone
      <4> QED
        BY <4>1, <4>2, <4>3
    <3> QED
      BY <2>2, <3>1, <3>2, <3>3 DEF LockDiscipline
  <2>3. CASE holders' = holders /\ pc'[w] = "cleanup" /\ ret'[w] = "err" /\ pc[w] = "lock"
    <3>1. done'[w] = <<>>
      <4>1. done' = done
        BY <1>1, <2>3 DEF Inside, call, AcquireLock, LockFails, CheckTable, CheckTableFails,
           CreateVersionTable, CreateTableOnly, InsertZero, CreateFails, ListFails,
           HasPending, Decide, Prepare, RunTx, RunTxFails, RunStatements,
           RunStatementsFail, Record, RecordFails, RunDone
      <4> QED
        BY <4>1, <2>3 DEF Locals
    <3>2. ~InCharge(w)'
      BY <2>3, <3>1 DEF InCharge
    <3>3. w \notin holders
      BY <2>3 DEF LockDiscipline, MuHeld
    <3> QED
      BY ZenonT(60), <2>1, <2>3, <3>2, <3>3 DEF LockDiscipline, InCharge, TypeOK
  <2>4. CASE pc[w] = "lock" /\ holders = {} /\ holders' = {w}
    <3>1. phase[w] = "run"
      BY <2>4 DEF LockDiscipline
    <3> QED
      BY ZenonT(60), <2>1, <2>4, <3>1 DEF LockDiscipline, InCharge, TypeOK
  <2> QED
    BY <1>1, <2>2, <2>3, <2>4, HoldersEffect
<1>2. ASSUME NEW w \in Workers, LockMu(w) PROVE LockDiscipline'
  <2>1. /\ pc[w] = "mu" /\ \A x \in Workers \ {w} : pc'[x] = pc[x]
        /\ UNCHANGED <<holders, op, phase, done, ret>>
        /\ IF phase[w] = "run" /\ LockEnabled THEN pc'[w] = "lock"
           ELSE pc'[w] \in {"list", "ensure"}
    BY <1>2 DEF LockMu, Goto, AfterLock, TypeOK, call
  <2>2. w \notin holders
    BY <2>1 DEF LockDiscipline, MuHeld
  <2> QED
    BY ZenonT(60), <2>1, <2>2 DEF LockDiscipline, InCharge, TypeOK
<1>3. ASSUME NEW w \in Workers, ConnFails(w) \/ Call(w) PROVE LockDiscipline'
  <2>1. /\ pc[w] \in {"idle", "mu"} /\ pc'[w] \in {"idle", "mu"} /\ holders' = holders
        /\ \A x \in Workers \ {w} : /\ pc'[x] = pc[x] /\ phase'[x] = phase[x]
                                    /\ done'[x] = done[x] /\ ret'[x] = ret[x]
    BY <1>3 DEF ConnFails, Call, Goto, Return, TypeOK
  <2>2. holders' = holders \ {w}
    BY <2>1 DEF LockDiscipline, MuHeld
  <2> QED
    BY <2>1, <2>2, LockGivenUp
<1>4. ASSUME NEW w \in Workers, Cleanup(w) PROVE LockDiscipline'
  <2>1. /\ \A x \in Workers \ {w} : /\ pc'[x] = pc[x] /\ phase'[x] = phase[x]
                                    /\ done'[x] = done[x] /\ ret'[x] = ret[x]
        /\ holders' = holders
        /\ \/ w \in holders /\ pc'[w] = "unlock" /\ phase' = phase
           \/ w \notin holders /\ pc'[w] \in {"mu", "idle"}
    BY <1>4 DEF Cleanup, Goto, Return, TypeOK, call
  <2>2. CASE w \in holders /\ pc'[w] = "unlock" /\ phase' = phase
    <3>1. ~InCharge(w)'
      BY <2>2 DEF InCharge
    <3>2. \A x \in Workers \ {w} : InCharge(x)' <=> InCharge(x)
      BY <2>1 DEF InCharge
    <3>3. \A x \in holders' : phase'[x] = "run" /\ pc'[x] \in (MuHeld \ {"lock"}) \cup {"unlock"}
      BY <2>1, <2>2 DEF LockDiscipline, TypeOK
    <3>4. /\ \A x, y \in holders' : x = y
          /\ \A x \in Workers : pc'[x] = "lock" => phase'[x] = "run"
      BY <2>1, <2>2 DEF LockDiscipline
    <3>5. LockEnabled => \A x \in Workers :
            InCharge(x)' \/ (phase'[x] = "run" /\ pc'[x] \in {"ensure", "create", "insertZero"})
               => x \in holders'
      BY <2>1, <2>2, <3>1, <3>2 DEF LockDiscipline
    <3> QED
      BY <3>3, <3>4, <3>5 DEF LockDiscipline
  <2>3. CASE w \notin holders /\ pc'[w] \in {"mu", "idle"}
    <3>1. holders' = holders \ {w} /\ {w} \in SUBSET Workers
      BY <2>1, <2>3
    <3>2. \A x \in {w} : pc'[x] \in {"idle", "mu"}
      BY <2>3
    <3> QED
      BY <2>1, <3>1, <3>2, LockGivenUp
  <2> QED
    BY <2>1, <2>2, <2>3
<1>5. ASSUME NEW w \in Workers, ReleaseLock(w) PROVE LockDiscipline'
  <2>1. /\ pc'[w] = "idle" /\ holders' = holders \ {w}
        /\ \A x \in Workers \ {w} : /\ pc'[x] = pc[x] /\ phase'[x] = phase[x]
                                    /\ done'[x] = done[x] /\ ret'[x] = ret[x]
    BY <1>5 DEF ReleaseLock, Return, TypeOK
  <2>2. {w} \in SUBSET Workers /\ \A x \in {w} : pc'[x] \in {"idle", "mu"}
    BY <2>1
  <2> QED
    BY <2>1, <2>2, LockGivenUp
<1>6. ASSUME NEW p \in Providers, Crash(p) PROVE LockDiscipline'
  <2> DEFINE mine == {w \in Workers : ProviderOf[w] = p}
  <2>1. /\ holders' = holders \ mine
        /\ \A x \in mine : pc'[x] = "idle"
        /\ \A x \in Workers \ mine : /\ pc'[x] = pc[x] /\ phase'[x] = phase[x]
                                     /\ done'[x] = done[x] /\ ret'[x] = ret[x]
    BY <1>6 DEF Crash, Return
  <2>2. mine \in SUBSET Workers
    OBVIOUS
  <2> HIDE DEF mine
  <2> QED
    BY <2>1, <2>2, LockGivenUp
<1>7. CASE UNCHANGED vars
  BY <1>7 DEF vars, call, LockDiscipline, InCharge
<1> QED
  BY <1>1, <1>2, <1>3, <1>4, <1>5, <1>6, <1>7, Cases

\* Calls are kept apart by a lock, or because they are of one Provider.
Serial == LockEnabled \/ \A w, x \in Workers : ProviderOf[w] = ProviderOf[x]

\* Then at most one goroutine is in charge of the version table.
LEMMA Exclusion ==
    ASSUME Serial, TypeOK, MuDiscipline, LockDiscipline,
           NEW w \in Workers, NEW x \in Workers, InCharge(w), InCharge(x)
    PROVE  w = x
<1>1. CASE LockEnabled
  BY <1>1 DEF LockDiscipline
<1>2. CASE \A y, z \in Workers : ProviderOf[y] = ProviderOf[z]
  <2>1. pc[w] \in MuHeld /\ pc[x] \in MuHeld
    BY DEF InCharge, MuHeld
  <2> QED
    BY <1>2, <2>1 DEF MuDiscipline
<1> QED
  BY <1>1, <1>2 DEF Serial

-----------------------------------------------------------------------------
(* The version table and its zero version *)

\* The table is there before its rows, it is there when something is decided
\* from it, and the zero version is on its way into it at most once.
TableSound ==
    /\ ~table => rows = <<>>
    /\ \A w \in Workers : pc[w] = "insertZero" => table /\ 0 \notin ToSet(rows)
    /\ \A w, x \in Workers : pc[w] = "insertZero" /\ pc[x] = "insertZero" => w = x
    /\ ~DisableVersioning => \A w \in Workers : InCharge(w) /\ pc[w] # "list" => table

\* The steps that may write a version row.
Writing(w) == RunTx(w) \/ RunTxFails(w) \/ Record(w) \/ RecordFails(w)

\* What they do to the rows.
LEMMA WritingEffect ==
    ASSUME TypeOK, Locals, NEW w \in Workers, Writing(w)
    PROVE  /\ Planned(w) /\ phase[w] = "run" /\ plan[w] # <<>> /\ NextUp(w) \in Versions
           /\ rows' \in {rows, Recorded(NextUp(w), IsUp(op[w]))} /\ table' = table
           /\ pc'[w] \in {"run", "cleanup"}
           /\ pc'[w] = "run" => /\ rows' = Recorded(NextUp(w), IsUp(op[w]))
                                /\ plan'[w] = Tail(plan[w])
                                /\ done'[w] = Append(done[w], NextUp(w))
           /\ pc'[w] = "cleanup" => done'[w] = done[w] /\ ret'[w] = "partial"
<1>1. Planned(w) /\ plan[w] # <<>>
  BY DEF Writing, RunTx, RunTxFails, Record, RecordFails, Planned, Locals
<1>2. phase[w] = "run"
  BY <1>1 DEF Locals, TypeOK
<1>3. NextUp(w) \in Versions
  BY <1>1, NextUpTyped
<1> HIDE DEF NextUp
<1>4. CASE RunTx(w)
  BY <1>1, <1>2, <1>3, <1>4 DEF RunTx, Advance, TypeOK
<1>5. CASE RunTxFails(w)
  BY <1>1, <1>2, <1>3, <1>5 DEF RunTxFails, Finish, Goto, db, call, TypeOK
<1>6. CASE Record(w)
  BY <1>1, <1>2, <1>3, <1>6 DEF Record, Advance, Goto, TypeOK
<1>7. CASE RecordFails(w)
  BY <1>1, <1>2, <1>3, <1>7 DEF RecordFails, Finish, Goto, call, TypeOK
<1> QED
  BY <1>4, <1>5, <1>6, <1>7 DEF Writing

\* Writing a row of a migration does not touch the zero version.
LEMMA RecordedElements ==
    ASSUME TypeOK, NEW v \in Versions, NEW u \in BOOLEAN
    PROVE  /\ ToSet(Recorded(v, u)) = IF DisableVersioning THEN ToSet(rows)
                                      ELSE IF u THEN ToSet(rows) \cup {v}
                                      ELSE ToSet(rows) \ {v}
           /\ 0 \in ToSet(Recorded(v, u)) <=> 0 \in ToSet(rows)
<1>1. rows \in Seq(Versions \cup {0}) /\ v # 0
  BY VersionFacts DEF TypeOK
<1>2. /\ ToSet(Append(rows, v)) = ToSet(rows) \cup {v}
      /\ ToSet(Without(rows, v)) = ToSet(rows) \ {v}
  BY <1>1, ElementsAppend, WithoutProperties
<1>3. ToSet(Recorded(v, u)) = IF DisableVersioning THEN ToSet(rows)
                              ELSE IF u THEN ToSet(rows) \cup {v} ELSE ToSet(rows) \ {v}
  BY <1>2 DEF Recorded
<1> QED
  BY <1>1, <1>3

\* The steps of a goroutine with p.mu that leave the version table as it is.
Reading(w) ==
    \/ AcquireLock(w) \/ LockFails(w) \/ CheckTable(w) \/ CheckTableFails(w)
    \/ ListFails(w) \/ HasPending(w) \/ Decide(w) \/ Prepare(w)
    \/ RunStatements(w) \/ RunStatementsFail(w) \/ RunDone(w)

LEMMA ReadingEffect ==
    ASSUME TypeOK, Locals, NEW w \in Workers, Reading(w)
    PROVE  /\ UNCHANGED <<table, rows>> /\ pc'[w] # "insertZero"
           /\ InCharge(w)' /\ pc'[w] # "list" => \/ InCharge(w) /\ pc[w] # "list"
                                                 \/ DisableVersioning \/ table
<1> USE DEF TypeOK, Locals, Goto, Finish, db, call, InCharge, Planned
<1>1. CASE AcquireLock(w)
  BY <1>1 DEF AcquireLock, AfterLock
<1>2. CASE LockFails(w)
  BY <1>2 DEF LockFails
<1>3. CASE CheckTable(w)
  <2>1. pc' = [pc EXCEPT ![w] = "list"] \/ pc' = [pc EXCEPT ![w] = "create"]
    BY <1>3 DEF CheckTable
  <2> QED
    BY <2>1, <1>3 DEF CheckTable
<1>4. CASE CheckTableFails(w)
  <2>1. \/ pc' = [pc EXCEPT ![w] = "cleanup"] /\ ret' = [ret EXCEPT ![w] = "err"]
        \/ pc' = [pc EXCEPT ![w] = "create"] /\ ret' = ret
    BY <1>4 DEF CheckTableFails
  <2>2. pc[w] = "ensure" /\ UNCHANGED <<table, rows, done>>
    BY <1>4 DEF CheckTableFails
  <2> QED
    BY ZenonT(60), <2>1, <2>2
<1>5. CASE ListFails(w)
  BY <1>5 DEF ListFails
<1>6. CASE HasPending(w)
  <2>1. /\ pc[w] = "list" /\ phase[w] = "pending" /\ pc'[w] = "cleanup"
        /\ UNCHANGED <<table, rows, phase>>
    BY <1>6 DEF HasPending
  <2> QED
    BY <2>1
<1>7. CASE Decide(w)
  <2>1. /\ UNCHANGED <<table, rows>> /\ pc'[w] \in {"cleanup", "prepare"}
        /\ DisableVersioning \/ table
    BY <1>7 DEF Decide
  <2> QED
    BY <2>1
<1>8. CASE Prepare(w) \/ RunStatements(w) \/ RunStatementsFail(w) \/ RunDone(w)
  <2>1. UNCHANGED <<table, rows, phase>> /\ Planned(w) /\ pc'[w] \in {"run", "record", "cleanup"}
    BY <1>8 DEF Prepare, RunStatements, RunStatementsFail, RunDone
  <2>2. phase[w] = "run"
    BY <2>1
  <2> QED
    BY <2>1, <2>2
<1> QED
  BY <1>1, <1>2, <1>3, <1>4, <1>5, <1>6, <1>7, <1>8 DEF Reading

\* The steps that create the table and write the zero version.
Creating(w) == CreateVersionTable(w) \/ CreateTableOnly(w) \/ InsertZero(w) \/ CreateFails(w)

LEMMA CreatingEffect ==
    ASSUME TypeOK, Locals, TableSound, NEW w \in Workers, Creating(w)
    PROVE  /\ pc[w] \in {"create", "insertZero"} /\ ~InCharge(w)
           /\ InCharge(w)' => pc'[w] = "list"
           /\ pc'[w] = "insertZero" => ~table /\ table' /\ rows' = rows
           /\ \/ UNCHANGED <<table, rows>>
              \/ ~table /\ table' /\ rows' = rows
              \/ /\ 0 \notin ToSet(rows) /\ rows' = Append(rows, 0) /\ table'
                 /\ ~table \/ pc[w] = "insertZero"
<1> USE DEF TypeOK, Locals, Goto, Finish, db, call, InCharge, Planned
<1>1. ~table => <<0>> = Append(rows, 0) /\ 0 \notin ToSet(rows)
  BY DEF TableSound, ToSet
<1>2. CASE CreateVersionTable(w)
  BY <1>1, <1>2 DEF CreateVersionTable
<1>3. CASE CreateTableOnly(w)
  BY <1>3 DEF CreateTableOnly
<1>4. CASE InsertZero(w)
  <2>1. /\ pc[w] = "insertZero" /\ pc'[w] = "list"
        /\ rows' = Append(rows, 0) /\ UNCHANGED table
    BY <1>4 DEF InsertZero
  <2>2. table /\ 0 \notin ToSet(rows)
    BY <2>1 DEF TableSound
  <2>3. ~InCharge(w) /\ pc'[w] # "insertZero"
    BY <2>1
  <2> HIDE DEF InCharge, TypeOK, Locals
  <2> QED
    BY <2>1, <2>2, <2>3
<1>5. CASE CreateFails(w)
  <2>1. \/ pc[w] = "create" /\ UNCHANGED <<table, rows>>
        \/ pc[w] = "create" /\ ~table /\ table' /\ rows' \in {rows, <<0>>}
        \/ pc[w] = "insertZero" /\ UNCHANGED <<table, rows>>
        \/ pc[w] = "insertZero" /\ rows' = Append(rows, 0) /\ UNCHANGED table
    BY <1>5 DEF CreateFails
  <2>2. /\ UNCHANGED <<phase, done>>
        /\ \/ pc'[w] = "ensure"
           \/ pc'[w] = "cleanup" /\ ret'[w] = "err"
    BY <1>5 DEF CreateFails
  <2>3. pc[w] = "insertZero" => table /\ 0 \notin ToSet(rows)
    BY DEF TableSound
  <2>4. pc[w] \in {"create", "insertZero"} /\ done[w] = <<>>
    BY <2>1
  <2>5. ~InCharge(w) /\ ~InCharge(w)' /\ pc'[w] # "insertZero"
    BY <2>2, <2>4
  <2>6. \/ UNCHANGED <<table, rows>>
        \/ ~table /\ table' /\ rows' = rows
        \/ /\ 0 \notin ToSet(rows) /\ rows' = Append(rows, 0) /\ table'
           /\ ~table \/ pc[w] = "insertZero"
    <3> HIDE DEF InCharge, TypeOK, Locals, Planned, Goto, Finish, db, call
    <3>1. CASE pc[w] = "create" /\ ~table /\ table' /\ rows' \in {rows, <<0>>}
      BY ONLY <1>1, <3>1
    <3>2. CASE pc[w] = "insertZero" /\ rows' = Append(rows, 0) /\ UNCHANGED table
      <4>1. table' = table /\ table /\ 0 \notin ToSet(rows)
        BY <2>3, <3>2
      <4> QED
        BY ONLY <3>2, <4>1
    <3> QED
      BY <2>1, <3>1, <3>2
  <2> HIDE DEF InCharge, TypeOK, Locals
  <2> QED
    BY <2>4, <2>5, <2>6
<1> QED
  BY <1>2, <1>3, <1>4, <1>5 DEF Creating

\* The steps with p.mu are of these three kinds.
LEMMA InsideKinds ==
    ASSUME NEW w, Inside(w)
    PROVE  Reading(w) \/ Creating(w) \/ Writing(w)
BY DEF Inside, Reading, Creating, Writing

\* Goroutines that go back to where they do not look at the version table.
LEMMA TableLeft ==
    ASSUME TypeOK, TableSound, NEW S \in SUBSET Workers, UNCHANGED <<table, rows>>,
           \A x \in S : pc'[x] \in {"idle", "mu", "lock", "list", "ensure", "unlock"},
           \A x \in Workers \ S : /\ pc'[x] = pc[x] /\ phase'[x] = phase[x]
                                  /\ done'[x] = done[x] /\ ret'[x] = ret[x]
    PROVE  TableSound'
<1>1. \A x \in Workers : pc'[x] = "insertZero" => x \in Workers \ S
  OBVIOUS
<1>2. \A x \in Workers : InCharge(x)' /\ pc'[x] # "list" => InCharge(x) /\ pc[x] # "list"
  BY DEF InCharge
<1> QED
  BY <1>1, <1>2 DEF TableSound

\* No step breaks it.
LEMMA TableStep ==
    ASSUME TypeOK, Locals, TableSound, [Next]_vars
    PROVE  TableSound'
<1>1. ASSUME NEW w \in Workers, Reading(w) PROVE TableSound'
  <2>1. /\ UNCHANGED <<table, rows>> /\ pc'[w] # "insertZero"
        /\ InCharge(w)' /\ pc'[w] # "list" => \/ InCharge(w) /\ pc[w] # "list"
                                              \/ DisableVersioning \/ table
    BY <1>1, ReadingEffect
  <2>2. /\ phase' = phase
        /\ \A x \in Workers \ {w} : pc'[x] = pc[x] /\ done'[x] = done[x] /\ ret'[x] = ret[x]
    BY <1>1, InsideEffect DEF Inside, Reading
  <2>3. \A x \in Workers \ {w} : InCharge(x)' <=> InCharge(x)
    BY <2>2 DEF InCharge
  <2>4. \A x \in Workers : pc'[x] = "insertZero" => x # w /\ pc[x] = "insertZero"
    BY <2>1, <2>2
  <2>5. ~DisableVersioning => \A x \in Workers : InCharge(x)' /\ pc'[x] # "list" => table'
    BY <2>1, <2>2, <2>3 DEF TableSound
  <2> QED
    BY <2>1, <2>4, <2>5 DEF TableSound
<1>2. ASSUME NEW w \in Workers, Creating(w) PROVE TableSound'
  <2>1. /\ pc[w] \in {"create", "insertZero"} /\ ~InCharge(w)
        /\ InCharge(w)' => pc'[w] = "list"
        /\ pc'[w] = "insertZero" => ~table /\ table' /\ rows' = rows
        /\ \/ UNCHANGED <<table, rows>>
           \/ ~table /\ table' /\ rows' = rows
           \/ /\ 0 \notin ToSet(rows) /\ rows' = Append(rows, 0) /\ table'
              /\ ~table \/ pc[w] = "insertZero"
    BY <1>2, CreatingEffect
  <2>2. /\ phase' = phase
        /\ \A x \in Workers \ {w} : pc'[x] = pc[x] /\ done'[x] = done[x] /\ ret'[x] = ret[x]
    BY <1>2, InsideEffect DEF Inside, Creating
  <2>3. \A x \in Workers \ {w} : InCharge(x)' <=> InCharge(x)
    BY <2>2 DEF InCharge
  <2>4. table => table'
    BY <2>1
  <2>5. ~table' => rows' = <<>>
    BY <2>1 DEF TableSound
  <2>6. ~DisableVersioning => \A x \in Workers : InCharge(x)' /\ pc'[x] # "list" => table'
    BY <2>1, <2>2, <2>3, <2>4 DEF TableSound
  <2>7. CASE pc'[w] = "insertZero"
    <3>1. \A x \in Workers : pc[x] # "insertZero"
      BY <2>1, <2>7 DEF TableSound
    <3>2. \A x \in Workers : pc'[x] = "insertZero" => x = w
      BY <2>2, <3>1
    <3>3. table' /\ 0 \notin ToSet(rows')
      BY <2>1, <2>7 DEF TableSound, ToSet
    <3> QED
      BY <3>2, <3>3, <2>5, <2>6 DEF TableSound
  <2>8. CASE pc'[w] # "insertZero"
    <3>1. \A x \in Workers : pc'[x] = "insertZero" => x # w /\ pc[x] = "insertZero"
      BY <2>2, <2>8
    <3>2. (\E x \in Workers : pc'[x] = "insertZero") => UNCHANGED rows
      BY <3>1, <2>1 DEF TableSound
    <3> QED
      BY <3>1, <3>2, <2>4, <2>5, <2>6 DEF TableSound
  <2> QED
    BY <2>7, <2>8
<1>3. ASSUME NEW w \in Workers, Writing(w) PROVE TableSound'
  <2>1. /\ Planned(w) /\ phase[w] = "run" /\ NextUp(w) \in Versions /\ table' = table
        /\ rows' \in {rows, Recorded(NextUp(w), IsUp(op[w]))} /\ pc'[w] \in {"run", "cleanup"}
    BY <1>3, WritingEffect
  <2>2. InCharge(w) /\ pc[w] # "list"
    BY <2>1 DEF InCharge, Planned
  <2>3. 0 \in ToSet(rows') <=> 0 \in ToSet(rows)
    <3> HIDE DEF NextUp
    <3> QED
      BY <2>1, RecordedElements, IsUpBoolean
  <2>4. ~table' => rows' = <<>>
    <3>1. DisableVersioning => rows' = rows
      BY <2>1 DEF Recorded
    <3> QED
      BY <3>1, <2>1, <2>2 DEF TableSound
  <2>5. /\ phase' = phase
        /\ \A x \in Workers \ {w} : pc'[x] = pc[x] /\ done'[x] = done[x] /\ ret'[x] = ret[x]
    BY <1>3, InsideEffect DEF Inside, Writing
  <2>6. \A x \in Workers \ {w} : InCharge(x)' <=> InCharge(x)
    BY <2>5 DEF InCharge
  <2>7. \A x \in Workers : pc'[x] = "insertZero" => pc[x] = "insertZero"
    BY <2>1, <2>5
  <2>8. ~DisableVersioning => \A x \in Workers : InCharge(x)' /\ pc'[x] # "list" => table'
    BY <2>1, <2>2, <2>5, <2>6 DEF TableSound
  <2> QED
    BY <2>1, <2>3, <2>4, <2>7, <2>8 DEF TableSound
<1>4. ASSUME NEW w \in Workers,
             Call(w) \/ LockMu(w) \/ ConnFails(w) \/ Cleanup(w) \/ ReleaseLock(w)
      PROVE  TableSound'
  <2>1. UNCHANGED <<table, rows>>
    BY <1>4 DEF Call, LockMu, ConnFails, Cleanup, ReleaseLock, db
  <2>2. pc'[w] \in {"idle", "mu", "lock", "list", "ensure", "unlock"}
    BY <1>4 DEF Call, LockMu, ConnFails, Cleanup, ReleaseLock, Goto, Return, AfterLock, TypeOK
  <2>3. \A x \in Workers \ {w} : /\ pc'[x] = pc[x] /\ phase'[x] = phase[x]
                                 /\ done'[x] = done[x] /\ ret'[x] = ret[x]
    BY <1>4 DEF Call, LockMu, ConnFails, Cleanup, ReleaseLock, Goto, Return, call, TypeOK
  <2>4. /\ {w} \in SUBSET Workers
        /\ \A x \in {w} : pc'[x] \in {"idle", "mu", "lock", "list", "ensure", "unlock"}
    BY <2>2
  <2> QED
    BY <2>1, <2>3, <2>4, TableLeft
<1>5. ASSUME NEW p \in Providers, Crash(p) PROVE TableSound'
  <2> DEFINE mine == {w \in Workers : ProviderOf[w] = p}
  <2>1. /\ UNCHANGED <<table, rows>>
        /\ \A x \in mine : pc'[x] = "idle"
        /\ \A x \in Workers \ mine : /\ pc'[x] = pc[x] /\ phase'[x] = phase[x]
                                     /\ done'[x] = done[x] /\ ret'[x] = ret[x]
    BY <1>5 DEF Crash, Return
  <2>2. mine \in SUBSET Workers
    OBVIOUS
  <2> HIDE DEF mine
  <2> QED
    BY <2>1, <2>2, TableLeft
<1>6. CASE UNCHANGED vars
  BY <1>6 DEF vars, db, call, TableSound, InCharge
<1> QED
  BY <1>1, <1>2, <1>3, <1>4, <1>5, <1>6, Cases, InsideKinds

-----------------------------------------------------------------------------
(* All of it together *)

\* What holds in every configuration, and the later proofs start from.
Sound == TypeOK /\ Locals /\ MuDiscipline /\ LockDiscipline /\ TableSound

LEMMA SoundInit == Init => Sound
<1> SUFFICES ASSUME Init PROVE Sound
  OBVIOUS
<1>1. TypeOK /\ Locals
  BY TypeInit
<1>2. MuDiscipline
  BY ProviderAssumption DEF Init, MuDiscipline, MuHeld
<1>3. LockDiscipline
  BY DEF Init, LockDiscipline, InCharge, Fresh
<1>4. TableSound
  BY DEF Init, TableSound, InCharge, Fresh
<1> QED
  BY <1>1, <1>2, <1>3, <1>4 DEF Sound

LEMMA SoundStep == Sound /\ [Next]_vars => Sound'
BY TypeStep, MuStep, LockStep, TableStep DEF Sound

\* In every configuration p.mu is held by at most one goroutine of a Provider,
\* the lock by at most one of all, and never by one that is not between
\* SessionLock (Locker.Lock) and the end of cleanup.
THEOREM SoundCorrect == Spec => []Sound
BY SoundInit, SoundStep, PTL DEF Spec

-----------------------------------------------------------------------------
(* What a step does to one goroutine, and to the database *)

\* The goroutine does not take the step.
Still(w) == /\ pc'[w] = pc[w] /\ plan'[w] = plan[w] /\ done'[w] = done[w]
            /\ op'[w] = op[w] /\ phase'[w] = phase[w] /\ ret'[w] = ret[w]

\* It goes to a place where it has nothing to run and no results.
Leaves(w) == pc'[w] \notin {"prepare", "run", "record", "cleanup"}

\* It begins to clean up; with success only when nothing is left to run.
Ends(w) == /\ pc[w] \in MuHeld \ {"cleanup", "record"} /\ pc'[w] = "cleanup"
           /\ plan'[w] = plan[w] /\ done'[w] = done[w]
           /\ op'[w] = op[w] /\ phase'[w] = phase[w]
           /\ phase[w] = "run" /\ ret'[w] = "ok" => pc[w] = "run" /\ plan[w] = <<>>

\* The steps of runIndividually outside a transaction, before the version row.
Stating(w) == RunStatements(w) \/ RunStatementsFail(w)

LEMMA LocalCases ==
    ASSUME TypeOK, [Next]_vars, NEW w \in Workers
    PROVE  \/ Still(w) \/ Leaves(w) \/ Ends(w) \/ Decide(w) \/ Prepare(w)
           \/ Stating(w) \/ Writing(w)
<1> USE DEF TypeOK, Goto, Finish, db, call, MuHeld
<1>1. CASE UNCHANGED vars
  BY <1>1 DEF vars, Still
<1>2. ASSUME NEW x \in Workers, x # w, Inside(x) PROVE Still(w)
  BY <1>2, InsideEffect DEF Still
<1>3. ASSUME NEW x \in Workers, x # w,
             Call(x) \/ LockMu(x) \/ ConnFails(x) \/ Cleanup(x) \/ ReleaseLock(x)
      PROVE  Still(w)
  <2>1. CASE Cleanup(x)
    <3>1. CASE Goto(x, "unlock") /\ UNCHANGED <<call, ret>>
      BY <1>3, <3>1 DEF Still
    <3>2. CASE /\ Goto(x, "mu")
               /\ phase' = [phase EXCEPT ![x] = "run"]
               /\ ret' = [ret EXCEPT ![x] = "none"]
               /\ UNCHANGED <<op, plan, done, tries>>
      BY <1>3, <3>2 DEF Still
    <3>3. CASE Return({x})
      BY <1>3, <3>3 DEF Still, Return
    <3> QED
      BY <2>1, <3>1, <3>2, <3>3 DEF Cleanup
  <2>2. CASE ReleaseLock(x) \/ ConnFails(x)
    BY <1>3, <2>2 DEF Still, Return, ReleaseLock, ConnFails
  <2>3. CASE Call(x) \/ LockMu(x)
    BY <1>3, <2>3 DEF Still, Call, LockMu
  <2> QED
    BY <1>3, <2>1, <2>2, <2>3
<1>4. CASE Call(w) \/ LockMu(w) \/ ConnFails(w) \/ Cleanup(w) \/ ReleaseLock(w)
  <2>1. pc'[w] \in {"idle", "mu", "lock", "list", "ensure", "unlock"}
    BY <1>4 DEF Call, LockMu, ConnFails, Cleanup, ReleaseLock, Return, AfterLock
  <2> QED
    BY <2>1 DEF Leaves
<1>5. CASE AcquireLock(w)
  BY <1>5 DEF AcquireLock, AfterLock, Leaves
<1>6. CASE LockFails(w) \/ ListFails(w)
  BY <1>6 DEF LockFails, ListFails, Ends
<1>7. CASE CheckTable(w) \/ CreateVersionTable(w) \/ CreateTableOnly(w) \/ InsertZero(w)
  <2>1. pc'[w] \in {"create", "list", "insertZero"}
    BY <1>7 DEF CheckTable, CreateVersionTable, CreateTableOnly, InsertZero
  <2> QED
    BY <2>1 DEF Leaves
<1>8. CASE CheckTableFails(w) \/ CreateFails(w)
  <2>1. /\ pc[w] \in {"ensure", "create", "insertZero"} /\ UNCHANGED <<op, phase, plan, done>>
        /\ \/ pc'[w] \in {"create", "ensure"}
           \/ pc'[w] = "cleanup" /\ ret'[w] = "err"
    BY <1>8 DEF CheckTableFails, CreateFails
  <2> QED
    BY <2>1 DEF Leaves, Ends
<1>9. CASE HasPending(w)
  <2>1. /\ pc[w] = "list" /\ phase[w] = "pending" /\ pc'[w] = "cleanup"
        /\ UNCHANGED <<op, phase, plan, done>>
    BY <1>9 DEF HasPending
  <2> QED
    BY <2>1 DEF Ends
<1>10. CASE RunDone(w)
  <2>1. /\ pc[w] = "run" /\ plan[w] = <<>> /\ pc'[w] = "cleanup"
        /\ UNCHANGED <<op, phase, plan, done>>
    BY <1>10 DEF RunDone
  <2> QED
    BY <2>1 DEF Ends
<1>11. ASSUME NEW p \in Providers, Crash(p) PROVE Still(w) \/ Leaves(w)
  BY <1>11 DEF Crash, Return, Still, Leaves
<1>12. CASE Inside(w)
  BY <1>5, <1>6, <1>7, <1>8, <1>9, <1>10, <1>12 DEF Inside, Stating, Writing
<1> HIDE DEF TypeOK, Goto, Finish, db, call, MuHeld
<1> QED
  BY <1>1, <1>2, <1>3, <1>4, <1>11, <1>12, Cases

LEMMA DatabaseCases ==
    ASSUME TypeOK, Locals, TableSound, [Next]_vars
    PROVE  \/ UNCHANGED <<rows, schema, twice, disturbed>>
           \/ /\ rows' = Append(rows, 0) /\ 0 \notin ToSet(rows)
              /\ UNCHANGED <<schema, twice, disturbed>>
           \/ \E w \in Workers : Stating(w) \/ Writing(w)
           \/ \E p \in Providers : Crash(p)
<1>1. CASE UNCHANGED vars
  BY <1>1 DEF vars, db
<1>2. ASSUME NEW w \in Workers,
             Call(w) \/ LockMu(w) \/ ConnFails(w) \/ Cleanup(w) \/ ReleaseLock(w)
      PROVE  UNCHANGED <<rows, schema, twice, disturbed>>
  BY <1>2 DEF Call, LockMu, ConnFails, Cleanup, ReleaseLock, db
<1>3. ASSUME NEW w \in Workers, Creating(w)
      PROVE  \/ UNCHANGED <<rows, schema, twice, disturbed>>
             \/ /\ rows' = Append(rows, 0) /\ 0 \notin ToSet(rows)
                /\ UNCHANGED <<schema, twice, disturbed>>
  <2>1. UNCHANGED <<schema, twice, disturbed>>
    BY <1>3 DEF Creating, CreateVersionTable, CreateTableOnly, InsertZero, CreateFails
  <2>2. rows' = rows \/ (rows' = Append(rows, 0) /\ 0 \notin ToSet(rows))
    BY <1>3, CreatingEffect
  <2> QED
    BY <2>1, <2>2
<1>4. ASSUME NEW w \in Workers, Reading(w)
      PROVE  UNCHANGED <<rows, schema, twice, disturbed>> \/ Stating(w)
  <2>1. CASE \/ AcquireLock(w) \/ LockFails(w) \/ CheckTable(w) \/ CheckTableFails(w)
             \/ ListFails(w) \/ HasPending(w) \/ Decide(w) \/ Prepare(w) \/ RunDone(w)
    BY <2>1 DEF AcquireLock, LockFails, CheckTable, CheckTableFails, ListFails, HasPending,
                Decide, Prepare, RunDone, db
  <2> QED
    BY <1>4, <2>1 DEF Reading, Stating
<1> QED
  BY <1>1, <1>2, <1>3, <1>4, Cases, InsideKinds

\* What the steps of one goroutine at work do to its locals.
LEMMA WorkEffect ==
    ASSUME TypeOK, Locals, NEW w \in Workers
    PROVE  /\ Decide(w) \/ Prepare(w) \/ Stating(w) \/ Writing(w) =>
                  /\ op' = op /\ phase' = phase /\ phase[w] = "run"
                  /\ \A x \in Workers \ {w} : Still(x)
           /\ Decide(w) => /\ pc[w] = "list" /\ pc'[w] \in {"prepare", "cleanup"}
                           /\ done' = done /\ done[w] = <<>> /\ rows' = rows
           /\ Prepare(w) => /\ pc[w] = "prepare" /\ pc'[w] \in {"run", "cleanup"}
                            /\ plan' = plan /\ done' = done /\ rows' = rows
                            /\ pc'[w] = "run" => ToSet(plan[w]) \cap Broken = {}
                            /\ pc'[w] = "cleanup" => ret'[w] = "err"
           /\ Stating(w) => /\ pc[w] = "run" /\ plan[w] # <<>> /\ ~Atomic(NextUp(w))
                            /\ plan' = plan /\ done' = done /\ rows' = rows
                            /\ RunStatements(w) => pc'[w] = "record"
                            /\ RunStatementsFail(w) => pc'[w] = "cleanup" /\ ret'[w] = "partial"
<1> USE DEF TypeOK, Goto, Finish, db, call
<1>1. Decide(w) => /\ pc[w] = "list" /\ pc'[w] \in {"prepare", "cleanup"} /\ phase[w] = "run"
                   /\ UNCHANGED <<op, phase, done, rows>>
  BY DEF Decide
<1>2. Prepare(w) => /\ pc[w] = "prepare" /\ pc'[w] \in {"run", "cleanup"}
                    /\ pc'[w] = "run" => ToSet(plan[w]) \cap Broken = {}
                    /\ pc'[w] = "cleanup" => ret'[w] = "err"
                    /\ UNCHANGED <<op, phase, plan, done, rows>>
  BY DEF Prepare
<1>3. RunStatements(w) => /\ pc[w] = "run" /\ plan[w] # <<>> /\ ~Atomic(NextUp(w))
                          /\ pc'[w] = "record"
                          /\ UNCHANGED <<op, phase, plan, done, rows>>
  BY DEF RunStatements
<1>4. RunStatementsFail(w) => /\ pc[w] = "run" /\ plan[w] # <<>> /\ ~Atomic(NextUp(w))
                              /\ pc'[w] = "cleanup" /\ ret'[w] = "partial"
                              /\ UNCHANGED <<op, phase, plan, done, rows>>
  BY DEF RunStatementsFail
<1>5. Planned(w) \/ pc[w] = "list" => /\ phase[w] = "pending" => ~Planned(w)
                                      /\ pc[w] = "list" => done[w] = <<>>
  BY DEF Locals, Planned
<1>6. Inside(w) => /\ op' = op /\ phase' = phase
                   /\ \A x \in Workers \ {w} : Still(x)
  BY InsideEffect DEF Still
<1>7. phase[w] # "pending" => phase[w] = "run"
  OBVIOUS
<1>8. Decide(w) \/ Prepare(w) \/ Stating(w) \/ Writing(w) => Inside(w)
  BY DEF Stating, Writing, Inside
<1>9. Prepare(w) \/ Stating(w) \/ Writing(w) => phase[w] = "run"
  BY <1>2, <1>3, <1>4, <1>5, <1>7, WritingEffect DEF Stating, Planned
<1> HIDE DEF TypeOK, Goto, Finish, db, call
<1> QED
  BY <1>1, <1>2, <1>3, <1>4, <1>5, <1>6, <1>8, <1>9 DEF Stating

-----------------------------------------------------------------------------
(* Broken migrations *)

\* Nothing that has run or is going to run is broken, once all is prepared.
Unbroken ==
    \A w \in Workers : pc[w] \in {"run", "record"} =>
        ToSet(plan[w]) \cap Broken = {} /\ ToSet(done[w]) \cap Broken = {}

LEMMA UnbrokenStep ==
    ASSUME Sound, Unbroken, [Next]_vars
    PROVE  Unbroken'
<1> SUFFICES ASSUME NEW w \in Workers, pc'[w] \in {"run", "record"}
             PROVE  ToSet(plan'[w]) \cap Broken = {} /\ ToSet(done'[w]) \cap Broken = {}
  BY DEF Unbroken
<1> USE DEF Sound
<1>1. CASE Still(w)
  BY <1>1 DEF Still, Unbroken
<1>2. CASE Leaves(w) \/ Ends(w) \/ Decide(w)
  BY <1>2, WorkEffect DEF Leaves, Ends
<1>3. CASE Prepare(w)
  <2>1. done[w] = <<>>
    BY <1>3, WorkEffect DEF Locals
  <2> QED
    BY <1>3, <2>1, WorkEffect DEF ToSet
<1>4. CASE Stating(w)
  BY <1>4, WorkEffect DEF Unbroken
<1>5. CASE Writing(w)
  <2>1. /\ plan[w] # <<>> /\ Planned(w) /\ pc[w] # "prepare"
        /\ plan'[w] = Tail(plan[w]) /\ done'[w] = Append(done[w], NextUp(w))
    BY <1>5, WritingEffect DEF Writing, RunTx, RunTxFails, Record, RecordFails
  <2>2. plan[w] \in Seq(Versions) /\ done[w] \in Seq(Versions) /\ NextUp(w) \in Versions
    BY <2>1, NextUpTyped DEF TypeOK
  <2>3. /\ ToSet(plan[w]) = {NextUp(w)} \cup ToSet(plan'[w])
        /\ ToSet(done'[w]) = ToSet(done[w]) \cup {NextUp(w)}
    BY <2>1, <2>2, ElementsTail, ElementsAppend DEF NextUp
  <2>4. ToSet(plan[w]) \cap Broken = {} /\ ToSet(done[w]) \cap Broken = {}
    BY <2>1 DEF Unbroken, Planned
  <2> QED
    BY <2>3, <2>4
<1> QED
  BY <1>1, <1>2, <1>3, <1>4, <1>5, LocalCases

\* A migration that cannot be prepared keeps every migration of its call from
\* being run, in every configuration (runMigrations prepares all of them before
\* the first).
THEOREM BrokenBlocksAllCorrect == Spec => []BrokenBlocksAll
<1>1. Init => Unbroken
  BY DEF Init, Unbroken
<1>2. Sound /\ Unbroken => BrokenBlocksAll
  <2> SUFFICES ASSUME Sound, Unbroken, NEW w \in Workers, pc[w] \in {"run", "record"}
               PROVE  ToSet(plan[w] \o done[w]) \cap Broken = {}
    BY DEF BrokenBlocksAll
  <2>1. plan[w] \in Seq(Versions) /\ done[w] \in Seq(Versions)
    BY DEF Sound, TypeOK
  <2>2. ToSet(plan[w] \o done[w]) = ToSet(plan[w]) \cup ToSet(done[w])
    <3>1. \A s : ToSet(s) = Range(s)
      BY DEF ToSet, Range
    <3>2. Range(plan[w] \o done[w]) = Range(plan[w]) \cup Range(done[w])
      BY <2>1, RangeConcatenation
    <3> QED
      BY <3>1, <3>2
  <2> QED
    BY <2>2 DEF Unbroken
<1> QED
  BY <1>1, <1>2, SoundInit, SoundStep, UnbrokenStep, PTL DEF Spec

-----------------------------------------------------------------------------
(* The zero version *)

\* The database creates the version table together with its zero version.
Together == ~IsolateDDL /\ TransactionalDDL

\* A Provider that has found or made the table has it with a zero version, and
\* who is past initialize has tried; the table and its zero version appear
\* together if the database can do that.
Bootstrapped ==
    /\ Together /\ table => 0 \in ToSet(rows)
    /\ Together => \A w \in Workers : pc[w] # "insertZero"
    /\ \A p \in Providers : once[p] = "ok" => table /\ 0 \in ToSet(rows)
    /\ \A w \in Workers : Working(w) => once[ProviderOf[w]] # "unused"

\* Table and zero version stay, once they are there, and the table appears in
\* the steps that create it only.
LEMMA ZeroStays ==
    ASSUME Sound, [Next]_vars
    PROVE  /\ table => table'
           /\ 0 \in ToSet(rows) => 0 \in ToSet(rows')
           /\ table' /\ ~table => \E w \in Workers : Creating(w)
<1> USE DEF Sound
<1>1. ASSUME NEW w \in Workers, Writing(w)
      PROVE  table' = table /\ (0 \in ToSet(rows) => 0 \in ToSet(rows'))
  BY <1>1, WritingEffect, RecordedElements, IsUpBoolean
<1>2. ASSUME NEW w \in Workers, Creating(w)
      PROVE  (table => table') /\ (0 \in ToSet(rows) => 0 \in ToSet(rows'))
  BY <1>2, CreatingEffect
<1>3. ASSUME NEW w \in Workers, Reading(w) PROVE UNCHANGED <<table, rows>>
  BY <1>3, ReadingEffect
<1>4. ASSUME NEW w \in Workers,
             Call(w) \/ LockMu(w) \/ ConnFails(w) \/ Cleanup(w) \/ ReleaseLock(w)
      PROVE  UNCHANGED <<table, rows>>
  BY <1>4 DEF Call, LockMu, ConnFails, Cleanup, ReleaseLock, db
<1>5. ASSUME NEW p \in Providers, Crash(p) PROVE UNCHANGED <<table, rows>>
  BY <1>5 DEF Crash
<1>6. CASE UNCHANGED vars
  BY <1>6 DEF vars, db
<1> QED
  BY <1>1, <1>2, <1>3, <1>4, <1>5, <1>6, Cases, InsideKinds

\* The sync.Once of a Provider is used successfully in three kinds of steps,
\* and unused again in a new process only.
LEMMA OnceEffect ==
    ASSUME TypeOK, [Next]_vars, NEW p \in Providers
    PROVE  /\ once'[p] = "unused" => once[p] = "unused" \/ Crash(p)
           /\ once'[p] = "ok" => \/ once[p] = "ok"
                                 \/ \E w \in Workers : \/ CheckTable(w) /\ TableFound
                                                       \/ CreateVersionTable(w)
                                                       \/ InsertZero(w)
<1> USE ProviderAssumption DEF TypeOK, db, call, UseOnce
<1>1. ASSUME NEW w \in Workers, CheckTable(w)
      PROVE  /\ once'[p] = "unused" => once[p] = "unused"
             /\ once'[p] = "ok" => once[p] = "ok" \/ TableFound
  BY <1>1 DEF CheckTable
<1>2. ASSUME NEW w \in Workers, CheckTableFails(w) \/ CreateFails(w)
      PROVE  once'[p] \in {once[p], "err"}
  <2>1. once' = once \/ once' = [once EXCEPT ![ProviderOf[w]] = "err"]
    BY <1>2 DEF CheckTableFails, CreateFails
  <2> QED
    BY <2>1
<1>3. ASSUME NEW w \in Workers, CreateVersionTable(w) \/ InsertZero(w)
      PROVE  once'[p] \in {once[p], "ok"}
  BY <1>3 DEF CreateVersionTable, InsertZero
<1>4. ASSUME NEW w \in Workers,
             \/ Call(w) \/ LockMu(w) \/ ConnFails(w) \/ AcquireLock(w) \/ LockFails(w)
             \/ CreateTableOnly(w) \/ ListFails(w) \/ HasPending(w) \/ Decide(w) \/ Prepare(w)
      PROVE  once' = once
  BY <1>4 DEF Call, LockMu, ConnFails, AcquireLock, LockFails, CreateTableOnly, ListFails,
              HasPending, Decide, Prepare
<1>5. ASSUME NEW w \in Workers,
             \/ Stating(w) \/ Writing(w) \/ RunDone(w) \/ Cleanup(w) \/ ReleaseLock(w)
      PROVE  once' = once
  BY <1>5 DEF Stating, RunStatements, RunStatementsFail, Writing, RunTx, RunTxFails, Record,
              RecordFails, RunDone, Cleanup, ReleaseLock
<1>6. ASSUME NEW q \in Providers, Crash(q), q # p PROVE once'[p] = once[p]
  BY <1>6 DEF Crash
<1>7. ASSUME Crash(p) PROVE once'[p] = "unused"
  BY <1>7 DEF Crash
<1>8. CASE UNCHANGED vars
  BY <1>8 DEF vars
<1> HIDE DEF TypeOK, db, call, UseOnce
<1> QED
  BY <1>1, <1>2, <1>3, <1>4, <1>5, <1>6, <1>7, <1>8, Cases DEF Inside, Stating, Writing

\* Nobody gets past initialize before the sync.Once of its Provider is used.
LEMMA ListEntered ==
    ASSUME Sound, [Next]_vars, NEW w \in Workers, Working(w)', ~DisableVersioning
    PROVE  \/ Working(w) /\ ~Crash(ProviderOf[w])
           \/ once'[ProviderOf[w]] # "unused"
<1> USE ProviderAssumption DEF Sound
<1>1. CASE pc[w] = pc'[w] \/ Working(w)
  <2>1. ~Crash(ProviderOf[w])
    BY DEF Crash, Return, Working
  <2> QED
    BY <1>1, <2>1 DEF Working
<1>2. CASE LockMu(w) \/ AcquireLock(w)
  <2>1. pc'[w] \in {"lock", AfterLock(w)} /\ once' = once
    BY <1>2 DEF LockMu, AcquireLock, Goto, TypeOK
  <2> QED
    BY <2>1 DEF AfterLock, Working
<1>3. CASE CheckTable(w) \/ CreateVersionTable(w) \/ InsertZero(w)
  <2>1. pc'[w] = "list" => once'[ProviderOf[w]] = "ok"
    BY <1>3 DEF CheckTable, CreateVersionTable, InsertZero, UseOnce, Goto, TypeOK
  <2>2. pc'[w] \in {"list", "create"}
    BY <1>3 DEF CheckTable, CreateVersionTable, InsertZero, Goto, TypeOK
  <2> QED
    BY <2>1, <2>2 DEF Working
<1>4. CASE CheckTableFails(w) \/ CreateFails(w) \/ CreateTableOnly(w)
  <2>1. pc'[w] \in {"create", "ensure", "cleanup", "insertZero"}
    BY <1>4 DEF CheckTableFails, CreateFails, CreateTableOnly, Finish, Goto, TypeOK
  <2> QED
    BY <2>1 DEF Working
<1>5. CASE Call(w) \/ ConnFails(w) \/ Cleanup(w) \/ ReleaseLock(w) \/ LockFails(w)
  <2>1. pc'[w] \in {"mu", "idle", "unlock", "cleanup"}
    BY <1>5 DEF Call, ConnFails, Cleanup, ReleaseLock, LockFails, Finish, Goto, Return, TypeOK
  <2> QED
    BY <2>1 DEF Working
<1>6. CASE \/ ListFails(w) \/ HasPending(w) \/ Decide(w) \/ Prepare(w)
           \/ Stating(w) \/ Writing(w) \/ RunDone(w)
  <2>1. Working(w)
    BY <1>6, WritingEffect, WorkEffect DEF ListFails, HasPending, RunDone, Working, Planned
  <2> QED
    BY <2>1, <1>1
<1>7. ASSUME NEW x \in Workers \ {w},
             Call(x) \/ LockMu(x) \/ ConnFails(x) \/ Cleanup(x) \/ ReleaseLock(x) \/ Inside(x)
      PROVE  pc'[w] = pc[w]
  <2>1. CASE Inside(x)
    BY <2>1, InsideEffect
  <2>2. CASE Call(x) \/ LockMu(x) \/ ConnFails(x) \/ Cleanup(x) \/ ReleaseLock(x)
    BY <2>2 DEF Call, LockMu, ConnFails, Cleanup, ReleaseLock, Goto, Return, TypeOK
  <2> QED
    BY <1>7, <2>1, <2>2
<1>8. ASSUME NEW p \in Providers, Crash(p) PROVE pc'[w] \in {pc[w], "idle"}
  BY <1>8 DEF Crash, Return
<1>9. CASE UNCHANGED vars
  BY <1>9, <1>1 DEF vars
<1>10. Working(w)' => pc'[w] # "idle"
  BY DEF Working
<1> HIDE DEF Sound
<1> QED
  BY <1>1, <1>2, <1>3, <1>4, <1>5, <1>6, <1>7, <1>8, <1>9, <1>10, Cases
     DEF Inside, Stating, Writing

\* The zero version is inserted on its own after CREATE TABLE on its own.
LEMMA InsertZeroEntered ==
    ASSUME Sound, [Next]_vars, NEW w \in Workers, pc'[w] = "insertZero"
    PROVE  pc[w] = "insertZero" \/ CreateTableOnly(w)
<1>1. CASE UNCHANGED vars
  BY <1>1 DEF vars
<1>2. CASE Writing(w)
  BY <1>2, WritingEffect DEF Sound
<1>3. ASSUME NEW x \in Workers, x # w, Inside(x) PROVE pc'[w] = pc[w]
  BY <1>3, InsideEffect DEF Sound
<1>4. ASSUME NEW x \in Workers,
             Call(x) \/ LockMu(x) \/ ConnFails(x) \/ Cleanup(x) \/ ReleaseLock(x)
      PROVE  pc'[w] = pc[w]
  BY <1>4 DEF Call, LockMu, ConnFails, Cleanup, ReleaseLock, Goto, Return, AfterLock,
              Sound, TypeOK
<1>5. CASE Reading(w)
  BY <1>5, ReadingEffect DEF Sound
<1>6. CASE CreateVersionTable(w) \/ InsertZero(w) \/ CreateFails(w)
  BY <1>6 DEF CreateVersionTable, InsertZero, CreateFails, Goto, Finish, Sound, TypeOK
<1>7. ASSUME NEW p \in Providers, Crash(p) PROVE pc'[w] = pc[w]
  BY <1>7 DEF Crash, Return
<1> QED
  BY <1>1, <1>2, <1>3, <1>4, <1>5, <1>6, <1>7, Cases, InsideKinds DEF Creating

\* The rows with the zero version.
LEMMA ZeroAppended ==
    ASSUME TypeOK
    PROVE  /\ ToSet(Append(rows, 0)) = ToSet(rows) \cup {0}
           /\ IsInjective(rows) /\ 0 \notin ToSet(rows) => IsInjective(Append(rows, 0))
<1>1. rows \in Seq(Versions \cup {0}) /\ 0 \in Versions \cup {0}
  BY DEF TypeOK
<1> QED
  BY <1>1, ElementsAppend

LEMMA BootstrappedStep ==
    ASSUME Sound, Bootstrapped, [Next]_vars, ~DisableVersioning,
           TableExistsSupported => Together
    PROVE  Bootstrapped'
<1> USE ProviderAssumption
<1>1. ASSUME NEW w \in Workers, CreateVersionTable(w)
      PROVE  table' /\ 0 \in ToSet(rows')
  BY <1>1 DEF CreateVersionTable, ToSet
<1>2. ASSUME NEW w \in Workers, InsertZero(w)
      PROVE  table' /\ 0 \in ToSet(rows')
  <2>1. rows' = Append(rows, 0) /\ table' = table /\ table
    BY <1>2 DEF InsertZero, Sound, TableSound
  <2> QED
    BY <2>1, ZeroAppended DEF Sound
<1>3. ASSUME Together, table' PROVE 0 \in ToSet(rows')
  <2>1. CASE table
    BY <1>3, <2>1, ZeroStays DEF Bootstrapped
  <2>2. CASE ~table
    <3>1. PICK w \in Workers : Creating(w)
      BY <1>3, <2>2, ZeroStays
    <3>2. ~CreateTableOnly(w)
      BY <1>3 DEF CreateTableOnly, Together
    <3>3. CASE CreateFails(w)
      <4>1. rows' = <<0>>
        BY <1>3, <2>2, <3>3 DEF CreateFails, Together, Bootstrapped
      <4> QED
        BY <4>1 DEF ToSet
    <3> QED
      BY <1>1, <1>2, <3>1, <3>2, <3>3 DEF Creating
  <2> QED
    BY <2>1, <2>2
<1>4. ASSUME Together, NEW w \in Workers PROVE pc'[w] # "insertZero"
  BY <1>4, InsertZeroEntered DEF CreateTableOnly, Together, Bootstrapped
<1>5. ASSUME NEW p \in Providers, once'[p] = "ok" PROVE table' /\ 0 \in ToSet(rows')
  <2>1. CASE once[p] = "ok"
    BY <2>1, ZeroStays DEF Bootstrapped
  <2>2. CASE TableFound
    <3>1. table /\ 0 \in ToSet(rows)
      BY <2>2 DEF TableFound, Bootstrapped
    <3> QED
      BY <3>1, ZeroStays
  <2> QED
    BY <1>1, <1>2, <1>5, <2>1, <2>2, OnceEffect DEF Sound
<1>6. ASSUME NEW w \in Workers, Working(w)' PROVE once'[ProviderOf[w]] # "unused"
  <2>1. ProviderOf[w] \in Providers
    OBVIOUS
  <2> QED
    BY <1>6, <2>1, ListEntered, OnceEffect DEF Sound, Bootstrapped
<1> QED
  BY <1>3, <1>4, <1>5, <1>6 DEF Bootstrapped

\* Whoever is past initialize finds a version table with a zero version,
\* unless the one attempt of its Provider had failed, provided that a dialect
\* that answers TableExists creates the two together.
THEOREM EnsuredMeansUsableCorrect ==
    ASSUME TableExistsSupported => Together
    PROVE  Spec => []EnsuredMeansUsable
<1>1. CASE DisableVersioning
  <2>1. EnsuredMeansUsable
    BY <1>1 DEF EnsuredMeansUsable
  <2> QED
    BY <2>1, PTL
<1>2. CASE ~DisableVersioning
  <2>1. Init => Bootstrapped
    BY ProviderAssumption DEF Init, Bootstrapped, Working
  <2>2. Sound /\ Bootstrapped => EnsuredMeansUsable
    BY ProviderAssumption DEF Sound, TypeOK, Bootstrapped, EnsuredMeansUsable
  <2>3. Sound /\ Bootstrapped /\ [Next]_vars => Bootstrapped'
    BY <1>2, BootstrappedStep
  <2> QED
    BY <2>1, <2>2, <2>3, SoundInit, SoundStep, PTL DEF Spec
<1> QED
  BY <1>1, <1>2

-----------------------------------------------------------------------------
(* What a call decides to run, from the rows of the version table *)

\* The rows are versions of at most MaxVersion; the zero version is none.
LEMMA RowsFacts ==
    ASSUME TypeOK, NEW w \in Workers
    PROVE  /\ rows \in Seq(0..MaxVersion) /\ rows \in Seq(Versions \cup {0})
           /\ Known(w) \in SUBSET (1..MaxVersion) /\ Known(w) \subseteq Versions
           /\ ToSet(rows) \subseteq Versions \cup {0} /\ Applied \subseteq Versions
           /\ \A v \in Versions : v \in Applied <=> v \in ToSet(rows)
<1>1. Versions \cup {0} \subseteq 0..MaxVersion
  BY VersionFacts, ProviderAssumption
<1>2. rows \in Seq(0..MaxVersion) /\ rows \in Seq(Versions \cup {0})
  BY <1>1, SeqMonotonic DEF TypeOK
<1>3. ToSet(rows) \subseteq Versions \cup {0}
  BY <1>2, ElementsTyped
<1> QED
  BY <1>2, <1>3, VersionFacts DEF Applied

\* Up, UpByOne and UpTo.
LEMMA ResolvedUp ==
    ASSUME Sound, ~DisableVersioning, NEW w \in Workers, pc[w] = "list",
           op[w].kind \in UpKinds, ~Resolved(w).err
    PROVE  LET vs == Resolved(w).versions
           IN  /\ rows # <<>> /\ vs \in Seq(Versions) /\ IsInjective(vs)
               /\ \A v : v \in ToSet(vs) <=> /\ v \in Known(w) /\ v \notin ToSet(rows)
                                             /\ v <= Target(op[w])
               /\ \A i, j \in 1..Len(vs) : i < j => vs[i] < vs[j]
               /\ ~AllowMissing => \A v \in ToSet(vs), r \in ToSet(rows) : r <= v
<1> USE DEF Sound
<1>1. Target(op[w]) \in Nat
  BY OpFacts DEF Locals, UpKinds, Unlocked
<1>2. Resolved(w) = up(w)
  BY DEF Resolved, UpKinds
<1>3. rows # <<>>
  BY <1>2 DEF up, Failed, Outcome
<1>4. Resolved(w) = UpVersions(Known(w), rows, Target(op[w]), AllowMissing)
  BY <1>2, <1>3 DEF up
<1>5. AllowMissing \in BOOLEAN /\ MaxVersion \in Nat
  BY ProviderAssumption
<1> HIDE DEF Sound
<1>6. /\ rows \in Seq(0..MaxVersion) /\ Known(w) \in SUBSET (1..MaxVersion)
      /\ Known(w) \subseteq Versions
  BY RowsFacts DEF Sound
<1>7. LET vs == Resolved(w).versions
      IN  /\ vs \in Seq(Known(w)) /\ IsInjective(vs)
          /\ \A v : v \in ToSet(vs) <=> /\ v \in Known(w) /\ v \notin ToSet(rows)
                                        /\ v <= Target(op[w])
          /\ \A i, j \in 1..Len(vs) : i < j => vs[i] < vs[j]
          /\ ~AllowMissing => \A v \in ToSet(vs), r \in ToSet(rows) : r <= v
  <2> DEFINE t == Target(op[w])
             F == Known(w)
             r == Resolved(w)
  <2>1. /\ t \in Nat /\ F \in SUBSET (1..MaxVersion) /\ r = UpVersions(F, rows, t, AllowMissing)
        /\ ~r.err
    BY <1>1, <1>4, <1>6
  <2> HIDE DEF t, F, r
  <2>2. LET vs == r.versions
        IN  /\ vs \in Seq(F) /\ IsInjective(vs)
            /\ \A v : v \in ToSet(vs) <=> v \in F /\ v \notin ToSet(rows) /\ v <= t
            /\ \A i, j \in 1..Len(vs) : i < j => vs[i] < vs[j]
            /\ ~AllowMissing => \A v \in ToSet(vs), x \in ToSet(rows) : x <= v
    BY ZenonT(60), <1>5, <1>6, <2>1, UpVersionsProperties
  <2> QED
    BY <2>2 DEF t, F, r
<1> QED
  BY <1>3, <1>6, <1>7, SeqMonotonic

\* Down and DownTo.
LEMMA ResolvedDown ==
    ASSUME Sound, ~DisableVersioning, NEW w \in Workers, pc[w] = "list",
           op[w].kind \in {"down", "downTo"}, ~Resolved(w).err
    PROVE  LET vs == Resolved(w).versions
           IN  /\ rows # <<>> /\ vs \in Seq(Versions)
               /\ \A v \in ToSet(vs) : v \in ToSet(rows) /\ v > Target(op[w])
               /\ IsInjective(rows) => IsInjective(vs)
               /\ (\A i, j \in 1..Len(rows) : i < j => rows[i] <= rows[j]) =>
                      \A v \in ToSet(rows) : v > Target(op[w]) => v \in ToSet(vs)
<1> USE DEF Sound
<1>1. Target(op[w]) \in Nat
  BY OpFacts DEF Locals, Unlocked
<1>2. Resolved(w) = down(w)
  BY DEF Resolved, UpKinds
<1>3. rows # <<>>
  BY <1>2 DEF down, Failed, Outcome
<1>4. Resolved(w) = DownVersions(Known(w), rows, Target(op[w]))
  BY <1>2, <1>3 DEF down
<1>5. MaxVersion \in Nat
  BY ProviderAssumption
<1> HIDE DEF Sound
<1>6. /\ rows \in Seq(0..MaxVersion) /\ Known(w) \in SUBSET (1..MaxVersion)
      /\ Known(w) \subseteq Versions
  BY RowsFacts DEF Sound
<1>7. LET vs == Resolved(w).versions
      IN  /\ vs \in Seq(Known(w))
          /\ \A v \in ToSet(vs) : v \in ToSet(rows) /\ v > Target(op[w])
          /\ IsInjective(rows) => IsInjective(vs)
          /\ (\A i, j \in 1..Len(rows) : i < j => rows[i] <= rows[j]) =>
                 \A v \in ToSet(rows) : v > Target(op[w]) => v \in ToSet(vs)
  <2>1. ~DownVersions(Known(w), rows, Target(op[w])).err
    BY <1>4
  <2> QED
    BY ZenonT(60), <1>1, <1>3, <1>4, <1>5, <1>6, <2>1, DownVersionsProperties
<1> QED
  BY <1>3, <1>6, <1>7, SeqMonotonic

\* ApplyVersion.
LEMMA ResolvedApply ==
    ASSUME Sound, ~DisableVersioning, NEW w \in Workers, pc[w] = "list",
           op[w].kind = "apply", ~Resolved(w).err
    PROVE  /\ Resolved(w).versions = <<op[w].version>> /\ op[w].version \in Versions
           /\ (op[w].version \in ToSet(rows)) = ~op[w].up /\ op[w].up \in BOOLEAN
<1>1. op[w] \in Ops /\ op[w].version \in Known(w)
  BY DEF Sound, Locals
<1>2. Resolved(w) = apply(w)
  BY DEF Resolved, UpKinds
<1>3. op[w].up # (op[w].version \in ToSet(rows)) /\ apply(w).versions = <<op[w].version>>
  BY <1>2 DEF apply, Failed, Outcome
<1>4. op[w].up \in BOOLEAN /\ op[w].version \in Versions
  BY <1>1, OpFacts, VersionFacts
<1> QED
  BY <1>2, <1>3, <1>4

\* Whatever the call, it decides on distinct versions that are not applied if
\* it goes up, and applied if it goes down.
LEMMA ResolvedSound ==
    ASSUME Sound, ~DisableVersioning, IsInjective(rows), NEW w \in Workers,
           pc[w] = "list", phase[w] = "run", ~Resolved(w).err
    PROVE  LET vs == Resolved(w).versions
           IN  /\ vs \in Seq(Versions) /\ IsInjective(vs)
               /\ \A v \in ToSet(vs) : (v \in Applied) = ~IsUp(op[w])
<1> DEFINE vs == Resolved(w).versions
<1>1. op[w].kind \in UpKinds \cup {"down", "downTo", "apply", "status", "getDBVersion"}
  BY OpFacts DEF Sound, Locals, UpKinds, Unlocked
<1>2. \A v \in Versions : v \in Applied <=> v \in ToSet(rows)
  BY RowsFacts DEF Sound
<1>3. CASE op[w].kind \in UpKinds
  <2>1. IsUp(op[w])
    BY <1>3 DEF IsUp
  <2>2. /\ vs \in Seq(Versions) /\ IsInjective(vs)
        /\ \A v \in ToSet(vs) : v \in Known(w) /\ v \notin ToSet(rows)
    BY <1>3, ResolvedUp
  <2>3. \A v \in ToSet(vs) : v \in Versions /\ v \notin Applied
    BY <2>2, <1>2, VersionFacts
  <2> QED
    BY <2>1, <2>2, <2>3
<1>4. CASE op[w].kind \in {"down", "downTo"}
  <2>1. ~IsUp(op[w])
    BY <1>4 DEF IsUp, UpKinds
  <2>2. /\ vs \in Seq(Versions) /\ IsInjective(vs)
        /\ \A v \in ToSet(vs) : v \in ToSet(rows)
    BY <1>4, ResolvedDown
  <2>3. ToSet(vs) \subseteq Versions
    BY <2>2, ElementsTyped
  <2> QED
    BY <2>1, <2>2, <2>3, <1>2
<1>5. CASE op[w].kind = "apply"
  <2> DEFINE u == op[w].version
  <2>1. IsUp(op[w]) = op[w].up
    BY <1>5, ResolvedApply DEF IsUp, UpKinds
  <2>2. vs = <<u>> /\ u \in Versions /\ (u \in ToSet(rows)) = ~op[w].up
    BY <1>5, ResolvedApply
  <2>3. vs \in Seq(Versions) /\ IsInjective(vs) /\ ToSet(vs) = {u}
    BY <2>2 DEF IsInjective, ToSet
  <2> QED
    BY <2>1, <2>2, <2>3, <1>2
<1>6. CASE op[w].kind \in {"status", "getDBVersion"}
  <2>1. vs = <<>>
    BY <1>6 DEF Resolved, UpKinds, Outcome
  <2> QED
    BY <2>1 DEF IsInjective, ToSet
<1> QED
  BY <1>1, <1>3, <1>4, <1>5, <1>6

-----------------------------------------------------------------------------
(* Plans and results *)

\* Who has decided what to run is alone: nobody else is about to run
\* something, or has results to return.
LEMMA Alone ==
    ASSUME Serial, Sound, NEW w \in Workers, InCharge(w)
    PROVE  /\ \A x \in Workers \ {w} : ~InCharge(x) /\ ~Planned(x)
           /\ \A x \in Workers \ {w} : pc[x] = "cleanup" => done[x] = <<>>
<1>1. \A x \in Workers \ {w} : ~InCharge(x)
  BY Exclusion DEF Sound
<1>2. \A x \in Workers : Planned(x) \/ done[x] # <<>> => phase[x] = "run"
  BY DEF Sound, TypeOK, Locals
<1> QED
  BY <1>1, <1>2 DEF InCharge, Planned

\* A list of versions to run fits the version table: each is listed once, and
\* has been applied if the call goes down, and has not if it goes up.
Fits(w) == /\ IsInjective(plan[w])
           /\ ToSet(plan[w]) \cap ToSet(done[w]) = {}
           /\ \A v \in ToSet(plan[w]) : (v \in Applied) = ~IsUp(op[w])

\* What has run is applied if the call goes up, and not if it goes down.
Holds(w) == \A v \in ToSet(done[w]) : (v \in Applied) = IsUp(op[w])

\* No version is recorded twice, every plan still fits the version table that
\* it was made from, and every result holds.
PlansHold ==
    /\ IsInjective(rows)
    /\ \A w \in Workers : /\ Planned(w) => Fits(w)
                          /\ Planned(w) \/ pc[w] = "cleanup" => Holds(w)

\* The rows after a version row was written or deleted.
LEMMA RowsChanged ==
    ASSUME Sound, ~DisableVersioning, NEW w \in Workers, plan[w] # <<>>,
           rows' = Recorded(NextUp(w), IsUp(op[w]))
    PROVE  /\ NextUp(w) \in Versions
           /\ Applied' = IF IsUp(op[w]) THEN Applied \cup {NextUp(w)}
                         ELSE Applied \ {NextUp(w)}
           /\ Fits(w) /\ IsInjective(rows) => IsInjective(rows')
<1> DEFINE v == NextUp(w)
           u == IsUp(op[w])
<1>1. /\ v \in Versions /\ v # 0 /\ v \in ToSet(plan[w]) /\ u \in BOOLEAN
      /\ rows \in Seq(Versions \cup {0})
  BY NextUpTyped, IsUpBoolean, VersionFacts, ElementsTyped DEF Sound, TypeOK, NextUp
<1>2. rows' = IF u THEN Append(rows, v) ELSE Without(rows, v)
  BY ProviderAssumption DEF Recorded
<1>3. Fits(w) => (v \in ToSet(rows)) = ~u
  BY <1>1 DEF Fits, Applied
<1> HIDE DEF v, u
<1>4. ToSet(rows') = IF u THEN ToSet(rows) \cup {v} ELSE ToSet(rows) \ {v}
  <2>1. v \in Versions \cup {0}
    BY <1>1
  <2>2. ToSet(Append(rows, v)) = ToSet(rows) \cup {v}
    BY <1>1, <2>1, ElementsAppend
  <2>3. ToSet(Without(rows, v)) = ToSet(rows) \ {v}
    BY <1>1, WithoutProperties
  <2> QED
    BY <1>1, <1>2, <2>2, <2>3
<1>5. Applied' = IF u THEN Applied \cup {v} ELSE Applied \ {v}
  BY <1>1, <1>4 DEF Applied
<1>6. Fits(w) /\ IsInjective(rows) => IsInjective(rows')
  BY <1>1, <1>2, <1>3, ElementsAppend, WithoutProperties
<1> QED
  BY <1>1, <1>5, <1>6 DEF v, u

\* The list after its first version was run.
LEMMA PlanShorter ==
    ASSUME Sound, NEW w \in Workers, plan[w] # <<>>, Fits(w)
    PROVE  /\ NextUp(w) \in ToSet(plan[w]) /\ NextUp(w) \notin ToSet(done[w])
           /\ NextUp(w) \notin ToSet(Tail(plan[w])) /\ IsInjective(Tail(plan[w]))
           /\ ToSet(plan[w]) = {NextUp(w)} \cup ToSet(Tail(plan[w]))
           /\ ToSet(Append(done[w], NextUp(w))) = ToSet(done[w]) \cup {NextUp(w)}
<1>1. plan[w] \in Seq(Versions) /\ done[w] \in Seq(Versions) /\ NextUp(w) \in Versions
  BY NextUpTyped DEF Sound, TypeOK
<1>2. IsInjective(plan[w])
  BY DEF Fits
<1>3. /\ NextUp(w) \notin ToSet(Tail(plan[w])) /\ IsInjective(Tail(plan[w]))
      /\ ToSet(plan[w]) = {NextUp(w)} \cup ToSet(Tail(plan[w]))
  BY <1>1, <1>2, ElementsTail DEF NextUp
<1>4. ToSet(Append(done[w], NextUp(w))) = ToSet(done[w]) \cup {NextUp(w)}
  BY <1>1, ElementsAppend
<1> QED
  BY <1>3, <1>4 DEF Fits

\* The list as it is decided on.
LEMMA PlanDecided ==
    ASSUME Sound, ~DisableVersioning, IsInjective(rows), NEW w \in Workers, Decide(w),
           pc'[w] = "prepare"
    PROVE  /\ ~Resolved(w).err /\ Resolved(w).versions # <<>>
           /\ plan'[w] \in Seq(Versions) /\ IsInjective(plan'[w]) /\ plan'[w] # <<>>
           /\ ToSet(plan'[w]) \subseteq ToSet(Resolved(w).versions)
           /\ ~ByOne(op[w]) => plan'[w] = Resolved(w).versions
           /\ ByOne(op[w]) => plan'[w] = <<Head(Resolved(w).versions)>>
           /\ \A v \in ToSet(plan'[w]) : (v \in Applied) = ~IsUp(op[w])
<1> DEFINE vs == Resolved(w).versions
<1>1. /\ pc[w] = "list" /\ phase[w] = "run" /\ ~Resolved(w).err /\ vs # <<>>
      /\ plan'[w] = IF ByOne(op[w]) THEN <<Head(vs)>> ELSE vs
  BY DEF Decide, Finish, Goto, Sound, TypeOK
<1>2. /\ vs \in Seq(Versions) /\ IsInjective(vs)
      /\ \A v \in ToSet(vs) : (v \in Applied) = ~IsUp(op[w])
  BY <1>1, ResolvedSound
<1> HIDE DEF vs
<1>3. Head(vs) \in ToSet(vs) /\ Head(vs) \in Versions
  BY <1>1, <1>2, ElementsTyped
<1>4. /\ <<Head(vs)>> \in Seq(Versions) /\ IsInjective(<<Head(vs)>>)
      /\ ToSet(<<Head(vs)>>) = {Head(vs)} /\ <<Head(vs)>> # <<>>
  BY <1>3 DEF IsInjective, ToSet
<1>5. /\ plan'[w] \in Seq(Versions) /\ IsInjective(plan'[w]) /\ plan'[w] # <<>>
      /\ ToSet(plan'[w]) \subseteq ToSet(vs)
  BY <1>1, <1>2, <1>3, <1>4
<1> QED
  BY <1>1, <1>2, <1>5 DEF vs

LEMMA PlansHoldStep ==
    ASSUME Serial, ~DisableVersioning, Sound, PlansHold, [Next]_vars
    PROVE  PlansHold'
<1> USE DEF Sound
<1>1. CASE Applied' = Applied /\ IsInjective(rows') /\ ~(\E w \in Workers : Writing(w))
  <2> SUFFICES ASSUME NEW w \in Workers
               PROVE  /\ Planned(w)' => Fits(w)'
                      /\ Planned(w)' \/ pc'[w] = "cleanup" => Holds(w)'
    BY <1>1 DEF PlansHold
  <2>1. CASE Still(w)
    BY <1>1, <2>1 DEF Still, Planned, Fits, Holds, PlansHold
  <2>2. CASE Leaves(w)
    BY <2>2 DEF Leaves, Planned
  <2>3. CASE Ends(w)
    <3>1. Planned(w) \/ done[w] = <<>>
      BY <2>3 DEF Ends, Locals, Planned, MuHeld
    <3>2. Holds(w)
      BY <3>1 DEF Holds, PlansHold, ToSet
    <3> QED
      BY <1>1, <2>3, <3>2 DEF Ends, Planned, Holds
  <2>4. CASE Decide(w)
    <3>1. /\ pc'[w] \in {"prepare", "cleanup"} /\ op' = op /\ done'[w] = <<>>
      BY <2>4, WorkEffect
    <3>2. Holds(w)'
      BY <3>1 DEF Holds, ToSet
    <3>3. CASE pc'[w] = "prepare"
      <4>1. /\ IsInjective(plan'[w])
            /\ \A v \in ToSet(plan'[w]) : (v \in Applied) = ~IsUp(op[w])
        BY <2>4, <3>3, PlanDecided DEF PlansHold
      <4>2. ToSet(done'[w]) = {}
        BY <3>1 DEF ToSet
      <4>3. Fits(w)'
        BY <1>1, <3>1, <4>1, <4>2 DEF Fits
      <4> QED
        BY <3>2, <4>3
    <3> QED
      BY <3>1, <3>2, <3>3 DEF Planned
  <2>5. CASE Prepare(w) \/ Stating(w)
    <3>1. /\ Planned(w) /\ op' = op /\ plan' = plan /\ done' = done
      BY <2>5, WorkEffect DEF Planned
    <3>2. Fits(w) /\ Holds(w)
      BY <3>1 DEF PlansHold
    <3> QED
      BY <1>1, <3>1, <3>2 DEF Fits, Holds
  <2> QED
    BY <1>1, <2>1, <2>2, <2>3, <2>4, <2>5, LocalCases
<1>2. ASSUME NEW w \in Workers, Writing(w)
      PROVE  PlansHold'
  <2> DEFINE v == NextUp(w)
             u == IsUp(op[w])
  <2>1. /\ Planned(w) /\ phase[w] = "run" /\ plan[w] # <<>>
        /\ rows' \in {rows, Recorded(v, u)}
        /\ pc'[w] \in {"run", "cleanup"}
        /\ pc'[w] = "run" => /\ rows' = Recorded(v, u)
                             /\ plan'[w] = Tail(plan[w])
                             /\ done'[w] = Append(done[w], v)
        /\ pc'[w] = "cleanup" => done'[w] = done[w]
    BY <1>2, WritingEffect
  <2>2. op' = op /\ \A x \in Workers \ {w} : Still(x)
    BY <1>2, WorkEffect
  <2>3. \A x \in Workers \ {w} : ~Planned(x) /\ (pc[x] = "cleanup" => done[x] = <<>>)
    BY <2>1, Alone DEF InCharge, Planned
  <2>4. \A x \in Workers \ {w} : ~Planned(x)' /\ (pc'[x] = "cleanup" => Holds(x)')
    BY <2>2, <2>3 DEF Still, Planned, Holds, ToSet
  <2>5. Fits(w) /\ Holds(w) /\ IsInjective(rows)
    BY <2>1 DEF PlansHold
  <2>6. /\ v \in ToSet(plan[w]) /\ v \notin ToSet(done[w])
        /\ v \notin ToSet(Tail(plan[w])) /\ IsInjective(Tail(plan[w]))
        /\ ToSet(plan[w]) = {v} \cup ToSet(Tail(plan[w]))
        /\ ToSet(Append(done[w], v)) = ToSet(done[w]) \cup {v}
    BY <2>1, <2>5, PlanShorter
  <2>7. rows' = Recorded(v, u) => /\ Applied' = IF u THEN Applied \cup {v} ELSE Applied \ {v}
                                  /\ IsInjective(rows')
    BY <2>1, <2>5, RowsChanged
  <2>8. rows' = rows => Applied' = Applied
    BY DEF Applied
  <2>9. u \in BOOLEAN /\ IsUp(op'[w]) = u
    BY <2>2, IsUpBoolean
  <2> HIDE DEF v, u
  <2>10. IsInjective(rows')
    BY <2>1, <2>5, <2>7
  <2>11. \A x \in ToSet(done[w]) : (x \in Applied') = u
    BY <2>1, <2>5, <2>6, <2>7, <2>8, <2>9 DEF Holds, u
  <2>12. CASE pc'[w] = "run"
    <3>1. Applied' = IF u THEN Applied \cup {v} ELSE Applied \ {v}
      BY <2>1, <2>7, <2>12
    <3>2. \A x \in ToSet(Tail(plan[w])) : (x \in Applied') = ~u
      BY <2>5, <2>6, <2>9, <3>1 DEF Fits, u
    <3>3. plan'[w] = Tail(plan[w]) /\ ToSet(done'[w]) = ToSet(done[w]) \cup {v}
      BY <2>1, <2>6, <2>12
    <3>4. ToSet(Tail(plan[w])) \cap (ToSet(done[w]) \cup {v}) = {}
      BY <2>5, <2>6 DEF Fits
    <3>5. Fits(w)'
      BY <2>6, <2>9, <3>2, <3>3, <3>4 DEF Fits
    <3>6. v \in Applied' <=> u
      BY <2>9, <3>1
    <3>7. Holds(w)'
      BY <2>9, <2>11, <3>3, <3>6 DEF Holds
    <3> QED
      BY <2>4, <2>10, <3>5, <3>7 DEF PlansHold
  <2>13. CASE pc'[w] = "cleanup"
    <3>1. Holds(w)' /\ ~Planned(w)'
      BY <2>1, <2>9, <2>11, <2>13 DEF Holds, Planned
    <3> QED
      BY <2>4, <2>10, <3>1 DEF PlansHold
  <2> QED
    BY <2>1, <2>12, <2>13
<1>3. CASE UNCHANGED rows
  BY <1>1, <1>2, <1>3 DEF Applied, PlansHold
<1>4. CASE rows' = Append(rows, 0) /\ 0 \notin ToSet(rows)
  <2>1. ToSet(rows') = ToSet(rows) \cup {0} /\ IsInjective(rows')
    BY <1>4, ZeroAppended DEF PlansHold
  <2> QED
    BY <1>1, <1>2, <2>1 DEF Applied
<1>5. ASSUME NEW w \in Workers, Stating(w) PROVE UNCHANGED rows
  BY <1>5, WorkEffect
<1>6. ASSUME NEW p \in Providers, Crash(p) PROVE UNCHANGED rows
  BY <1>6 DEF Crash
<1> QED
  BY <1>2, <1>3, <1>4, <1>5, <1>6, DatabaseCases

\* The results of a call, of one that failed half way too, are recorded, or no
\* longer recorded after a rollback, as long as calls cannot run side by side.
THEOREM ResultsAreRecordedCorrect ==
    ASSUME Serial, ~DisableVersioning
    PROVE  Spec => []ResultsAreRecorded
<1>1. Init => PlansHold
  BY DEF Init, PlansHold, Planned, IsInjective
<1>2. Sound /\ PlansHold /\ [Next]_vars => PlansHold'
  BY PlansHoldStep
<1>3. PlansHold => ResultsAreRecorded
  BY DEF PlansHold, Holds, Planned, ResultsAreRecorded
<1> QED
  BY <1>1, <1>2, <1>3, SoundInit, SoundStep, PTL DEF Spec

-----------------------------------------------------------------------------
(* The schema and the version table *)

\* The steps that may write a version row, and the schema.
LEMMA WritingSchema ==
    ASSUME TypeOK, Locals, NEW w \in Workers, Writing(w)
    PROVE  LET v == NextUp(w)
               u == IsUp(op[w])
           IN  \/ /\ pc[w] = "run" /\ Atomic(v)
                  /\ schema' = Executed(v, u) /\ twice' = RanTwice(v, u)
                  /\ rows' = Recorded(v, u) /\ disturbed' = disturbed
               \/ /\ pc[w] = "run" /\ Atomic(v)
                  /\ UNCHANGED <<rows, schema, twice, disturbed>>
               \/ /\ pc[w] = "record" /\ ~Atomic(v) /\ UNCHANGED <<schema, twice>>
                  /\ \/ rows' = Recorded(v, u) /\ disturbed' = disturbed
                     \/ rows' \in {rows, Recorded(v, u)} /\ disturbed' = disturbed \cup {v}
<1>1. pc[w] = "record" => ~Atomic(NextUp(w))
  BY DEF Locals
<1>2. CASE RunTx(w)
  BY <1>2 DEF RunTx
<1>3. CASE RunTxFails(w)
  BY <1>3 DEF RunTxFails, db
<1>4. CASE Record(w)
  BY <1>1, <1>4 DEF Record
<1>5. CASE RecordFails(w)
  BY <1>1, <1>5 DEF RecordFails
<1> QED
  BY <1>2, <1>3, <1>4, <1>5 DEF Writing

\* The steps outside a transaction before the version row.
LEMMA StatingSchema ==
    ASSUME TypeOK, Locals, NEW w \in Workers, Stating(w)
    PROVE  LET v == NextUp(w)
           IN  /\ v \in Versions /\ ~Atomic(v)
               /\ \A x \in Versions \ {v} : schema'[x] = schema[x]
               /\ twice' \subseteq twice \cup {v}
               /\ pc'[w] = "record" =>
                     /\ disturbed' = disturbed
                     /\ ~RunsNothing(v) =>
                           schema'[v] = IF IsUp(op[w]) THEN "applied" ELSE "none"
               /\ pc'[w] # "record" => disturbed' = disturbed \cup {v}
<1> DEFINE v == NextUp(w)
<1>1. plan[w] # <<>> /\ ~Atomic(v)
  BY WorkEffect
<1>2. v \in Versions
  BY <1>1, NextUpTyped
<1> HIDE DEF v
<1>3. CASE RunStatements(w)
  <2>1. /\ pc'[w] = "record" /\ disturbed' = disturbed
        /\ schema' = (IF RunsNothing(v) THEN schema ELSE Executed(v, IsUp(op[w])))
        /\ twice' = (IF RunsNothing(v) THEN twice ELSE RanTwice(v, IsUp(op[w])))
    BY <1>3 DEF RunStatements, Goto, TypeOK, v
  <2> QED
    BY <1>1, <1>2, <2>1 DEF Executed, RanTwice, TypeOK, v
<1>4. CASE RunStatementsFail(w)
  <2>1. /\ pc'[w] = "cleanup" /\ disturbed' = disturbed \cup {v} /\ twice' = twice
        /\ \E s \in {schema[v], "partial"} : schema' = [schema EXCEPT ![v] = s]
    BY <1>4 DEF RunStatementsFail, Finish, Goto, TypeOK, v
  <2> QED
    BY <1>1, <1>2, <2>1 DEF TypeOK, v
<1> QED
  BY <1>3, <1>4 DEF Stating

\* A process dies.
LEMMA CrashSchema ==
    ASSUME TypeOK, Locals, NEW p \in Providers, Crash(p)
    PROVE  /\ rows' = rows /\ twice' = twice /\ disturbed \subseteq disturbed'
           /\ \A v \in disturbed' \ disturbed : ~Atomic(v)
           /\ \A v \in Versions : schema'[v] # schema[v] => ~Atomic(v) /\ v \in disturbed'
           /\ \A w \in Workers : pc[w] = "record" =>
                 Still(w) \/ NextUp(w) \in disturbed'
           /\ \A w \in Workers : Still(w) \/ pc'[w] = "idle"
<1> DEFINE mine == {w \in Workers : ProviderOf[w] = p}
           Current(l) == {NextUp(w) : w \in {x \in mine : pc[x] = l /\ plan[x] # <<>>}}
           open == {v \in Current("run") : ~Atomic(v) /\ ~RunsNothing(v)}
<1>1. PICK half \in SUBSET open :
          /\ schema' = [v \in Versions |-> IF v \in half THEN "partial" ELSE schema[v]]
          /\ disturbed' = disturbed \cup half \cup Current("record")
  BY DEF Crash
<1>2. rows' = rows /\ twice' = twice
  BY DEF Crash
<1>3. \A w \in Workers : IF w \in mine THEN pc'[w] = "idle" ELSE Still(w)
  BY DEF Crash, Return, Still
<1>4. \A v \in half : ~Atomic(v)
  BY <1>1
<1>5. \A w \in mine : pc[w] = "record" => NextUp(w) \in Current("record")
  BY DEF Locals
<1>6. \A v \in Current("record") : ~Atomic(v)
  BY DEF Locals
<1> HIDE DEF mine, Current, open
<1>7. \A v \in disturbed' \ disturbed : ~Atomic(v)
  BY <1>1, <1>4, <1>6
<1>8. \A v \in Versions : schema'[v] # schema[v] => ~Atomic(v) /\ v \in disturbed'
  BY <1>1, <1>4
<1>9. \A w \in Workers : pc[w] = "record" => Still(w) \/ NextUp(w) \in disturbed'
  BY <1>1, <1>3, <1>5
<1> QED
  BY <1>1, <1>2, <1>3, <1>7, <1>8, <1>9

\* A migration that commits with its version row is recorded if and only if its
\* statements are in effect, and was never run on top of itself.
AtomicInStep ==
    /\ \A v \in Versions : Atomic(v) => (v \in Applied <=> schema[v] = "applied")
    /\ \A v \in twice \cup disturbed : ~Atomic(v)

LEMMA AtomicStep ==
    ASSUME ~DisableVersioning, Sound, PlansHold, AtomicInStep, [Next]_vars
    PROVE  AtomicInStep'
<1> USE DEF Sound
<1>1. ASSUME NEW w \in Workers, Writing(w) PROVE AtomicInStep'
  <2> DEFINE v == NextUp(w)
             u == IsUp(op[w])
  <2>1. /\ v \in Versions /\ plan[w] # <<>> /\ Planned(w) /\ rows' \in {rows, Recorded(v, u)}
    BY <1>1, WritingEffect
  <2>2. u \in BOOLEAN
    BY IsUpBoolean
  <2>3. rows' = Recorded(v, u) => Applied' = IF u THEN Applied \cup {v} ELSE Applied \ {v}
    BY <2>1, RowsChanged
  <2>4. rows' = rows => Applied' = Applied
    BY DEF Applied
  <2>5. /\ v \in ToSet(plan[w]) /\ (v \in Applied) = ~u
    BY <2>1, PlanShorter DEF PlansHold, Fits
  <2>6. \/ /\ Atomic(v) /\ schema' = Executed(v, u) /\ twice' = RanTwice(v, u)
           /\ rows' = Recorded(v, u) /\ disturbed' = disturbed
        \/ UNCHANGED <<rows, schema, twice, disturbed>>
        \/ /\ ~Atomic(v) /\ UNCHANGED <<schema, twice>>
           /\ disturbed' \in {disturbed, disturbed \cup {v}}
    BY <1>1, WritingSchema
  <2> HIDE DEF v, u
  <2>7. CASE /\ Atomic(v) /\ schema' = Executed(v, u) /\ twice' = RanTwice(v, u)
             /\ rows' = Recorded(v, u) /\ disturbed' = disturbed
    <3>1. /\ \A x \in Versions \ {v} : schema'[x] = schema[x]
          /\ schema'[v] = IF u THEN "applied" ELSE "none"
      BY <2>1, <2>7 DEF Executed, TypeOK
    <3>2. twice' = twice
      BY <2>1, <2>2, <2>5, <2>7 DEF RanTwice, AtomicInStep
    <3>3. \A x \in Versions : Atomic(x) => (x \in Applied' <=> schema'[x] = "applied")
      BY <2>2, <2>3, <2>7, <3>1 DEF AtomicInStep
    <3> QED
      BY <2>7, <3>2, <3>3 DEF AtomicInStep, Atomic, useTx
  <2>8. CASE UNCHANGED <<rows, schema, twice, disturbed>>
    BY <2>4, <2>8 DEF AtomicInStep, Atomic, useTx
  <2>9. CASE /\ ~Atomic(v) /\ UNCHANGED <<schema, twice>>
             /\ disturbed' \in {disturbed, disturbed \cup {v}}
    <3>1. \A x \in Versions \ {v} : x \in Applied' <=> x \in Applied
      BY <2>1, <2>2, <2>3, <2>4
    <3> QED
      BY <2>9, <3>1 DEF AtomicInStep, Atomic, useTx
  <2> QED
    BY <2>6, <2>7, <2>8, <2>9
<1>2. ASSUME NEW w \in Workers, Stating(w) PROVE AtomicInStep'
  <2> DEFINE v == NextUp(w)
  <2>1. /\ v \in Versions /\ ~Atomic(v)
        /\ \A x \in Versions \ {v} : schema'[x] = schema[x]
        /\ twice' \subseteq twice \cup {v}
        /\ disturbed' \in {disturbed, disturbed \cup {v}}
    BY <1>2, StatingSchema
  <2>2. Applied' = Applied
    BY <1>2, WorkEffect DEF Applied
  <2> HIDE DEF v
  <2> QED
    BY <2>1, <2>2 DEF AtomicInStep, Atomic, useTx
<1>3. ASSUME NEW p \in Providers, Crash(p) PROVE AtomicInStep'
  <2>1. Applied' = Applied
    BY <1>3, CrashSchema DEF Applied
  <2> QED
    BY <1>3, <2>1, CrashSchema DEF AtomicInStep, Atomic, useTx
<1>4. CASE UNCHANGED <<schema, twice, disturbed>> /\ rows' \in {rows, Append(rows, 0)}
  <2>1. ToSet(rows') \in {ToSet(rows), ToSet(rows) \cup {0}}
    BY <1>4, ZeroAppended
  <2>2. Applied' = Applied
    BY <2>1 DEF Applied
  <2> QED
    BY <1>4, <2>2 DEF AtomicInStep, Atomic, useTx
<1> QED
  BY <1>1, <1>2, <1>3, <1>4, DatabaseCases

\* No version is recorded twice and no transactional migration is run on top
\* of itself, as long as calls cannot run side by side.
THEOREM ExactlyOnceCorrect ==
    ASSUME Serial, ~DisableVersioning
    PROVE  Spec => []ExactlyOnce
<1>1. Init => PlansHold /\ AtomicInStep
  BY DEF Init, PlansHold, Planned, IsInjective, AtomicInStep, Applied, ToSet
<1>2. Sound /\ PlansHold /\ AtomicInStep /\ [Next]_vars => PlansHold' /\ AtomicInStep'
  BY PlansHoldStep, AtomicStep
<1>3. Sound /\ PlansHold /\ AtomicInStep => ExactlyOnce
  BY InjectiveLength DEF Sound, TypeOK, PlansHold, AtomicInStep, ExactlyOnce
<1> QED
  BY <1>1, <1>2, <1>3, SoundInit, SoundStep, PTL DEF Spec

\* Between its statements and its version row, a migration that was not
\* disturbed is in effect after an up, and gone after a down.
AtRecord ==
    \A w \in Workers : pc[w] = "record" /\ NextUp(w) \notin disturbed =>
        schema[NextUp(w)] = IF IsUp(op[w]) THEN "applied" ELSE "none"

\* Who has run the statements goes on to the version row, or dies.
LEMMA RecordLeft ==
    ASSUME Sound, [Next]_vars, NEW w \in Workers, pc[w] = "record"
    PROVE  Still(w) \/ Writing(w) \/ \E p \in Providers : Crash(p)
<1> USE DEF Sound, TypeOK
<1>1. ASSUME NEW x \in Workers \ {w}, Inside(x) PROVE Still(w)
  BY <1>1, InsideEffect DEF Still
<1>2. ASSUME NEW x \in Workers \ {w},
             Call(x) \/ LockMu(x) \/ ConnFails(x) \/ Cleanup(x) \/ ReleaseLock(x)
      PROVE  Still(w)
  BY <1>2 DEF Still, Call, LockMu, ConnFails, Cleanup, ReleaseLock, Goto, Return, call
<1>3. ~(Call(w) \/ LockMu(w) \/ ConnFails(w) \/ Cleanup(w) \/ ReleaseLock(w))
  BY DEF Call, LockMu, ConnFails, Cleanup, ReleaseLock
<1>4. ~Creating(w)
  BY DEF Creating, CreateVersionTable, CreateTableOnly, InsertZero, CreateFails
<1>5. ~Reading(w)
  BY DEF Reading, AcquireLock, LockFails, CheckTable, CheckTableFails, ListFails, HasPending,
         Decide, Prepare, RunStatements, RunStatementsFail, RunDone
<1>6. CASE UNCHANGED vars
  BY <1>6 DEF Still, vars, call
<1> HIDE DEF Sound, TypeOK
<1> QED
  BY <1>1, <1>2, <1>3, <1>4, <1>5, <1>6, Cases, InsideKinds

LEMMA InStepStep ==
    ASSUME Serial, ~DisableVersioning, \A v \in Versions : ~RunsNothing(v),
           Sound, PlansHold, AtRecord, InStep, [Next]_vars
    PROVE  AtRecord' /\ InStep'
<1> DEFINE Step(v) == v \in Applied <=> schema[v] = "applied"
           Open(v) == \E w \in Workers : pc[w] = "record" /\ NextUp(w) = v /\ ~Atomic(v)
<1>1. ASSUME NEW w \in Workers, Writing(w) PROVE AtRecord' /\ InStep'
  <2> DEFINE v == NextUp(w)
             u == IsUp(op[w])
  <2>1. /\ v \in Versions /\ plan[w] # <<>> /\ Planned(w) /\ phase[w] = "run"
        /\ rows' \in {rows, Recorded(v, u)} /\ pc'[w] \in {"run", "cleanup"}
    BY <1>1, WritingEffect DEF Sound
  <2>2. \A x \in Workers \ {w} : ~Planned(x) /\ Still(x)
    BY <1>1, <2>1, Alone, WorkEffect DEF Sound, InCharge, Planned
  <2>3. \A x \in Workers : pc'[x] # "record"
    BY <2>1, <2>2 DEF Planned, Still
  <2>4. AtRecord'
    BY <2>3 DEF AtRecord
  <2>5. \A x \in Versions \ disturbed : x # v \/ pc[w] # "record" => Step(x)
    BY <2>2 DEF InStep, Planned
  <2>6. rows' = Recorded(v, u) => Applied' = IF u THEN Applied \cup {v} ELSE Applied \ {v}
    BY <2>1, RowsChanged
  <2>7. rows' = rows => Applied' = Applied
    BY DEF Applied
  <2>8. u \in BOOLEAN
    BY IsUpBoolean
  <2>9. \/ /\ schema' = Executed(v, u) /\ pc[w] = "run"
           /\ rows' = Recorded(v, u) /\ disturbed' = disturbed
        \/ UNCHANGED <<rows, schema, twice, disturbed>> /\ pc[w] = "run"
        \/ /\ pc[w] = "record" /\ schema' = schema
           /\ rows' = Recorded(v, u) /\ disturbed' = disturbed
        \/ schema' = schema /\ disturbed' = disturbed \cup {v}
    BY <1>1, WritingSchema DEF Sound
  <2>10. pc[w] = "record" /\ v \notin disturbed => schema[v] = IF u THEN "applied" ELSE "none"
    BY DEF AtRecord
  <2> SUFFICES ASSUME NEW x \in Versions \ disturbed' PROVE Step(x)'
    BY <2>4 DEF InStep
  <2> HIDE DEF v, u
  <2>11. CASE x # v
    <3>1. schema'[x] = schema[x] /\ x \notin disturbed
      BY <2>1, <2>9, <2>11 DEF Executed, Sound, TypeOK
    <3>2. x \in Applied' <=> x \in Applied
      BY <2>1, <2>6, <2>7, <2>8, <2>11
    <3> QED
      BY <2>5, <2>11, <3>1, <3>2
  <2>12. CASE x = v
    <3>1. CASE schema' = Executed(v, u) /\ rows' = Recorded(v, u)
      <4>1. schema'[v] = IF u THEN "applied" ELSE "none"
        BY <2>1, <3>1 DEF Executed, Sound, TypeOK
      <4> QED
        BY <2>6, <2>8, <2>12, <3>1, <4>1
    <3>2. CASE UNCHANGED <<rows, schema, twice, disturbed>> /\ pc[w] = "run"
      BY <2>5, <2>7, <2>12, <3>2
    <3>3. CASE /\ pc[w] = "record" /\ schema' = schema
               /\ rows' = Recorded(v, u) /\ disturbed' = disturbed
      BY <2>6, <2>8, <2>10, <2>12, <3>3
    <3>4. ~(disturbed' = disturbed \cup {v})
      BY <2>12
    <3> QED
      BY <2>9, <3>1, <3>2, <3>3, <3>4
  <2> QED
    BY <2>11, <2>12
<1>2. ASSUME NEW w \in Workers, Stating(w) PROVE AtRecord' /\ InStep'
  <2> DEFINE v == NextUp(w)
             u == IsUp(op[w])
  <2>1. /\ v \in Versions /\ ~Atomic(v)
        /\ \A x \in Versions \ {v} : schema'[x] = schema[x]
        /\ pc'[w] = "record" => /\ disturbed' = disturbed
                                /\ schema'[v] = IF u THEN "applied" ELSE "none"
        /\ pc'[w] # "record" => disturbed' = disturbed \cup {v}
    BY <1>2, StatingSchema DEF Sound
  <2>2. /\ pc[w] = "run" /\ phase[w] = "run" /\ op' = op /\ plan' = plan
        /\ rows' = rows
    BY <1>2, WorkEffect DEF Sound
  <2>3. \A x \in Workers \ {w} : ~Planned(x) /\ Still(x)
    BY <1>2, <2>2, Alone, WorkEffect DEF Sound, InCharge
  <2>4. Applied' = Applied /\ NextUp(w)' = v /\ IsUp(op[w])' = u
    BY <2>2 DEF Applied, NextUp
  <2>5. \A x \in Workers : pc'[x] = "record" => x = w
    BY <2>3 DEF Planned, Still
  <2>6. AtRecord'
    BY <2>1, <2>4, <2>5 DEF AtRecord
  <2>7. \A x \in Versions \ disturbed : Step(x)
    BY <2>2, <2>3 DEF InStep, Planned
  <2> SUFFICES ASSUME NEW x \in Versions \ disturbed' PROVE Open(x)' \/ Step(x)'
    BY <2>6 DEF InStep
  <2>8. CASE x = v
    <3>1. pc'[w] = "record"
      BY <2>1, <2>8
    <3> QED
      BY <2>1, <2>4, <2>8, <3>1 DEF Atomic, useTx
  <2>9. CASE x # v
    <3> HIDE DEF v
    <3> QED
      BY <2>1, <2>4, <2>7, <2>9
  <2> QED
    BY <2>8, <2>9
<1>3. CASE /\ \A w \in Workers : pc'[w] = "record" => Still(w)
           /\ Applied' = Applied /\ disturbed \subseteq disturbed'
           /\ \A v \in Versions \ disturbed' : schema'[v] = schema[v]
           /\ \A w \in Workers : pc[w] = "record" => Still(w) \/ NextUp(w) \in disturbed'
  <2>1. \A w \in Workers : Still(w) => /\ NextUp(w)' = NextUp(w) /\ pc'[w] = pc[w]
                                       /\ IsUp(op[w])' = IsUp(op[w])
    BY DEF Still, NextUp
  <2>2. \A w \in Workers : pc[w] = "record" => NextUp(w) \in Versions
    BY NextUpTyped DEF Sound, Locals
  <2>3. AtRecord'
    BY <1>3, <2>1, <2>2 DEF AtRecord
  <2>4. ASSUME NEW v \in Versions \ disturbed', Open(v) PROVE Open(v)'
    BY <1>3, <2>1, <2>4 DEF Atomic, useTx
  <2>5. ASSUME NEW v \in Versions \ disturbed', Step(v) PROVE Step(v)'
    BY <1>3, <2>5
  <2> QED
    BY <1>3, <2>3, <2>4, <2>5 DEF InStep
<1>4. ASSUME NEW p \in Providers, Crash(p) PROVE AtRecord' /\ InStep'
  <2>1. Applied' = Applied
    BY <1>4, CrashSchema DEF Applied, Sound
  <2> QED
    BY <1>3, <1>4, <2>1, CrashSchema DEF Sound
<1>5. CASE /\ UNCHANGED <<schema, twice, disturbed>> /\ rows' \in {rows, Append(rows, 0)}
           /\ ~(\E w \in Workers : Stating(w) \/ Writing(w)) /\ ~(\E p \in Providers : Crash(p))
  <2>1. ToSet(rows') \in {ToSet(rows), ToSet(rows) \cup {0}}
    BY <1>5, ZeroAppended DEF Sound
  <2>2. Applied' = Applied
    BY <2>1 DEF Applied
  <2>3. \A w \in Workers : pc[w] = "record" => Still(w)
    BY <1>5, RecordLeft
  <2>4. \A w \in Workers : pc'[w] = "record" => Still(w)
    BY <1>5, LocalCases, WorkEffect DEF Sound, Leaves, Ends
  <2> QED
    BY <1>3, <1>5, <2>2, <2>3, <2>4
<1> QED
  BY <1>1, <1>2, <1>4, <1>5, DatabaseCases DEF Sound

\* The version table tells the truth, through failures, lost results and
\* crashes, as long as calls cannot run side by side and every migration is
\* run where it was registered for (a Go function for a transaction is not,
\* with isolateDDL).
THEOREM InStepCorrect ==
    ASSUME Serial, ~DisableVersioning, \A v \in Versions : ~RunsNothing(v)
    PROVE  Spec => []InStep
<1>1. Init => PlansHold /\ AtRecord /\ InStep
  BY DEF Init, PlansHold, Planned, IsInjective, AtRecord, InStep, Applied, ToSet
<1>2. Sound /\ PlansHold /\ AtRecord /\ InStep /\ [Next]_vars
         => PlansHold' /\ AtRecord' /\ InStep'
  BY PlansHoldStep, InStepStep
<1> QED
  BY <1>1, <1>2, SoundInit, SoundStep, PTL DEF Spec

-----------------------------------------------------------------------------
(* The order of the history, and what a successful call leaves to do *)

\* ApplyVersion, which may apply a version below the latest one, is not used
\* to go up.
NoApplyUp == \A c \in Ops : c.kind = "apply" => ~c.up

\* A call that goes up is then Up, UpByOne or UpTo.
LEMMA UpIsUp ==
    ASSUME Sound, NoApplyUp, NEW w \in Workers, pc[w] # "idle", IsUp(op[w])
    PROVE  op[w].kind \in UpKinds
BY DEF Sound, Locals, IsUp, NoApplyUp

\* The rows are in order and start with the zero version, and what is going to
\* be applied is in order too, above the rows.
Ordered ==
    /\ \A i, j \in 1..Len(rows) : i < j => rows[i] <= rows[j]
    /\ rows # <<>> => 0 \in ToSet(rows)
    /\ \A w \in Workers : Planned(w) /\ IsUp(op[w]) =>
          /\ 0 \in ToSet(rows)
          /\ \A i, j \in 1..Len(plan[w]) : i < j => plan[w][i] < plan[w][j]
          /\ \A v \in ToSet(plan[w]), r \in ToSet(rows) : r <= v

\* The first of an ascending list is below the others, and they are in order.
LEMMA AscendingTail ==
    ASSUME NEW s \in Seq(Nat), s # <<>>,
           \A i, j \in 1..Len(s) : i < j => s[i] < s[j]
    PROVE  /\ \A v \in ToSet(Tail(s)) : Head(s) < v
           /\ \A i, j \in 1..Len(Tail(s)) : i < j => Tail(s)[i] < Tail(s)[j]
<1>1. /\ Len(s) \in Nat /\ Len(s) >= 1 /\ Len(Tail(s)) = Len(s) - 1 /\ Head(s) = s[1]
      /\ \A i \in 1..Len(Tail(s)) : Tail(s)[i] = s[i + 1]
      /\ DOMAIN Tail(s) = 1..Len(Tail(s))
  BY HeadTailProperties, LenProperties, EmptySeq
<1>2. \A i \in 1..Len(Tail(s)) : i + 1 \in 1..Len(s) /\ 1 < i + 1
  BY <1>1
<1>3. 1 \in 1..Len(s)
  BY <1>1
<1>4. \A v \in ToSet(Tail(s)) : Head(s) < v
  <2> SUFFICES ASSUME NEW i \in 1..Len(Tail(s)) PROVE Head(s) < Tail(s)[i]
    BY <1>1 DEF ToSet
  <2> QED
    BY <1>1, <1>2, <1>3
<1>5. ASSUME NEW i \in 1..Len(Tail(s)), NEW j \in 1..Len(Tail(s)), i < j
      PROVE  Tail(s)[i] < Tail(s)[j]
  <2>1. i + 1 < j + 1
    BY <1>1, <1>5
  <2> QED
    BY <1>1, <1>2, <2>1
<1> QED
  BY <1>4, <1>5

\* A list in order stays so when something at least as large is appended, and
\* when something is taken out.
LEMMA SortedChanged ==
    ASSUME NEW s \in Seq(Nat), NEW v \in Nat,
           \A i, j \in 1..Len(s) : i < j => s[i] <= s[j]
    PROVE  /\ (\A r \in ToSet(s) : r <= v) =>
                 \A i, j \in 1..Len(Append(s, v)) : i < j => Append(s, v)[i] <= Append(s, v)[j]
           /\ \A i, j \in 1..Len(Without(s, v)) : i < j => Without(s, v)[i] <= Without(s, v)[j]
<1>1. /\ Len(s) \in Nat /\ DOMAIN s = 1..Len(s)
      /\ Len(Append(s, v)) = Len(s) + 1
      /\ \A i \in 1..Len(s) : Append(s, v)[i] = s[i]
      /\ Append(s, v)[Len(s) + 1] = v
  BY AppendProperties, LenProperties
<1>2. ASSUME \A r \in ToSet(s) : r <= v,
             NEW i \in 1..Len(Append(s, v)), NEW j \in 1..Len(Append(s, v)), i < j
      PROVE  Append(s, v)[i] <= Append(s, v)[j]
  <2>1. i \in 1..Len(s) /\ s[i] \in ToSet(s)
    BY <1>1, <1>2 DEF ToSet
  <2>2. CASE j \in 1..Len(s)
    BY <1>1, <1>2, <2>1, <2>2
  <2>3. CASE j = Len(s) + 1
    BY <1>1, <1>2, <2>1, <2>3
  <2> QED
    BY <1>1, <2>2, <2>3
<1>3. ASSUME NEW i \in 1..Len(Without(s, v)), NEW j \in 1..Len(Without(s, v)), i < j
      PROVE  Without(s, v)[i] <= Without(s, v)[j]
  <2>1. PICK k, l \in 1..Len(s) : k < l /\ Without(s, v)[i] = s[k] /\ Without(s, v)[j] = s[l]
    BY <1>3, WithoutProperties
  <2> QED
    BY <2>1
<1> QED
  BY <1>2, <1>3

LEMMA OrderedStep ==
    ASSUME Serial, ~DisableVersioning, ~AllowMissing, NoApplyUp,
           Sound, PlansHold, Ordered, [Next]_vars
    PROVE  Ordered'
<1> DEFINE Ahead(w) == /\ 0 \in ToSet(rows)
                       /\ \A i, j \in 1..Len(plan[w]) : i < j => plan[w][i] < plan[w][j]
                       /\ \A v \in ToSet(plan[w]), r \in ToSet(rows) : r <= v
<1>1. CASE UNCHANGED rows /\ ~(\E w \in Workers : Writing(w))
  <2> SUFFICES ASSUME NEW w \in Workers, Planned(w)', IsUp(op[w])' PROVE Ahead(w)'
    BY <1>1 DEF Ordered
  <2>1. CASE Still(w)
    BY <1>1, <2>1 DEF Still, Planned, Ordered
  <2>2. CASE Leaves(w) \/ Ends(w)
    BY <2>2 DEF Leaves, Ends, Planned
  <2>3. CASE Decide(w)
    <3>1. op' = op /\ pc'[w] = "prepare" /\ pc[w] = "list"
      BY <2>3, WorkEffect DEF Sound, Planned
    <3>2. op[w].kind \in UpKinds
      BY <3>1, UpIsUp
    <3> DEFINE vs == Resolved(w).versions
    <3>3. /\ ~Resolved(w).err /\ ToSet(plan'[w]) \subseteq ToSet(vs)
          /\ plan'[w] = vs \/ plan'[w] = <<Head(vs)>>
      BY <2>3, <3>1, PlanDecided, Zenon DEF PlansHold
    <3>4. /\ rows # <<>>
          /\ \A i, j \in 1..Len(vs) : i < j => vs[i] < vs[j]
          /\ \A v \in ToSet(vs), r \in ToSet(rows) : r <= v
      BY <3>1, <3>2, <3>3, ResolvedUp
    <3> HIDE DEF vs
    <3>5. \A i, j \in 1..Len(plan'[w]) : i < j => plan'[w][i] < plan'[w][j]
      BY <3>3, <3>4
    <3> QED
      BY <1>1, <3>3, <3>4, <3>5 DEF Ordered
  <2>4. CASE Prepare(w) \/ Stating(w)
    <3>1. /\ Planned(w) /\ op' = op /\ plan' = plan
      BY <2>4, WorkEffect DEF Planned, Sound
    <3> QED
      BY <1>1, <3>1 DEF Ordered
  <2> QED
    BY <1>1, <2>1, <2>2, <2>3, <2>4, LocalCases DEF Sound
<1>2. ASSUME NEW w \in Workers, Writing(w) PROVE Ordered'
  <2> DEFINE v == NextUp(w)
             u == IsUp(op[w])
  <2>1. /\ Planned(w) /\ phase[w] = "run" /\ plan[w] # <<>> /\ v \in Versions
        /\ rows' \in {rows, Recorded(v, u)}
        /\ pc'[w] \in {"run", "cleanup"}
        /\ pc'[w] = "run" => plan'[w] = Tail(plan[w])
    BY <1>2, WritingEffect DEF Sound
  <2>2. op' = op /\ \A x \in Workers \ {w} : Still(x) /\ ~Planned(x)
    BY <1>2, <2>1, WorkEffect, Alone DEF Sound, InCharge, Planned
  <2>3. \A x \in Workers : Planned(x)' => x = w /\ pc'[w] = "run"
    BY <2>1, <2>2 DEF Planned, Still
  <2>4. /\ rows \in Seq(Nat) /\ plan[w] \in Seq(Nat) /\ v \in Nat /\ v # 0 /\ u \in BOOLEAN
        /\ plan[w] \in Seq(Versions) /\ v = Head(plan[w])
    <3>1. Versions \subseteq Nat /\ Versions \cup {0} \subseteq Nat /\ 0 \notin Versions
      BY VersionFacts
    <3> QED
      BY <3>1, <2>1, SeqMonotonic, IsUpBoolean DEF Sound, TypeOK, NextUp
  <2>5. rows' = rows \/ (u /\ rows' = Append(rows, v)) \/ (~u /\ rows' = Without(rows, v))
    BY <2>1, ProviderAssumption DEF Recorded
  <2>6. u => Ahead(w)
    BY <2>1 DEF Ordered
  <2>7. v \in ToSet(plan[w]) /\ ToSet(plan[w]) = {v} \cup ToSet(Tail(plan[w]))
    BY <2>1, PlanShorter DEF PlansHold
  <2>8. op'[w] = op[w]
    BY <2>2
  <2> HIDE DEF v
  <2>9. ToSet(rows') = ToSet(rows) \/ (u /\ ToSet(rows') = ToSet(rows) \cup {v})
        \/ (~u /\ ToSet(rows') = ToSet(rows) \ {v})
    <3>1. ToSet(Append(rows, v)) = ToSet(rows) \cup {v}
      BY <2>4, ElementsAppend
    <3>2. ToSet(Without(rows, v)) = ToSet(rows) \ {v}
      BY <2>4, WithoutProperties
    <3> QED
      BY <2>5, <3>1, <3>2
  <2>10. \A i, j \in 1..Len(rows') : i < j => rows'[i] <= rows'[j]
    <3>1. \A i, j \in 1..Len(rows) : i < j => rows[i] <= rows[j]
      BY DEF Ordered
    <3>2. u => \A r \in ToSet(rows) : r <= v
      BY <2>6, <2>7
    <3>3. CASE rows' = rows
      BY <3>1, <3>3
    <3>4. CASE u /\ rows' = Append(rows, v)
      BY <2>4, <3>1, <3>2, <3>4, SortedChanged
    <3>5. CASE rows' = Without(rows, v)
      BY <2>4, <3>1, <3>5, SortedChanged
    <3> QED
      BY <2>5, <3>3, <3>4, <3>5
  <2>11. rows' # <<>> => 0 \in ToSet(rows')
    <3>1. rows' \in Seq(Nat)
      <4>1. Append(rows, v) \in Seq(Nat) /\ Without(rows, v) \in Seq(Nat)
        BY <2>4, AppendProperties, WithoutProperties
      <4> QED
        BY <2>4, <2>5, <4>1
    <3>2. rows' # <<>> => ToSet(rows') # {}
      BY <3>1, ElementsTyped
    <3>3. u => 0 \in ToSet(rows)
      BY <2>6
    <3>4. ToSet(rows) # {} => 0 \in ToSet(rows)
      BY <2>4, ElementsTyped DEF Ordered
    <3> QED
      BY <2>4, <2>9, <3>2, <3>3, <3>4
  <2>12. ASSUME pc'[w] = "run", u PROVE Ahead(w)'
    <3>1. /\ \A x \in ToSet(Tail(plan[w])) : v < x
          /\ \A i, j \in 1..Len(Tail(plan[w])) : i < j => Tail(plan[w])[i] < Tail(plan[w])[j]
      BY <2>1, <2>4, <2>6, <2>12, AscendingTail
    <3>2. plan'[w] = Tail(plan[w])
      BY <2>1, <2>12
    <3>3. 0 \in ToSet(rows')
      BY <2>6, <2>9, <2>12
    <3>4. ASSUME NEW x \in ToSet(Tail(plan[w])), NEW r \in ToSet(rows') PROVE r <= x
      <4>1. r \in ToSet(rows) => r <= x
        BY <2>6, <2>7, <2>12
      <4>2. x \in Nat /\ v < x
        <5>1. x \in ToSet(plan[w])
          BY <2>7
        <5> QED
          BY <2>4, <3>1, <5>1, ElementsTyped
      <4> QED
        BY <2>4, <2>9, <2>12, <4>1, <4>2
    <3> QED
      BY <3>1, <3>2, <3>3, <3>4
  <2>13. \A x \in Workers : Planned(x)' /\ IsUp(op[x])' => Ahead(x)'
    BY <2>3, <2>8, <2>12
  <2> QED
    BY <2>10, <2>11, <2>13 DEF Ordered
<1>3. CASE rows' = Append(rows, 0) /\ 0 \notin ToSet(rows)
  <2>1. rows = <<>>
    BY <1>3 DEF Ordered
  <2>2. rows' = <<0>> /\ 0 \in ToSet(rows')
    BY <1>3, <2>1, ZeroAppended DEF Sound
  <2>3. \A w \in Workers : ~(Decide(w) \/ Prepare(w) \/ Stating(w) \/ Writing(w))
    <3>1. rows' # rows /\ ~(0 \in ToSet(rows') <=> 0 \in ToSet(rows))
      BY <1>3, <2>1, <2>2
    <3>2. \A w \in Workers : Writing(w) => (0 \in ToSet(rows') <=> 0 \in ToSet(rows))
      BY WritingEffect, RecordedElements, IsUpBoolean DEF Sound
    <3> QED
      BY <3>1, <3>2, WorkEffect DEF Sound
  <2>4. \A w \in Workers : Planned(w)' => Still(w)
    BY <2>3, LocalCases DEF Sound, Planned, Leaves, Ends
  <2>5. \A w \in Workers : ~(Planned(w)' /\ IsUp(op[w])')
    BY <1>3, <2>4 DEF Still, Planned, Ordered
  <2> QED
    BY <2>2, <2>5 DEF Ordered
<1>4. ASSUME NEW w \in Workers, Stating(w) PROVE UNCHANGED rows
  BY <1>4, WorkEffect DEF Sound
<1>5. ASSUME NEW p \in Providers, Crash(p) PROVE UNCHANGED rows
  BY <1>5 DEF Crash
<1> QED
  BY <1>1, <1>2, <1>3, <1>4, <1>5, DatabaseCases DEF Sound

\* Unless out-of-order migrations are allowed, the history is in ascending
\* order, although the processes may know different migrations, as long as
\* calls cannot run side by side and ApplyVersion is not used to go up.
THEOREM InOrderCorrect ==
    ASSUME Serial, ~DisableVersioning, NoApplyUp
    PROVE  Spec => []InOrder
<1>1. CASE AllowMissing
  <2>1. InOrder
    BY <1>1 DEF InOrder
  <2> QED
    BY <2>1, PTL
<1>2. CASE ~AllowMissing
  <2>1. Init => PlansHold /\ Ordered
    BY DEF Init, PlansHold, Planned, IsInjective, Ordered
  <2>2. Sound /\ PlansHold /\ Ordered /\ [Next]_vars => PlansHold' /\ Ordered'
    BY <1>2, PlansHoldStep, OrderedStep
  <2>3. Ordered => InOrder
    BY DEF Ordered, InOrder, IsSorted
  <2> QED
    BY <2>1, <2>2, <2>3, SoundInit, SoundStep, PTL DEF Spec
<1> QED
  BY <1>1, <1>2

\* What is left to do of an Up, UpTo or DownTo: everything it promises is done
\* or planned, and nothing beyond.
Promised(w) ==
    /\ op[w].kind \in {"up", "upTo"} =>
          /\ \A v \in Known(w) : v <= Target(op[w]) => v \in Applied \cup ToSet(plan[w])
          /\ \A v \in ToSet(done[w]) \cup ToSet(plan[w]) : v <= Target(op[w])
    /\ op[w].kind = "downTo" =>
          /\ \A v \in ToSet(done[w]) \cup ToSet(plan[w]) : v > op[w].version
          /\ ~AllowMissing =>
                \A v \in Applied : v <= op[w].version \/ v \in ToSet(plan[w])

\* A call that ends successfully has nothing left to do.
Succeeded(w) == pc[w] = "cleanup" /\ phase[w] = "run" /\ ret[w] = "ok"

Progress ==
    \A w \in Workers : /\ Planned(w) => Promised(w)
                       /\ Succeeded(w) => Promised(w) /\ (op[w].kind \in {"up", "upTo", "downTo"}
                                                            => plan[w] = <<>>)

\* What Up, UpTo and DownTo decide on is what they promise.
LEMMA DecidedPromised ==
    ASSUME ~DisableVersioning, ~AllowMissing => Ordered, Sound, PlansHold,
           NEW w \in Workers, Decide(w), pc'[w] = "prepare" \/ ret'[w] = "ok"
    PROVE  /\ op[w].kind \in {"up", "upTo", "downTo"} => Promised(w)'
           /\ pc'[w] = "cleanup" => plan'[w] = <<>>
<1> DEFINE o == op[w]
           vs == Resolved(w).versions
<1>1. /\ pc[w] = "list" /\ phase[w] = "run" /\ op' = op /\ done'[w] = <<>>
      /\ rows' = rows /\ pc'[w] \in {"prepare", "cleanup"}
  BY WorkEffect DEF Sound
<1>2. Applied' = Applied /\ ToSet(done'[w]) = {}
  BY <1>1 DEF Applied, ToSet
<1>3. plan[w] = <<>>
  BY <1>1 DEF Sound, Locals, Planned
<1>4. /\ ~Resolved(w).err
      /\ pc'[w] = "cleanup" => vs = <<>> /\ plan'[w] = <<>>
      /\ pc'[w] = "prepare" => plan'[w] = vs \/ ByOne(o)
  <2>1. \/ /\ Resolved(w).err \/ vs = <<>>
           /\ pc'[w] = "cleanup" /\ ret'[w] = (IF Resolved(w).err THEN "err" ELSE "ok")
           /\ plan' = plan
        \/ /\ ~Resolved(w).err /\ vs # <<>> /\ pc'[w] = "prepare"
           /\ plan'[w] = IF ByOne(o) THEN <<Head(vs)>> ELSE vs
    BY DEF Decide, Finish, Goto, Sound, TypeOK
  <2> QED
    BY <1>3, <2>1
<1>5. o.kind \in {"up", "upTo", "downTo"} => ToSet(plan'[w]) = ToSet(vs)
  BY <1>1, <1>4 DEF ByOne
<1>6. \A v \in Versions : v \in Applied <=> v \in ToSet(rows)
  BY RowsFacts DEF Sound
<1>7. Known(w) \subseteq Versions /\ Applied \subseteq Versions /\ Versions \subseteq Nat
  BY RowsFacts, VersionFacts DEF Sound
<1>8. CASE o.kind \in {"up", "upTo"}
  <2>1. \A v : v \in ToSet(vs) <=> v \in Known(w) /\ v \notin ToSet(rows) /\ v <= Target(o)
    BY <1>1, <1>4, <1>8, ResolvedUp DEF UpKinds
  <2>2. \A v \in Known(w) : v <= Target(o) => v \in Applied \cup ToSet(vs)
    BY <1>6, <1>7, <2>1
  <2> HIDE DEF vs
  <2>3. /\ \A v \in Known(w) : v <= Target(op'[w]) => v \in Applied' \cup ToSet(plan'[w])
        /\ \A v \in ToSet(done'[w]) \cup ToSet(plan'[w]) : v <= Target(op'[w])
    BY <1>1, <1>2, <1>5, <1>8, <2>1, <2>2
  <2> QED
    BY <1>1, <1>4, <1>8, <2>3 DEF Promised, Known
<1>9. CASE o.kind = "downTo"
  <2>1. Target(o) = o.version
    BY <1>9 DEF Target
  <2>2. /\ \A v \in ToSet(vs) : v > Target(o)
        /\ (\A i, j \in 1..Len(rows) : i < j => rows[i] <= rows[j]) =>
               \A v \in ToSet(rows) : v > Target(o) => v \in ToSet(vs)
    BY <1>1, <1>4, <1>9, ResolvedDown
  <2>3. o.version \in Nat
    BY <1>1, <1>9, OpFacts, ProviderAssumption DEF Sound, Locals
  <2>4. ~AllowMissing => \A v \in ToSet(rows) : v > o.version => v \in ToSet(vs)
    BY <2>1, <2>2 DEF Ordered
  <2>5. ~AllowMissing => \A v \in Applied : v <= o.version \/ v \in ToSet(vs)
    <3> DEFINE n == o.version
    <3>1. n \in Nat /\ \A v \in Applied : v \in Nat /\ v \in ToSet(rows)
      BY <1>6, <1>7, <2>3
    <3>2. ~AllowMissing => \A v \in ToSet(rows) : v > n => v \in ToSet(vs)
      BY <2>4
    <3> HIDE DEF n, vs
    <3>3. ~AllowMissing => \A v \in Applied : v <= n \/ v \in ToSet(vs)
      BY <3>1, <3>2
    <3> QED
      BY <3>3 DEF n
  <2> HIDE DEF vs
  <2>6. /\ \A v \in ToSet(done'[w]) \cup ToSet(plan'[w]) : v > op'[w].version
        /\ ~AllowMissing => \A v \in Applied' : v <= op'[w].version \/ v \in ToSet(plan'[w])
    BY <1>1, <1>2, <1>5, <1>9, <2>1, <2>2, <2>5
  <2> QED
    BY <1>1, <1>4, <1>9, <2>6 DEF Promised
<1> QED
  BY <1>4, <1>8, <1>9

LEMMA ProgressStep ==
    ASSUME Serial, ~DisableVersioning, ~AllowMissing => Ordered, Sound, PlansHold, Progress,
           [Next]_vars
    PROVE  Progress'
<1>1. CASE Applied' = Applied /\ ~(\E w \in Workers : Writing(w))
  <2> SUFFICES ASSUME NEW w \in Workers
               PROVE  /\ Planned(w)' => Promised(w)'
                      /\ Succeeded(w)' => Promised(w)' /\ (op'[w].kind \in {"up", "upTo", "downTo"}
                                                            => plan'[w] = <<>>)
    BY DEF Progress
  <2>1. CASE Still(w)
    BY <1>1, <2>1 DEF Still, Planned, Promised, Succeeded, Progress, Known
  <2>2. CASE Leaves(w)
    BY <2>2 DEF Leaves, Planned, Succeeded
  <2>3. CASE Ends(w)
    <3>1. Succeeded(w)' => Planned(w) /\ plan[w] = <<>>
      BY <2>3 DEF Ends, Succeeded, Planned
    <3>2. Planned(w) => Promised(w)
      BY DEF Progress
    <3>3. Promised(w) => Promised(w)'
      BY <1>1, <2>3 DEF Ends, Promised, Known
    <3> QED
      BY <2>3, <3>1, <3>2, <3>3 DEF Ends, Planned
  <2>4. CASE Decide(w)
    <3>1. pc'[w] \in {"prepare", "cleanup"} /\ op' = op
      BY <2>4, WorkEffect DEF Sound
    <3>2. op[w].kind \notin {"up", "upTo", "downTo"} => Promised(w)'
      BY <3>1 DEF Promised
    <3> QED
      BY <2>4, <3>1, <3>2, DecidedPromised DEF Planned, Succeeded
  <2>5. CASE Prepare(w) \/ Stating(w)
    <3>1. /\ Planned(w) /\ op' = op /\ plan' = plan /\ done' = done
          /\ pc'[w] = "cleanup" => ret'[w] # "ok"
      BY <2>5, WorkEffect DEF Planned, Sound, Stating
    <3>2. Promised(w)
      BY <3>1 DEF Progress
    <3> QED
      BY <1>1, <3>1, <3>2 DEF Promised, Succeeded, Known
  <2> QED
    BY <1>1, <2>1, <2>2, <2>3, <2>4, <2>5, LocalCases DEF Sound
<1>2. ASSUME NEW w \in Workers, Writing(w) PROVE Progress'
  <2> DEFINE v == NextUp(w)
             u == IsUp(op[w])
  <2>1. /\ Planned(w) /\ phase[w] = "run" /\ plan[w] # <<>> /\ v \in Versions
        /\ pc'[w] \in {"run", "cleanup"}
        /\ pc'[w] = "run" => /\ rows' = Recorded(v, u)
                             /\ plan'[w] = Tail(plan[w])
                             /\ done'[w] = Append(done[w], v)
        /\ pc'[w] = "cleanup" => ret'[w] = "partial"
    BY <1>2, WritingEffect DEF Sound
  <2>2. op' = op /\ \A x \in Workers \ {w} : Still(x) /\ ~InCharge(x)
    BY <1>2, <2>1, WorkEffect, Alone DEF Sound, InCharge, Planned
  <2>3. \A x \in Workers \ {w} : ~Planned(x) /\ ~Succeeded(x)
    <3>1. \A x \in Workers : Planned(x) => phase[x] = "run"
      BY DEF Sound, TypeOK, Locals
    <3> QED
      BY <2>2, <3>1 DEF InCharge, Planned, Succeeded
  <2>4. \A x \in Workers \ {w} : ~Planned(x)' /\ ~Succeeded(x)'
    BY <2>2, <2>3 DEF Still, Planned, Succeeded
  <2>5. ~Succeeded(w)'
    BY <2>1 DEF Succeeded
  <2>6. Promised(w) /\ Fits(w)
    BY <2>1 DEF Progress, PlansHold
  <2>7. ASSUME pc'[w] = "run" PROVE Promised(w)'
    <3>1. Applied' = IF u THEN Applied \cup {v} ELSE Applied \ {v}
      BY <2>1, <2>7, RowsChanged
    <3>2. /\ ToSet(plan[w]) = {v} \cup ToSet(plan'[w])
          /\ ToSet(done'[w]) = ToSet(done[w]) \cup {v}
      BY <2>1, <2>6, <2>7, PlanShorter
    <3>3. op[w].kind \in {"up", "upTo"} => u
      BY DEF IsUp, UpKinds
    <3>4. op[w].kind = "downTo" => ~u
      BY DEF IsUp, UpKinds
    <3> HIDE DEF v, u
    <3>5. ASSUME op[w].kind \in {"up", "upTo"}
          PROVE  /\ \A x \in Known(w) : x <= Target(op[w]) => x \in Applied' \cup ToSet(plan'[w])
                 /\ \A x \in ToSet(done'[w]) \cup ToSet(plan'[w]) : x <= Target(op[w])
      BY <2>6, <3>1, <3>2, <3>3, <3>5 DEF Promised
    <3>6. ASSUME op[w].kind = "downTo"
          PROVE  /\ \A x \in ToSet(done'[w]) \cup ToSet(plan'[w]) : x > op[w].version
                 /\ ~AllowMissing =>
                       \A x \in Applied' : x <= op[w].version \/ x \in ToSet(plan'[w])
      BY <2>6, <3>1, <3>2, <3>4, <3>6 DEF Promised
    <3> QED
      BY <2>2, <3>5, <3>6 DEF Promised, Known
  <2>8. Planned(w)' => Promised(w)'
    BY <2>1, <2>7 DEF Planned
  <2> QED
    BY <2>4, <2>5, <2>8 DEF Progress
<1>3. CASE rows' \in {rows, Append(rows, 0)}
  <2>1. ToSet(rows') \in {ToSet(rows), ToSet(rows) \cup {0}}
    BY <1>3, ZeroAppended DEF Sound
  <2> QED
    BY <1>1, <1>2, <2>1 DEF Applied
<1>4. ASSUME NEW w \in Workers, Stating(w) PROVE UNCHANGED rows
  BY <1>4, WorkEffect DEF Sound
<1>5. ASSUME NEW p \in Providers, Crash(p) PROVE UNCHANGED rows
  BY <1>5 DEF Crash
<1> QED
  BY <1>2, <1>3, <1>4, <1>5, DatabaseCases DEF Sound

\* A successful Up (UpTo) leaves no migration of its Provider (up to the
\* version) unapplied, a successful DownTo none above the version applied, and
\* neither has run anything beyond it, as long as calls cannot run side by side
\* and the history is in order or need not be.
THEOREM CallIsCompleteCorrect ==
    ASSUME Serial, ~DisableVersioning, AllowMissing \/ NoApplyUp
    PROVE  Spec => []CallIsComplete
<1> DEFINE Inv == PlansHold /\ (~AllowMissing => Ordered) /\ Progress
<1>1. Init => Inv
  BY DEF Init, PlansHold, Planned, IsInjective, Ordered, Progress, Succeeded
<1>2. Sound /\ Inv /\ [Next]_vars => Inv'
  BY PlansHoldStep, OrderedStep, ProgressStep
<1>3. Sound /\ Inv => CallIsComplete
  BY DEF Progress, Promised, Succeeded, CallIsComplete, ToSet
<1> HIDE DEF Inv
<1> QED
  BY <1>1, <1>2, <1>3, SoundInit, SoundStep, PTL DEF Spec
=============================================================================
