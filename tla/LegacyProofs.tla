---------------------------- MODULE LegacyProofs ----------------------------
(***************************************************************************)
(* Proofs about Legacy, for every number of processes and versions, every  *)
(* set of files and calls, failures and crashes included.                  *)
(***************************************************************************)
EXTENDS Legacy, VersionListsProofs

PCs == {"idle", "ensure", "create", "list", "run", "record", "final", "done"}

Entry == [version : Versions, up : BOOLEAN]
Recordable == Versions \cup {0}

TypeOK ==
    /\ table \in BOOLEAN
    /\ rows \in Seq(Recordable)
    /\ schema \in SUBSET Versions
    /\ disturbed \in SUBSET Versions
    /\ noVersioning \in [Processes -> SUBSET Versions]
    /\ pc \in [Processes -> PCs]
    /\ op \in [Processes -> Op \cup {NoOp}]
    /\ plan \in [Processes -> Seq(Entry)]
    /\ start \in [Processes -> Seq(Recordable)]
    /\ ret \in [Processes -> {"none", "ok", "err", "noNext"}]

\* What the variables of a call hold in its places, and that calls which run
\* migrations do not overlap.
Locals ==
    /\ \A p \in Processes :
        /\ pc[p] # "idle" => op[p] \in Ops[p]
        /\ pc[p] \in {"ensure", "create", "list", "record", "final"} => ~op[p].noVersioning
        /\ pc[p] = "list" => op[p].kind \in UpKinds \cup {"reset"}
        /\ pc[p] = "final" => op[p].kind \in UpKinds
        /\ pc[p] \in {"ensure", "create"} => op[p].kind # "reset"
        /\ pc[p] = "record" => plan[p] # <<>>
        /\ plan[p] # <<>> /\ pc[p] \in {"run", "record"} => Alone(op[p])
    /\ \A p, q \in Processes :
        pc[p] # "idle" /\ pc[q] # "idle" /\ Alone(op[p]) /\ Alone(op[q]) => p = q

\* The version table, also before it exists.
TableSound == RowsAreSound /\ (~table => rows = <<>>)

\* What a plan has in it.
Planned(s)  == {s[i].version : i \in DOMAIN s}
AllUp(s)    == \A i \in DOMAIN s : s[i].up
AllDown(s)  == \A i \in DOMAIN s : ~s[i].up
Distinct(s) == \A i, j \in DOMAIN s : s[i].version = s[j].version => i = j

DownOf(v) == [version |-> v, up |-> FALSE]
UpOf(v)   == [version |-> v, up |-> TRUE]

\* Redo: both directions, then only up, then nothing.
RedoPlan(p, s) ==
    \/ s = <<>>
    \/ \E v \in Versions : v \notin noVersioning[p] /\ s = <<DownOf(v), UpOf(v)>>
    \/ \E v \in Versions : v \notin ToSet(rows) /\ s = <<UpOf(v)>>

\* A call with versioning applies only what is not recorded.
FitsBy(p) ==
    pc[p] \in {"run", "record"} /\ ~op[p].noVersioning /\ plan[p] # <<>> =>
        /\ table
        /\ op[p].kind \in UpKinds =>
              /\ AllUp(plan[p]) /\ Distinct(plan[p])
              /\ \A v \in Planned(plan[p]) : v \notin ToSet(rows)
        /\ op[p].kind \in {"down", "downTo", "reset"} => AllDown(plan[p])
        /\ op[p].kind = "redo" => RedoPlan(p, plan[p])

Fits == \A p \in Processes : FitsBy(p)

\* Statements that wait for their version row are in effect, or no longer.
AtRecord ==
    \A p \in Processes :
        pc[p] = "record" => (Next1(p).version \in schema <=> Next1(p).up)

\* A Go migration keeps noVersioning from a call that ran it without versioning.
Sticky == \A p \in Processes : noVersioning[p] \subseteq disturbed

-----------------------------------------------------------------------------
(* Constants and plans *)

\* The versions are positive numbers, and every set of files is finite.
LEMMA VersionFacts ==
    /\ Versions \in SUBSET Nat /\ 0 \notin Versions /\ MaxVersion \in Nat
    /\ \A v \in Versions : v <= MaxVersion
    /\ \A p \in Processes : Files[p] \subseteq Versions
    /\ \A S \in SUBSET Versions : IsFiniteSet(S)
<1>1. \A p \in Processes : Files[p] \subseteq 1..MaxVersion
  BY LegacyAssumption
<1>2. Versions \subseteq 1..MaxVersion
  BY <1>1 DEF Versions
<1>3. MaxVersion \in Nat
  BY LegacyAssumption
<1>4. IsFiniteSet(1..MaxVersion)
  BY <1>3, FS_Interval
<1>5. \A S \in SUBSET Versions : IsFiniteSet(S)
  BY <1>2, <1>4, FS_Subset
<1>6. \A p \in Processes : Files[p] \subseteq Versions
  BY DEF Versions
<1> QED
  BY <1>2, <1>3, <1>5, <1>6

\* A plan made of a list of versions.
LEMMA RunProperties ==
    ASSUME NEW s \in Seq(Versions), NEW u \in BOOLEAN
    PROVE  /\ Run(s, u) \in Seq(Entry)
           /\ Planned(Run(s, u)) = ToSet(s)
           /\ u => AllUp(Run(s, u))
           /\ ~u => AllDown(Run(s, u))
           /\ IsInjective(s) => Distinct(Run(s, u))
           /\ Run(s, u) = <<>> <=> s = <<>>
<1> DEFINE r == Run(s, u)
<1>1. Len(s) \in Nat /\ DOMAIN s = 1..Len(s) /\ \A i \in 1..Len(s) : s[i] \in Versions
  BY LenProperties
<1>2. r = [i \in 1..Len(s) |-> [version |-> s[i], up |-> u]]
  BY <1>1 DEF Run
<1>3. r \in Seq(Entry) /\ Len(r) = Len(s) /\ DOMAIN r = 1..Len(s)
  <2>1. \A i \in 1..Len(s) : [version |-> s[i], up |-> u] \in Entry
    BY <1>1 DEF Entry
  <2>2. r \in Seq(Entry)
    BY <1>1, <1>2, <2>1, IsASeq
  <2>3. DOMAIN r = 1..Len(s)
    BY <1>2
  <2> QED
    BY <1>1, <2>2, <2>3, LenProperties
<1>4. \A i \in 1..Len(s) : r[i].version = s[i] /\ r[i].up = u
  BY <1>2
<1> HIDE DEF r
<1>5. Planned(r) = ToSet(s)
  BY <1>1, <1>3, <1>4 DEF Planned, ToSet
<1>6. (u => AllUp(r)) /\ (~u => AllDown(r)) /\ (IsInjective(s) => Distinct(r))
  BY <1>1, <1>3, <1>4 DEF AllUp, AllDown, Distinct, IsInjective
<1>7. r = <<>> <=> s = <<>>
  BY <1>3, EmptySeq
<1> QED
  BY <1>3, <1>5, <1>6, <1>7 DEF r

\* What is left of a plan after its first migration.
LEMMA PlanTail ==
    ASSUME NEW s \in Seq(Entry), s # <<>>
    PROVE  /\ Head(s) \in Entry /\ Tail(s) \in Seq(Entry)
           /\ Planned(s) = {Head(s).version} \cup Planned(Tail(s))
           /\ AllUp(s) => Head(s).up /\ AllUp(Tail(s))
           /\ AllDown(s) => ~Head(s).up /\ AllDown(Tail(s))
           /\ Distinct(s) => Distinct(Tail(s)) /\ Head(s).version \notin Planned(Tail(s))
<1> DEFINE t == Tail(s)
           n == Len(s)
<1>1. n \in Nat \ {0} /\ DOMAIN s = 1..n /\ Head(s) = s[1] /\ \A i \in 1..n : s[i] \in Entry
  BY LenProperties, EmptySeq
<1>2. t \in Seq(Entry) /\ Len(t) = n - 1 /\ \A i \in 1..(n - 1) : t[i] = s[i + 1]
  BY HeadTailProperties
<1>3. DOMAIN t = 1..(n - 1)
  BY <1>2, LenProperties
<1> HIDE DEF t, n
<1>4. \A i \in 1..(n - 1) : i + 1 \in 1..n /\ i + 1 # 1
  BY <1>1
<1>5. \A j \in 1..n : j # 1 => j - 1 \in 1..(n - 1) /\ (j - 1) + 1 = j
  BY <1>1
<1>6. 1 \in 1..n
  BY <1>1
<1>7. ASSUME NEW j \in 1..n PROVE s[j].version \in {s[1].version} \cup Planned(t)
  <2>1. CASE j = 1
    BY <2>1
  <2>2. CASE j # 1
    <3>1. t[j - 1] = s[j] /\ j - 1 \in DOMAIN t
      BY <2>2, <1>2, <1>3, <1>5
    <3> QED
      BY <3>1 DEF Planned
  <2> QED
    BY <2>1, <2>2
<1>8. \A i \in 1..(n - 1) : t[i].version \in Planned(s)
  BY <1>1, <1>2, <1>4 DEF Planned
<1>9. Planned(s) = {Head(s).version} \cup Planned(t)
  BY <1>1, <1>3, <1>6, <1>7, <1>8 DEF Planned
<1>10. /\ AllUp(s) => Head(s).up /\ AllUp(t)
       /\ AllDown(s) => ~Head(s).up /\ AllDown(t)
  BY <1>1, <1>2, <1>3, <1>4, <1>6 DEF AllUp, AllDown
<1>11. ASSUME Distinct(s) PROVE Distinct(t) /\ Head(s).version \notin Planned(t)
  <2>1. Distinct(t)
    <3> SUFFICES ASSUME NEW i \in 1..(n - 1), NEW j \in 1..(n - 1),
                        t[i].version = t[j].version
                 PROVE  i = j
      BY <1>3 DEF Distinct
    <3>1. s[i + 1].version = s[j + 1].version /\ i + 1 \in 1..n /\ j + 1 \in 1..n
      BY <1>2, <1>4
    <3>2. i + 1 = j + 1
      BY <3>1, <1>1, <1>11 DEF Distinct
    <3> QED
      BY <3>2, <1>1
  <2>2. ASSUME NEW i \in 1..(n - 1), t[i].version = s[1].version PROVE FALSE
    BY <2>2, <1>1, <1>2, <1>4, <1>6, <1>11 DEF Distinct
  <2> QED
    BY <2>1, <2>2, <1>1, <1>3 DEF Planned
<1> QED
  BY <1>1, <1>2, <1>6, <1>9, <1>10, <1>11 DEF t

\* The plans of one version.
LEMMA SinglePlans ==
    ASSUME NEW v \in Versions
    PROVE  /\ Run(<<v>>, TRUE) = <<UpOf(v)>>
           /\ Run(<<v>>, FALSE) = <<DownOf(v)>>
           /\ Run(<<v>>, FALSE) \o Run(<<v>>, TRUE) = <<DownOf(v), UpOf(v)>>
           /\ <<UpOf(v)>> \in Seq(Entry) /\ <<DownOf(v)>> \in Seq(Entry)
           /\ <<DownOf(v), UpOf(v)>> \in Seq(Entry)
           /\ Head(<<UpOf(v)>>) = UpOf(v) /\ Tail(<<UpOf(v)>>) = <<>>
           /\ Head(<<DownOf(v)>>) = DownOf(v) /\ Tail(<<DownOf(v)>>) = <<>>
           /\ Head(<<DownOf(v), UpOf(v)>>) = DownOf(v)
           /\ Tail(<<DownOf(v), UpOf(v)>>) = <<UpOf(v)>>
           /\ AllDown(<<DownOf(v)>>)
<1> DEFINE d == DownOf(v)
           u == UpOf(v)
<1>1. d \in Entry /\ u \in Entry /\ ~d.up /\ <<v>> \in Seq(Versions)
  BY DEF DownOf, UpOf, Entry
<1>2. Run(<<v>>, TRUE) = <<u>> /\ Run(<<v>>, FALSE) = <<d>>
  <2>1. DOMAIN <<v>> = 1..1 /\ <<v>>[1] = v /\ 1..1 = {1}
    OBVIOUS
  <2>2. Run(<<v>>, TRUE) = [i \in {1} |-> u] /\ Run(<<v>>, FALSE) = [i \in {1} |-> d]
    BY <2>1 DEF Run, DownOf, UpOf
  <2>3. \A x : <<x>> = [i \in 1..1 |-> x]
    OBVIOUS
  <2> QED
    BY <2>1, <2>2, <2>3
<1> HIDE DEF d, u
<1>3. <<u>> \in Seq(Entry) /\ <<d>> \in Seq(Entry) /\ <<d, u>> \in Seq(Entry)
  BY <1>1
<1>4. <<d>> \o <<u>> = <<d, u>>
  <2>1. /\ <<d>> \o <<u>> \in Seq(Entry) /\ Len(<<d>> \o <<u>>) = 2
        /\ (<<d>> \o <<u>>)[1] = d /\ (<<d>> \o <<u>>)[2] = u
    <3>1. Len(<<d>>) = 1 /\ Len(<<u>>) = 1 /\ <<d>>[1] = d /\ <<u>>[1] = u
      OBVIOUS
    <3>2. 1 \in 1..(1 + 1) /\ 2 \in 1..(1 + 1) /\ 1 <= 1 /\ ~(2 <= 1) /\ 2 - 1 = 1 /\ 1 + 1 = 2
      OBVIOUS
    <3> QED
      BY <1>3, <3>1, <3>2, ConcatProperties
  <2>2. Len(<<d, u>>) = 2 /\ <<d, u>>[1] = d /\ <<d, u>>[2] = u
    OBVIOUS
  <2>3. \A i \in 1..2 : (<<d>> \o <<u>>)[i] = <<d, u>>[i]
    <3>1. 1..2 = {1, 2}
      OBVIOUS
    <3> QED
      BY <2>1, <2>2, <3>1
  <2> QED
    BY <1>3, <2>1, <2>2, <2>3, SeqEqual
<1>5. /\ Head(<<u>>) = u /\ Tail(<<u>>) = <<>> /\ Head(<<d>>) = d /\ Tail(<<d>>) = <<>>
      /\ Head(<<d, u>>) = d /\ Tail(<<d, u>>) = <<u>>
  BY <1>1
<1>6. AllDown(<<d>>)
  BY <1>1 DEF AllDown
<1> QED
  BY <1>2, <1>3, <1>4, <1>5, <1>6 DEF d, u

\* insertOrDeleteVersion on a sound version table.
LEMMA RecordedProperties ==
    ASSUME TypeOK, NEW m \in Entry
    PROVE  /\ Recorded(m) \in Seq(Recordable)
           /\ m.up => ToSet(Recorded(m)) = ToSet(rows) \cup {m.version}
           /\ ~m.up => ToSet(Recorded(m)) = ToSet(rows) \ {m.version}
           /\ TableSound /\ table /\ (m.up => m.version \notin ToSet(rows)) =>
                 /\ Recorded(m) # <<>> /\ Recorded(m)[1] = 0 /\ IsInjective(Recorded(m))
<1> DEFINE v == m.version
<1>1. /\ v \in Recordable /\ v # 0 /\ m.up \in BOOLEAN /\ rows \in Seq(Recordable)
      /\ TableSound /\ table => rows # <<>> /\ rows[1] = 0 /\ IsInjective(rows)
  BY VersionFacts DEF TypeOK, Entry, Recordable, TableSound, RowsAreSound
<1> HIDE DEF v
<1>2. CASE m.up
  <2>1. Recorded(m) = Append(rows, v)
    BY <1>2 DEF Recorded, v
  <2>2. /\ Append(rows, v) \in Seq(Recordable) /\ Append(rows, v) # <<>>
        /\ rows # <<>> => Append(rows, v)[1] = rows[1]
    <3>1. Len(rows) \in Nat /\ (rows # <<>> => 1 \in 1..Len(rows))
      BY <1>1, LenProperties, EmptySeq
    <3>2. /\ Append(rows, v) \in Seq(Recordable) /\ Len(Append(rows, v)) = Len(rows) + 1
          /\ \A i \in 1..Len(rows) : Append(rows, v)[i] = rows[i]
      BY <1>1, AppendProperties
    <3>3. Len(Append(rows, v)) # 0
      BY <3>1, <3>2
    <3> QED
      BY <3>1, <3>2, <3>3, EmptySeq
  <2>3. /\ ToSet(Append(rows, v)) = ToSet(rows) \cup {v}
        /\ IsInjective(rows) /\ v \notin ToSet(rows) => IsInjective(Append(rows, v))
    BY <1>1, ElementsAppend
  <2> QED
    BY <1>1, <1>2, <2>1, <2>2, <2>3 DEF v
<1>3. CASE ~m.up
  <2>1. Recorded(m) = Without(rows, v)
    BY <1>3 DEF Recorded, v
  <2>2. /\ Without(rows, v) \in Seq(Recordable) /\ ToSet(Without(rows, v)) = ToSet(rows) \ {v}
        /\ IsInjective(rows) => IsInjective(Without(rows, v))
    BY <1>1, WithoutProperties
  <2>3. IsInjective(rows) /\ rows # <<>> /\ rows[1] = 0
        => Without(rows, v) # <<>> /\ Without(rows, v)[1] = 0
    BY <1>1, WithoutKeepsFirst
  <2> QED
    BY <1>1, <1>3, <2>1, <2>2, <2>3 DEF v
<1> QED
  BY <1>1, <1>2, <1>3

\* The newest row is a row, and a version or 0.
LEMMA LastRow ==
    ASSUME NEW s \in Seq(Recordable), s # <<>>
    PROVE  Last(s) \in ToSet(s) /\ Last(s) \in Recordable
<1>1. /\ Len(s) \in Nat /\ DOMAIN s = 1..Len(s) /\ Len(s) # 0
      /\ \A i \in 1..Len(s) : s[i] \in Recordable
  BY LenProperties, EmptySeq
<1>2. Len(s) \in 1..Len(s)
  BY <1>1
<1> QED
  BY <1>1, <1>2 DEF Last, ToSet

\* Plans of the calls without versioning are plans.
LEMMA NoVersioningPlanType ==
    ASSUME NEW p \in Processes, NEW o \in Ops[p], ~NoFiles(p, o), o.noVersioning
    PROVE  NoVersioningPlan(p, o) \in Seq(Entry)
<1> DEFINE found == Found(p, o.target)
           last  == <<Max(Files[p])>>
<1>1. o \in Op /\ (o.kind \in UpKinds \ {"upTo"} => o.target = MaxVersion)
  BY LegacyAssumption
<1>2. found \subseteq Versions /\ Files[p] \subseteq Versions /\ Files[p] \ found \subseteq Versions
  BY VersionFacts DEF Found
<1>3. \A S \in SUBSET Versions :
          /\ Run(Ascending(S), TRUE) \in Seq(Entry)
          /\ Run(Descending(S), FALSE) \in Seq(Entry)
  <2> SUFFICES ASSUME NEW S \in SUBSET Versions
               PROVE  /\ Run(Ascending(S), TRUE) \in Seq(Entry)
                      /\ Run(Descending(S), FALSE) \in Seq(Entry)
    OBVIOUS
  <2>1. S \in SUBSET Nat /\ IsFiniteSet(S)
    BY VersionFacts
  <2>2. Ascending(S) \in Seq(S) /\ Descending(S) \in Seq(S)
    BY <2>1, SortedOnce
  <2>3. Ascending(S) \in Seq(Versions) /\ Descending(S) \in Seq(Versions)
    BY <2>2
  <2> QED
    BY <2>3, RunProperties
<1>4. o.kind \in {"upByOne", "down", "redo"} => Max(Files[p]) \in Versions
  <2> SUFFICES ASSUME o.kind \in {"upByOne", "down", "redo"} PROVE Max(Files[p]) \in Versions
    OBVIOUS
  <2>1. Files[p] # {}
    BY DEF NoFiles, Found, UpKinds
  <2>2. Files[p] \in SUBSET Nat /\ \A x \in Files[p] : x <= MaxVersion
    BY <1>2, VersionFacts
  <2>3. Max(Files[p]) \in Files[p]
    BY <2>1, <2>2, VersionFacts, MaxMinProperties
  <2> QED
    BY <2>3, <1>2
<1>5. o.kind = "upByOne" => Min(found) \in Versions
  <2> SUFFICES ASSUME o.kind = "upByOne" PROVE Min(found) \in Versions
    OBVIOUS
  <2>1. found # {}
    BY DEF NoFiles, UpKinds
  <2>2. found \in SUBSET Nat /\ \A x \in found : x <= MaxVersion
    BY <1>2, VersionFacts
  <2>3. Min(found) \in found
    BY <2>1, <2>2, VersionFacts, MaxMinProperties
  <2> QED
    BY <2>3, <1>2
<1> HIDE DEF found
<1>6. CASE o.kind \in {"up", "upTo"}
  BY <1>2, <1>3, <1>6 DEF NoVersioningPlan, found
<1>7. CASE o.kind = "upByOne"
  <2>1. <<Min(found)>> \in Seq(Versions)
    BY <1>5, <1>7
  <2>2. Run(<<Min(found)>>, TRUE) \in Seq(Entry)
    BY <2>1, RunProperties
  <2> QED
    BY <2>2, <1>7 DEF NoVersioningPlan, found
<1>8. CASE o.kind = "down"
  <2>1. last \in Seq(Versions)
    BY <1>4, <1>8
  <2> QED
    BY <2>1, <1>8, RunProperties DEF NoVersioningPlan
<1>9. CASE o.kind = "redo"
  <2>1. last \in Seq(Versions)
    BY <1>4, <1>9
  <2>2. Run(last, FALSE) \in Seq(Entry) /\ Run(last, TRUE) \in Seq(Entry)
    BY <2>1, RunProperties
  <2>3. Run(last, FALSE) \o Run(last, TRUE) \in Seq(Entry)
    BY <2>2, ConcatProperties
  <2> QED
    BY <2>3, <1>9 DEF NoVersioningPlan, Redo
<1>10. CASE o.kind = "downTo"
  BY <1>2, <1>3, <1>10 DEF NoVersioningPlan, found
<1>11. CASE o.kind = "reset"
  BY <1>2, <1>3, <1>11 DEF NoVersioningPlan, found
<1>12. CASE o.kind \in {"status", "version"}
  BY <1>12, EmptySeq DEF NoVersioningPlan
<1> QED
  BY <1>1, <1>6, <1>7, <1>8, <1>9, <1>10, <1>11, <1>12 DEF Op, UpKinds

\* What Reset plans: every recorded version that it has a file of.
LEMMA ResetPlan ==
    ASSUME NEW p \in Processes
    PROVE  /\ Run(Descending(Files[p] \cap ToSet(rows)), FALSE) \in Seq(Entry)
           /\ AllDown(Run(Descending(Files[p] \cap ToSet(rows)), FALSE))
           /\ Planned(Run(Descending(Files[p] \cap ToSet(rows)), FALSE))
                = Files[p] \cap ToSet(rows)
<1> DEFINE S == Files[p] \cap ToSet(rows)
<1>1. S \in SUBSET Versions
  BY VersionFacts
<1> HIDE DEF S
<1>2. S \in SUBSET Nat /\ IsFiniteSet(S)
  BY <1>1, VersionFacts
<1>3. Descending(S) \in Seq(S) /\ ToSet(Descending(S)) = S
  BY <1>2, SortedOnce
<1>4. Descending(S) \in Seq(Versions)
  BY <1>1, <1>3
<1> QED
  BY <1>3, <1>4, RunProperties DEF S

\* What Up, UpByOne and UpTo plan: every file up to the target that is not
\* recorded, or the first of them, each once.
LEMMA UpPlanProperties ==
    ASSUME TypeOK, NEW p \in Processes, op[p] \in Op, op[p].kind \in UpKinds, rows # <<>>
    PROVE  /\ UpPlan(p) \in Seq(Entry)
           /\ AllUp(UpPlan(p)) /\ Distinct(UpPlan(p))
           /\ \A v \in Planned(UpPlan(p)) : v \in Found(p, op[p].target) /\ v \notin ToSet(rows)
           /\ op[p].kind # "upByOne" \/ UpPlan(p) = <<>> =>
                 \A v \in Found(p, op[p].target) : v \in ToSet(rows) \/ v \in Planned(UpPlan(p))
           /\ op[p].kind = "upByOne" /\ UpPlan(p) # <<>> =>
                 \E v \in Found(p, op[p].target) : v \notin ToSet(rows) /\ UpPlan(p) = <<UpOf(v)>>
<1> DEFINE A == findMissingMigrations(p)
           B == NewMigrations(p)
           a == Ascending(A)
           b == Ascending(B)
           all == a \o b
           F == Found(p, op[p].target)
<1>1. F \subseteq Versions /\ A \subseteq F /\ B \subseteq F
  BY VersionFacts DEF Found, findMissingMigrations, NewMigrations
<1>2. ToSet(rows) # {} /\ ToSet(rows) \subseteq Recordable
  BY ElementsTyped DEF TypeOK
<1>3. Max(ToSet(rows)) \in ToSet(rows) /\ Max(ToSet(rows)) \in Nat
  <2>1. ToSet(rows) \in SUBSET Nat /\ \A x \in ToSet(rows) : x <= MaxVersion
    BY <1>2, VersionFacts DEF Recordable
  <2> QED
    BY <1>2, <2>1, VersionFacts, MaxMinProperties
<1>4. /\ \A v \in F : v \in A <=> v \notin ToSet(rows) /\ v < Max(ToSet(rows))
      /\ \A v \in F : v \in B <=> v \notin ToSet(rows) /\ v > Max(ToSet(rows))
  BY DEF findMissingMigrations, NewMigrations
<1>5. \A v \in F : v \in Nat
  BY <1>1, VersionFacts
<1>6. \A v \in F : v \in ToSet(rows) \/ v \in A \/ v \in B
  BY <1>3, <1>4, <1>5
<1>7. A \cap B = {}
  BY <1>1, <1>3, <1>4, <1>5
<1>8. /\ a \in Seq(Versions) /\ ToSet(a) = A /\ IsInjective(a)
      /\ b \in Seq(Versions) /\ ToSet(b) = B /\ IsInjective(b)
  <2>1. A \in SUBSET Versions /\ B \in SUBSET Versions
    BY <1>1
  <2>2. A \in SUBSET Nat /\ IsFiniteSet(A) /\ B \in SUBSET Nat /\ IsFiniteSet(B)
    BY <2>1, VersionFacts
  <2> HIDE DEF A, B
  <2>3. /\ a \in Seq(A) /\ ToSet(a) = A /\ IsInjective(a)
        /\ b \in Seq(B) /\ ToSet(b) = B /\ IsInjective(b)
    BY <2>2, SortedOnce
  <2> QED
    BY <2>1, <2>3
<1> HIDE DEF A, B, a, b, F
<1>9. all \in Seq(Versions) /\ ToSet(all) = A \cup B /\ IsInjective(all)
  BY <1>7, <1>8, ElementsConcat
<1>10. UpPlan(p) = Run(IF op[p].kind = "upByOne" /\ all # <<>> THEN <<Head(all)>> ELSE all, TRUE)
  BY DEF UpPlan, a, b, A, B
<1> HIDE DEF all
<1>11. \A v \in ToSet(all) : v \in F /\ v \notin ToSet(rows)
  BY <1>1, <1>4, <1>9
<1>12. CASE op[p].kind = "upByOne" /\ all # <<>>
  <2>1. Head(all) \in ToSet(all) /\ Head(all) \in Versions
    BY <1>9, <1>12, ElementsTyped
  <2>2. UpPlan(p) = <<UpOf(Head(all))>> /\ <<UpOf(Head(all))>> # <<>>
    BY <2>1, <1>10, <1>12, SinglePlans
  <2>3. <<Head(all)>> \in Seq(Versions) /\ IsInjective(<<Head(all)>>)
        /\ ToSet(<<Head(all)>>) = {Head(all)}
    BY <2>1 DEF IsInjective, ToSet
  <2>4. /\ UpPlan(p) \in Seq(Entry) /\ AllUp(UpPlan(p)) /\ Distinct(UpPlan(p))
        /\ Planned(UpPlan(p)) = {Head(all)}
    BY <2>3, <1>10, <1>12, RunProperties
  <2> QED
    BY <2>1, <2>2, <2>4, <1>11, <1>12 DEF F
<1>13. CASE ~(op[p].kind = "upByOne" /\ all # <<>>)
  <2>1. UpPlan(p) = Run(all, TRUE)
    BY <1>10, <1>13
  <2>2. /\ UpPlan(p) \in Seq(Entry) /\ AllUp(UpPlan(p)) /\ Distinct(UpPlan(p))
        /\ Planned(UpPlan(p)) = ToSet(all) /\ (UpPlan(p) = <<>> <=> all = <<>>)
    BY <2>1, <1>9, RunProperties
  <2> QED
    BY <2>2, <1>6, <1>9, <1>11, <1>13 DEF F
<1> QED
  BY <1>12, <1>13

-----------------------------------------------------------------------------
(* The steps, in short *)

\* The call of p goes on at l with the plan s, and returns r if l is "done".
Goes(p, l, s, r) ==
    /\ pc' = [pc EXCEPT ![p] = l]
    /\ plan' = [plan EXCEPT ![p] = s]
    /\ ret' = [ret EXCEPT ![p] = r]

\* What a call does with the current version.
EnsuredEffect(p, cur) ==
    \/ /\ op[p].kind \in UpKinds /\ pc[p] # "final"
       /\ Goes(p, "list", plan[p], ret[p]) /\ noVersioning' = noVersioning
    \/ /\ op[p].kind \in UpKinds /\ pc[p] = "final" /\ noVersioning' = noVersioning
       /\ \E r \in {"ok", "noNext"} :
             Goes(p, "done", plan[p], r) /\ (r = "ok" => op[p].kind # "upByOne")
    \/ /\ op[p].kind \in {"status", "version"} /\ noVersioning' = noVersioning
       /\ \E r \in {"ok", "err"} : Goes(p, "done", plan[p], r)
    \/ /\ op[p].kind = "downTo" /\ cur <= op[p].target
       /\ Goes(p, "done", plan[p], "ok") /\ noVersioning' = noVersioning
    \/ /\ op[p].kind \in {"down", "downTo", "redo"}
       /\ Goes(p, "done", plan[p], "err") /\ noVersioning' = noVersioning
    \/ /\ op[p].kind \in {"down", "downTo"} /\ cur \in Files[p]
       /\ op[p].kind = "downTo" => cur > op[p].target
       /\ Goes(p, "run", <<DownOf(cur)>>, ret[p]) /\ noVersioning' = noVersioning
    \/ /\ op[p].kind = "redo" /\ cur \in Files[p]
       /\ Goes(p, "run", <<DownOf(cur), UpOf(cur)>>, ret[p])
       /\ noVersioning' = [noVersioning EXCEPT ![p] = @ \ {cur}]

LEMMA EnsuredCases ==
    ASSUME TypeOK, NEW p \in Processes, op[p] \in Op, NEW cur \in Recordable, Ensured(p, cur)
    PROVE  EnsuredEffect(p, cur)
<1>1. /\ plan = [plan EXCEPT ![p] = plan[p]] /\ ret = [ret EXCEPT ![p] = ret[p]]
      /\ op[p].target \in Nat /\ cur \in Nat
  <2>1. plan = [plan EXCEPT ![p] = plan[p]] /\ ret = [ret EXCEPT ![p] = ret[p]]
    BY DEF TypeOK
  <2>2. op[p].target \in 0..MaxVersion /\ MaxVersion \in Nat
    BY LegacyAssumption DEF Op
  <2>3. cur \in Nat
    BY VersionFacts DEF Recordable
  <2> QED
    BY <2>1, <2>2, <2>3
<1>2. cur \in Files[p] =>
          /\ Run(<<cur>>, FALSE) = <<DownOf(cur)>>
          /\ Run(<<cur>>, FALSE) \o Run(<<cur>>, TRUE) = <<DownOf(cur), UpOf(cur)>>
  BY VersionFacts, SinglePlans
<1>3. CASE op[p].kind \in UpKinds
  <2>1. op[p].kind \notin {"status", "version", "down", "downTo", "redo"}
    BY <1>3 DEF UpKinds
  <2>2. \/ /\ pc[p] # "final" /\ Goto(p, "list") /\ UNCHANGED <<plan, noVersioning, ret>>
        \/ /\ pc[p] = "final" /\ UNCHANGED <<plan, noVersioning>>
           /\ Finish(p, IF op[p].kind = "upByOne" THEN "noNext" ELSE "ok")
    BY <2>1 DEF Ensured, Report
  <2> QED
    BY <1>1, <1>3, <2>2 DEF EnsuredEffect, Goes, Goto, Finish
<1>4. CASE op[p].kind \in {"status", "version"}
  <2>1. op[p].kind \notin UpKinds \cup {"down", "downTo", "redo"}
    BY <1>4 DEF UpKinds
  <2>2. UNCHANGED <<plan, noVersioning>> /\ (Finish(p, "ok") \/ Finish(p, "err"))
    BY <2>1 DEF Ensured, Report
  <2> QED
    BY <1>1, <1>4, <2>2 DEF EnsuredEffect, Goes, Goto, Finish
<1>5. CASE op[p].kind \in {"down", "downTo", "redo"}
  <2> DEFINE stop == op[p].kind = "downTo"
                     /\ (cur = 0 \/ (cur \in Files[p] /\ cur <= op[p].target))
  <2>1. op[p].kind \notin UpKinds \cup {"status", "version"}
    BY <1>5 DEF UpKinds
  <2>2. \/ stop /\ Finish(p, "ok") /\ UNCHANGED <<plan, noVersioning>>
        \/ Finish(p, "err") /\ UNCHANGED <<plan, noVersioning>>
        \/ /\ ~stop /\ cur \in Files[p]
           /\ plan' = [plan EXCEPT ![p] = IF op[p].kind = "redo" THEN Redo(cur)
                                          ELSE Run(<<cur>>, FALSE)]
           /\ noVersioning' = IF op[p].kind = "redo"
                              THEN [noVersioning EXCEPT ![p] = @ \ {cur}]
                              ELSE noVersioning
           /\ Goto(p, "run")
           /\ UNCHANGED ret
    BY <2>1 DEF Ensured, Report, WithCurrent
  <2>3. stop => op[p].kind = "downTo" /\ cur <= op[p].target
    BY <1>1
  <2>4. ~stop /\ cur \in Files[p] /\ op[p].kind = "downTo" => cur > op[p].target
    BY <1>1
  <2> HIDE DEF stop
  <2>5. CASE stop /\ Finish(p, "ok") /\ UNCHANGED <<plan, noVersioning>>
    BY <1>1, <2>3, <2>5 DEF EnsuredEffect, Goes, Goto, Finish
  <2>6. CASE Finish(p, "err") /\ UNCHANGED <<plan, noVersioning>>
    BY <1>1, <1>5, <2>6 DEF EnsuredEffect, Goes, Goto, Finish
  <2>7. CASE /\ ~stop /\ cur \in Files[p]
             /\ plan' = [plan EXCEPT ![p] = IF op[p].kind = "redo" THEN Redo(cur)
                                            ELSE Run(<<cur>>, FALSE)]
             /\ noVersioning' = IF op[p].kind = "redo"
                              THEN [noVersioning EXCEPT ![p] = @ \ {cur}]
                              ELSE noVersioning
             /\ Goto(p, "run")
             /\ UNCHANGED ret
    <3>1. CASE op[p].kind = "redo"
      BY <1>1, <1>2, <2>7, <3>1 DEF EnsuredEffect, Goes, Goto, Redo
    <3>2. CASE op[p].kind # "redo"
      <4>1. Goes(p, "run", <<DownOf(cur)>>, ret[p]) /\ noVersioning' = noVersioning
        BY <1>1, <1>2, <2>7, <3>2 DEF Goes, Goto
      <4> QED
        BY <1>5, <2>4, <2>7, <3>2, <4>1 DEF EnsuredEffect
    <3> QED
      BY <3>1, <3>2
  <2> QED
    BY <2>2, <2>5, <2>6, <2>7
<1> QED
  BY <1>3, <1>4, <1>5 DEF Ensured, Report

\* The migration a call is at.
LEMMA NextFacts ==
    ASSUME TypeOK, NEW p \in Processes, plan[p] # <<>>, op[p] \in Op
    PROVE  /\ Next1(p) \in Entry /\ Tail(plan[p]) \in Seq(Entry)
           /\ Next1(p).version \in Versions /\ Next1(p).up \in BOOLEAN
           /\ Recorded(Next1(p)) \in Seq(Recordable)
           /\ Executed(Next1(p)) \in SUBSET Versions
           /\ Parted(p, Next1(p).version) \in SUBSET Versions
           /\ Marked(p, Next1(p).version) \in [Processes -> SUBSET Versions]
<1>1. Next1(p) \in Entry /\ Tail(plan[p]) \in Seq(Entry)
  BY PlanTail DEF TypeOK, Next1
<1>2. Next1(p).version \in Versions /\ Next1(p).up \in BOOLEAN
  BY <1>1 DEF Entry
<1>3. Recorded(Next1(p)) \in Seq(Recordable)
  BY <1>1, RecordedProperties
<1>4. /\ Executed(Next1(p)) \in SUBSET Versions
      /\ Parted(p, Next1(p).version) \in SUBSET Versions
      /\ Marked(p, Next1(p).version) \in [Processes -> SUBSET Versions]
  BY <1>2 DEF TypeOK, Executed, Skipped, Parted, Marked
<1> QED
  BY <1>1, <1>2, <1>3, <1>4

\* A call that is under way is one of its process.
LEMMA CallFacts ==
    ASSUME TypeOK, Locals, NEW p \in Processes, pc[p] # "idle"
    PROVE  op[p] \in Ops[p] /\ op[p] \in Op /\ op[p].target \in Nat /\ op[p].target <= MaxVersion
           /\ op[p].noVersioning \in BOOLEAN
BY LegacyAssumption DEF Locals, Op

\* No step breaks the types.
LEMMA TypeStep ==
    ASSUME TypeOK, Locals, TableSound, [Next]_vars
    PROVE  TypeOK'
<1> USE DEF TypeOK, PCs
<1>a. /\ <<>> \in Seq(Entry) /\ <<>> \in Seq(Recordable) /\ <<0>> \in Seq(Recordable)
      /\ \A v \in Versions : <<DownOf(v)>> \in Seq(Entry) /\ <<DownOf(v), UpOf(v)>> \in Seq(Entry)
  <2>1. <<>> \in Seq(Entry) /\ <<>> \in Seq(Recordable)
    BY EmptySeq
  <2>2. 0 \in Recordable
    BY DEF Recordable
  <2>3. <<0>> \in Seq(Recordable)
    BY <2>2
  <2> QED
    BY <2>1, <2>3, SinglePlans
<1>1. ASSUME NEW p \in Processes, Call(p) PROVE TypeOK'
  <2>1. PICK o \in Ops[p] :
          /\ op' = [op EXCEPT ![p] = o]
          /\ \/ NoFiles(p, o) /\ Finish(p, "err") /\ UNCHANGED plan
             \/ /\ ~NoFiles(p, o) /\ o.noVersioning
                /\ plan' = [plan EXCEPT ![p] = NoVersioningPlan(p, o)]
                /\ Goto(p, "run") /\ UNCHANGED ret
             \/ /\ ~NoFiles(p, o) /\ ~o.noVersioning
                /\ Goto(p, IF o.kind = "reset" THEN "list" ELSE "ensure")
                /\ UNCHANGED <<plan, ret>>
    BY <1>1 DEF Call
  <2>2. o \in Op
    BY LegacyAssumption
  <2>3. start' = [start EXCEPT ![p] = rows] /\ UNCHANGED <<db, noVersioning>>
    BY <1>1 DEF Call
  <2>4. CASE NoFiles(p, o) /\ Finish(p, "err") /\ UNCHANGED plan
    BY <2>1, <2>2, <2>3, <2>4 DEF Finish, Goto, db
  <2>5. CASE /\ ~NoFiles(p, o) /\ o.noVersioning
             /\ plan' = [plan EXCEPT ![p] = NoVersioningPlan(p, o)]
             /\ Goto(p, "run") /\ UNCHANGED ret
    <3>1. NoVersioningPlan(p, o) \in Seq(Entry)
      BY <2>5, NoVersioningPlanType
    <3> QED
      BY <2>1, <2>2, <2>3, <2>5, <3>1 DEF Goto, db
  <2>6. CASE Goto(p, IF o.kind = "reset" THEN "list" ELSE "ensure") /\ UNCHANGED <<plan, ret>>
    BY <2>1, <2>2, <2>3, <2>6 DEF Goto, db
  <2> QED
    BY <2>1, <2>4, <2>5, <2>6
<1>2. ASSUME NEW p \in Processes, Return(p) PROVE TypeOK'
  BY <1>2, <1>a DEF Return, Forget, Goto, db
<1>3. ASSUME NEW p \in Processes, NEW cur \in Recordable, EnsuredEffect(p, cur),
             op' = op, start' = start, schema' = schema, disturbed' = disturbed,
             table' \in BOOLEAN, rows' \in Seq(Recordable)
      PROVE  TypeOK'
  <2>1. Files[p] \subseteq Versions
    BY VersionFacts
  <2>2. PICK l \in PCs, s \in Seq(Entry), r \in {"none", "ok", "err", "noNext"} : Goes(p, l, s, r)
    BY ZenonT(60), <1>3, <1>a, <2>1 DEF EnsuredEffect
  <2>3. noVersioning' \in [Processes -> SUBSET Versions]
    BY <1>3 DEF EnsuredEffect
  <2> QED
    BY <1>3, <2>2, <2>3 DEF Goes
<1>4. ASSUME NEW p \in Processes, EnsureDBVersion(p) PROVE TypeOK'
  <2>1. rows # <<>> /\ op[p] \in Op
    BY <1>4, CallFacts DEF EnsureDBVersion, TableSound, RowsAreSound
  <2>2. Last(rows) \in Recordable
    BY <2>1, LastRow
  <2>3. EnsuredEffect(p, Last(rows))
    BY <1>4, <2>1, <2>2, EnsuredCases DEF EnsureDBVersion
  <2> QED
    BY <1>3, <1>4, <2>2, <2>3 DEF EnsureDBVersion, db
<1>5. ASSUME NEW p \in Processes, createVersionTable(p) PROVE TypeOK'
  <2>1. op[p] \in Op /\ 0 \in Recordable
    BY <1>5, CallFacts DEF createVersionTable, Recordable
  <2>2. EnsuredEffect(p, 0)
    BY <1>5, <2>1, EnsuredCases DEF createVersionTable
  <2> QED
    BY <1>3, <1>5, <1>a, <2>1, <2>2 DEF createVersionTable
<1>6. ASSUME NEW p \in Processes, EnsureMissing(p) \/ CreateFails(p) \/ ListFails(p) \/ RunDone(p)
      PROVE  TypeOK'
  BY <1>6, <1>a DEF EnsureMissing, CreateFails, ListFails, RunDone, Finish, Goto, db
<1>7. ASSUME NEW p \in Processes, ListUp(p) PROVE TypeOK'
  <2>1. UpPlan(p) \in Seq(Entry)
    BY <1>7, CallFacts, UpPlanProperties DEF ListUp
  <2> QED
    BY ZenonT(60), <1>7, <2>1 DEF ListUp, Finish, Goto, db
<1>8. ASSUME NEW p \in Processes, ListReset(p) PROVE TypeOK'
  <2>1. Run(Descending(Files[p] \cap ToSet(rows)), FALSE) \in Seq(Entry)
    BY ResetPlan
  <2> QED
    BY <1>8, <2>1 DEF ListReset, Goto, db
<1>9. ASSUME NEW p \in Processes,
             RunTx(p) \/ RunNoTx(p) \/ RecordNoTx(p) \/ RecordFails(p) \/ RunFails(p)
      PROVE  TypeOK'
  <2> DEFINE m == Next1(p)
  <2>1. plan[p] # <<>> /\ op[p] \in Op
    BY <1>9, CallFacts DEF RunTx, RunNoTx, RecordNoTx, RecordFails, RunFails, Locals
  <2>2. /\ Tail(plan[p]) \in Seq(Entry) /\ m.version \in Versions
        /\ Recorded(m) \in Seq(Recordable) /\ Executed(m) \in SUBSET Versions
        /\ Parted(p, m.version) \in SUBSET Versions
        /\ Marked(p, m.version) \in [Processes -> SUBSET Versions]
    BY <2>1, NextFacts
  <2> HIDE DEF m
  <2>3. CASE RunTx(p)
    BY <2>2, <2>3 DEF RunTx, Advance, Goto, m
  <2>4. CASE RunNoTx(p)
    BY <2>2, <2>4 DEF RunNoTx, Goto, m
  <2>5. CASE RecordNoTx(p)
    BY <2>2, <2>5 DEF RecordNoTx, Advance, Goto, m
  <2>6. CASE RecordFails(p)
    BY <2>2, <2>6 DEF RecordFails, Finish, Goto, m
  <2>7. CASE RunFails(p)
    BY <2>2, <2>7 DEF RunFails, Finish, Goto, m
  <2> QED
    BY <1>9, <2>3, <2>4, <2>5, <2>6, <2>7
<1>10. ASSUME NEW p \in Processes, Crash(p) PROVE TypeOK'
  <2>1. disturbed' \in SUBSET Versions
    <3>1. CASE pc[p] = "record"
      <4>1. plan[p] # <<>> /\ op[p] \in Op
        BY <3>1, CallFacts DEF Locals
      <4>2. Next1(p).version \in Versions
        BY <4>1, NextFacts
      <4> QED
        BY <1>10, <3>1, <4>2 DEF Crash
    <3>2. CASE pc[p] # "record"
      BY <1>10, <3>2 DEF Crash
    <3> QED
      BY <3>1, <3>2
  <2> QED
    BY <1>10, <1>a, <2>1 DEF Crash, Forget, Goto
<1>11. CASE UNCHANGED vars
  BY <1>11 DEF vars, db
<1> QED
  BY <1>1, <1>2, <1>4, <1>5, <1>6, <1>7, <1>8, <1>9, <1>10, <1>11 DEF Next, Step

\* A step of p leaves the variables of the other processes alone.
Others(p) ==
    \A q \in Processes \ {p} :
        /\ pc'[q] = pc[q] /\ op'[q] = op[q] /\ plan'[q] = plan[q] /\ start'[q] = start[q]
        /\ ret'[q] = ret[q] /\ noVersioning'[q] = noVersioning[q]

\* No step breaks the discipline of the local variables.
LEMMA LocalsStep ==
    ASSUME TypeOK, Locals, TableSound, [Next]_vars
    PROVE  Locals'
<1> DEFINE L(p) ==
        /\ pc'[p] # "idle" => op'[p] \in Ops[p]
        /\ pc'[p] \in {"ensure", "create", "list", "record", "final"} => ~op'[p].noVersioning
        /\ pc'[p] = "list" => op'[p].kind \in UpKinds \cup {"reset"}
        /\ pc'[p] = "final" => op'[p].kind \in UpKinds
        /\ pc'[p] \in {"ensure", "create"} => op'[p].kind # "reset"
        /\ pc'[p] = "record" => plan'[p] # <<>>
        /\ plan'[p] # <<>> /\ pc'[p] \in {"run", "record"} => Alone(op'[p])
\* A step within a call of p.
<1>1. ASSUME NEW p \in Processes, pc[p] # "idle", op' = op, L(p),
             \A q \in Processes \ {p} : pc'[q] = pc[q] /\ plan'[q] = plan[q]
      PROVE  Locals'
  <2>1. \A q \in Processes : L(q)
    BY <1>1 DEF Locals
  <2>2. \A q \in Processes : pc'[q] # "idle" => pc[q] # "idle"
    BY <1>1
  <2>3. \A q, r \in Processes :
           pc'[q] # "idle" /\ pc'[r] # "idle" /\ Alone(op'[q]) /\ Alone(op'[r]) => q = r
    BY <1>1, <2>2 DEF Locals
  <2>4. \A q \in Processes : Alone(op[q])' <=> Alone(op'[q])
    BY DEF Alone
  <2> QED
    BY <2>1, <2>3, <2>4 DEF Locals
\* The call of p ends.
<1>2. ASSUME NEW p \in Processes, Forget(p) PROVE Locals'
  <2>1. /\ pc' = [pc EXCEPT ![p] = "idle"] /\ op' = [op EXCEPT ![p] = NoOp]
        /\ plan' = [plan EXCEPT ![p] = <<>>]
    BY <1>2 DEF Forget, Goto
  <2>2. \A q \in Processes : pc'[q] # "idle" => q # p
    BY <2>1 DEF TypeOK
  <2>3. \A q \in Processes : q # p => pc'[q] = pc[q] /\ op'[q] = op[q] /\ plan'[q] = plan[q]
    BY <2>1 DEF TypeOK
  <2>4. \A q \in Processes : Alone(op[q])' <=> Alone(op'[q])
    BY DEF Alone
  <2>5. pc'[p] = "idle"
    BY <2>1 DEF TypeOK
  <2> QED
    BY <2>2, <2>3, <2>4, <2>5 DEF Locals
<1>3. ASSUME NEW p \in Processes, Return(p) \/ Crash(p) PROVE Locals'
  BY <1>2, <1>3 DEF Return, Crash
<1>4. ASSUME NEW p \in Processes, Call(p) PROVE Locals'
  <2>1. PICK o \in Ops[p] :
          /\ ~(Alone(o) /\ \E q \in Processes : pc[q] # "idle" /\ Alone(op[q]))
          /\ op' = [op EXCEPT ![p] = o]
          /\ \/ NoFiles(p, o) /\ Finish(p, "err") /\ UNCHANGED plan
             \/ /\ ~NoFiles(p, o) /\ o.noVersioning
                /\ plan' = [plan EXCEPT ![p] = NoVersioningPlan(p, o)]
                /\ Goto(p, "run") /\ UNCHANGED ret
             \/ /\ ~NoFiles(p, o) /\ ~o.noVersioning
                /\ Goto(p, IF o.kind = "reset" THEN "list" ELSE "ensure")
                /\ UNCHANGED <<plan, ret>>
    BY <1>4 DEF Call
  <2>2. o \in Op
    BY LegacyAssumption
  <2>3. \A q \in Processes : q # p => pc'[q] = pc[q] /\ op'[q] = op[q] /\ plan'[q] = plan[q]
    BY <2>1 DEF Finish, Goto, TypeOK
  <2>4. op'[p] = o
    BY <2>1 DEF TypeOK
  <2>5. L(p)
    <3>1. CASE NoFiles(p, o) /\ Finish(p, "err") /\ UNCHANGED plan
      BY <2>4, <3>1 DEF Finish, Goto, TypeOK
    <3>2. CASE /\ o.noVersioning
               /\ plan' = [plan EXCEPT ![p] = NoVersioningPlan(p, o)]
               /\ Goto(p, "run") /\ UNCHANGED ret
      <4>1. pc'[p] = "run" /\ plan'[p] = NoVersioningPlan(p, o)
        BY <3>2 DEF Goto, TypeOK
      <4>2. ~Alone(o) => NoVersioningPlan(p, o) = <<>>
        BY DEF Alone, NoVersioningPlan, UpKinds
      <4> QED
        BY <2>4, <4>1, <4>2
    <3>3. CASE ~o.noVersioning /\ Goto(p, IF o.kind = "reset" THEN "list" ELSE "ensure")
      BY <2>4, <3>3 DEF Goto, TypeOK
    <3> QED
      BY <2>1, <3>1, <3>2, <3>3
  <2>6. \A q \in Processes : L(q)
    BY <2>3, <2>5 DEF Locals
  <2>7. \A q, r \in Processes :
           pc'[q] # "idle" /\ pc'[r] # "idle" /\ Alone(op'[q]) /\ Alone(op'[r]) => q = r
    BY <2>1, <2>3, <2>4 DEF Locals
  <2>8. \A q \in Processes : Alone(op[q])' <=> Alone(op'[q])
    BY DEF Alone
  <2> QED
    BY <2>6, <2>7, <2>8 DEF Locals
<1>5. ASSUME NEW p \in Processes, pc[p] \in {"ensure", "final", "create"}, op' = op,
             NEW cur \in Recordable, EnsuredEffect(p, cur)
      PROVE  Locals'
  <2>1. PICK l, s, r : Goes(p, l, s, r) /\ l \in {"list", "done", "run"}
                       /\ (l = "list" => op[p].kind \in UpKinds)
                       /\ (l = "run" => op[p].kind \in {"down", "downTo", "redo"})
    BY <1>5 DEF EnsuredEffect
  <2>2. pc'[p] = l /\ \A q \in Processes \ {p} : pc'[q] = pc[q] /\ plan'[q] = plan[q]
    BY <2>1 DEF Goes, TypeOK
  <2>3. op[p] \in Ops[p] /\ ~op[p].noVersioning
    BY <1>5 DEF Locals
  <2>4. L(p)
    BY <1>5, <2>1, <2>2, <2>3 DEF Alone
  <2> QED
    BY <1>1, <1>5, <2>2, <2>4
<1>6. ASSUME NEW p \in Processes, EnsureDBVersion(p) PROVE Locals'
  <2>1. rows # <<>> /\ op[p] \in Op
    BY <1>6, CallFacts DEF EnsureDBVersion, TableSound, RowsAreSound
  <2>2. Last(rows) \in Recordable
    BY <2>1, LastRow DEF TypeOK
  <2>3. EnsuredEffect(p, Last(rows))
    BY <1>6, <2>1, <2>2, EnsuredCases DEF EnsureDBVersion
  <2> QED
    BY <1>5, <1>6, <2>2, <2>3 DEF EnsureDBVersion
<1>7. ASSUME NEW p \in Processes, createVersionTable(p) PROVE Locals'
  <2>1. op[p] \in Op /\ 0 \in Recordable
    BY <1>7, CallFacts DEF createVersionTable, Recordable
  <2>2. EnsuredEffect(p, 0)
    BY <1>7, <2>1, EnsuredCases DEF createVersionTable
  <2> QED
    BY <1>5, <1>7, <2>1, <2>2 DEF createVersionTable
<1>8. ASSUME NEW p \in Processes,
             EnsureMissing(p) \/ CreateFails(p) \/ ListFails(p) \/ RunDone(p)
      PROVE  Locals'
  <2>1. PICK l \in {"create", "done"} : pc' = [pc EXCEPT ![p] = l]
                                        /\ (l = "create" => pc[p] \in {"ensure", "final"})
    BY <1>8 DEF EnsureMissing, CreateFails, ListFails, RunDone, Finish, Goto
  <2>2. op' = op /\ plan' = plan /\ pc[p] # "idle"
    BY <1>8 DEF EnsureMissing, CreateFails, ListFails, RunDone
  <2>3. pc'[p] = l /\ \A q \in Processes \ {p} : pc'[q] = pc[q] /\ plan'[q] = plan[q]
    BY <2>1, <2>2 DEF TypeOK
  <2>4. op[p] \in Ops[p] /\ (l = "create" => ~op[p].noVersioning /\ op[p].kind # "reset")
    BY <2>1, <2>2 DEF Locals, UpKinds
  <2>5. L(p)
    BY <2>1, <2>2, <2>3, <2>4
  <2> QED
    BY <1>1, <2>2, <2>3, <2>5
<1>9. ASSUME NEW p \in Processes, ListUp(p) \/ ListReset(p) PROVE Locals'
  <2>1. PICK l \in {"done", "final", "run"} : pc' = [pc EXCEPT ![p] = l]
                                      /\ (l = "final" => op[p].kind \in UpKinds)
    BY <1>9 DEF ListUp, ListReset, Finish, Goto
  <2>2. op' = op /\ pc[p] = "list"
    BY <1>9 DEF ListUp, ListReset
  <2>3. pc'[p] = l /\ \A q \in Processes \ {p} : pc'[q] = pc[q] /\ plan'[q] = plan[q]
    BY <1>9, <2>1 DEF ListUp, ListReset, TypeOK
  <2>4. op[p] \in Ops[p] /\ ~op[p].noVersioning /\ op[p].kind \in UpKinds \cup {"reset"}
    BY <2>2 DEF Locals
  <2>5. L(p)
    BY <2>1, <2>2, <2>3, <2>4 DEF Alone, UpKinds
  <2> QED
    BY <1>1, <2>2, <2>3, <2>5
<1>10. ASSUME NEW p \in Processes, RunTx(p) \/ RecordNoTx(p) PROVE Locals'
  <2>1. Advance(p) /\ op' = op /\ pc[p] \in {"run", "record"} /\ plan[p] # <<>>
    BY <1>10 DEF RunTx, RecordNoTx, Locals
  <2>2. PICK l \in {"ensure", "run"} :
            /\ pc' = [pc EXCEPT ![p] = l]
            /\ l = "ensure" => op[p].kind = "downTo" /\ ~op[p].noVersioning
    BY <2>1 DEF Advance, Goto
  <2>3. pc'[p] = l /\ \A q \in Processes \ {p} : pc'[q] = pc[q] /\ plan'[q] = plan[q]
    BY <2>1, <2>2 DEF Advance, TypeOK
  <2>4. op[p] \in Ops[p] /\ Alone(op[p])
    BY <2>1 DEF Locals
  <2>5. L(p)
    BY <2>1, <2>2, <2>3, <2>4
  <2> QED
    BY <1>1, <2>1, <2>3, <2>5
<1>11. ASSUME NEW p \in Processes, RunNoTx(p) \/ RecordFails(p) \/ RunFails(p) PROVE Locals'
  <2>1. /\ op' = op /\ plan' = plan /\ pc[p] \in {"run", "record"} /\ plan[p] # <<>>
        /\ \/ pc' = [pc EXCEPT ![p] = "done"]
           \/ pc' = [pc EXCEPT ![p] = "record"] /\ ~Unversioned(p, Next1(p).version)
    BY <1>11 DEF RunNoTx, RecordFails, RunFails, Finish, Goto, Locals
  <2>2. op[p] \in Ops[p] /\ Alone(op[p])
    BY <2>1 DEF Locals
  <2>3. \A q \in Processes \ {p} : pc'[q] = pc[q] /\ plan'[q] = plan[q]
    BY <2>1 DEF TypeOK
  <2>4. pc'[p] = "done" \/ (pc'[p] = "record" /\ ~op[p].noVersioning)
    BY <2>1 DEF TypeOK, Unversioned
  <2>5. L(p)
    BY <2>1, <2>2, <2>4
  <2> QED
    BY <1>1, <2>1, <2>3, <2>5
<1>12. CASE UNCHANGED vars
  BY <1>12 DEF vars, Locals, Alone
<1> QED
  BY <1>3, <1>4, <1>6, <1>7, <1>8, <1>9, <1>10, <1>11, <1>12 DEF Next, Step

LEMMA OthersAreLeftAlone ==
    ASSUME TypeOK, NEW p \in Processes, Call(p) \/ Step(p) \/ Crash(p)
    PROVE  Others(p)
<1> USE DEF TypeOK, Others, Goto, Finish, Forget
<1>1. CASE Call(p)
  BY <1>1 DEF Call
<1>2. ASSUME NEW cur, Ensured(p, cur), op' = op, start' = start PROVE Others(p)
  BY ZenonT(60), <1>2 DEF Ensured, Report, WithCurrent
<1>3. CASE EnsureDBVersion(p) \/ createVersionTable(p)
  BY <1>2, <1>3 DEF EnsureDBVersion, createVersionTable
<1>4. CASE EnsureMissing(p) \/ CreateFails(p) \/ ListFails(p) \/ RunDone(p)
  BY <1>4 DEF EnsureMissing, CreateFails, ListFails, RunDone
<1>5. CASE ListUp(p) \/ ListReset(p)
  BY <1>5 DEF ListUp, ListReset
<1>6. CASE RunTx(p) \/ RunNoTx(p) \/ RecordNoTx(p)
  BY <1>6 DEF RunTx, RunNoTx, RecordNoTx, Advance, Marked
<1>7. CASE RecordFails(p) \/ RunFails(p)
  BY <1>7 DEF RecordFails, RunFails, Marked
<1>8. CASE Return(p) \/ Crash(p)
  BY <1>8 DEF Return, Crash
<1> QED
  BY <1>1, <1>3, <1>4, <1>5, <1>6, <1>7, <1>8 DEF Step

\* What a step does to the version table: nothing, or it creates the table, or
\* it records the migration that the call is at.
TableCreated == ~table /\ table' /\ rows' = <<0>>
TableWritten(p) ==
    /\ pc[p] \in {"run", "record"} /\ plan[p] # <<>> /\ ~op[p].noVersioning
    /\ rows' = Recorded(Next1(p)) /\ table' = table

LEMMA TableCases ==
    ASSUME TypeOK, Locals, NEW p \in Processes, Call(p) \/ Step(p) \/ Crash(p)
    PROVE  UNCHANGED <<table, rows>> \/ TableCreated \/ TableWritten(p)
<1>1. CASE \/ Call(p) \/ EnsureDBVersion(p) \/ EnsureMissing(p) \/ ListUp(p) \/ ListReset(p)
           \/ ListFails(p) \/ RunNoTx(p) \/ RunDone(p) \/ Return(p) \/ Crash(p)
  BY <1>1 DEF Call, EnsureDBVersion, EnsureMissing, ListUp, ListReset, ListFails, RunNoTx,
        RunDone, Return, Crash, db
<1>2. CASE createVersionTable(p) \/ CreateFails(p)
  BY <1>2 DEF createVersionTable, CreateFails, TableCreated
<1>3. CASE RunTx(p) \/ RunFails(p)
  BY <1>3 DEF RunTx, RunFails, TableWritten, Unversioned
<1>4. CASE RecordNoTx(p) \/ RecordFails(p)
  BY <1>4 DEF RecordNoTx, RecordFails, TableWritten, Locals
<1> QED
  BY <1>1, <1>2, <1>3, <1>4 DEF Step

\* A migration that a call with versioning is at can be recorded.
LEMMA Recordables ==
    ASSUME TypeOK, Fits, NEW p \in Processes, op[p] \in Op, pc[p] \in {"run", "record"},
           ~op[p].noVersioning, plan[p] # <<>>, Alone(op[p])
    PROVE  table /\ (Next1(p).up => Next1(p).version \notin ToSet(rows))
<1>1. FitsBy(p) /\ plan[p] \in Seq(Entry)
  BY DEF Fits, TypeOK
<1>2. op[p].kind \in UpKinds \/ op[p].kind \in {"down", "downTo", "reset"} \/ op[p].kind = "redo"
  BY DEF Op, Alone
<1>3. CASE op[p].kind \in UpKinds
  BY <1>1, <1>3, PlanTail DEF FitsBy, Next1
<1>4. CASE op[p].kind \in {"down", "downTo", "reset"}
  BY <1>1, <1>4, PlanTail DEF FitsBy, Next1
<1>5. CASE op[p].kind = "redo"
  <2>1. RedoPlan(p, plan[p]) /\ table
    BY <1>1, <1>5 DEF FitsBy
  <2>2. CASE \E v \in Versions : plan[p] = <<DownOf(v), UpOf(v)>>
    <3>1. PICK v \in Versions : plan[p] = <<DownOf(v), UpOf(v)>>
      BY <2>2
    <3>2. Next1(p) = DownOf(v)
      BY <3>1, SinglePlans DEF Next1
    <3> QED
      BY <2>1, <3>2 DEF DownOf
  <2>3. CASE \E v \in Versions : v \notin ToSet(rows) /\ plan[p] = <<UpOf(v)>>
    <3>1. PICK v \in Versions : v \notin ToSet(rows) /\ plan[p] = <<UpOf(v)>>
      BY <2>3
    <3>2. Next1(p) = UpOf(v)
      BY <3>1, SinglePlans DEF Next1
    <3> QED
      BY <2>1, <3>1, <3>2 DEF UpOf
  <2> QED
    BY <2>1, <2>2, <2>3 DEF RedoPlan
<1> QED
  BY <1>2, <1>3, <1>4, <1>5

\* No step breaks the version table.
LEMMA TableStep ==
    ASSUME TypeOK, Locals, TableSound, Fits, [Next]_vars
    PROVE  TableSound'
<1>1. CASE UNCHANGED <<table, rows>>
  BY <1>1 DEF TableSound, RowsAreSound, IsInjective
<1>2. CASE TableCreated
  <2>1. <<0>> # <<>> /\ <<0>>[1] = 0 /\ IsInjective(<<0>>)
    BY DEF IsInjective
  <2> QED
    BY <1>2, <2>1 DEF TableCreated, TableSound, RowsAreSound, IsInjective
<1>3. ASSUME NEW p \in Processes, TableWritten(p) PROVE TableSound'
  <2>1. op[p] \in Op /\ Alone(op[p])
    BY <1>3, CallFacts DEF TableWritten, Locals
  <2>2. Next1(p) \in Entry
    BY <1>3, <2>1, NextFacts DEF TableWritten
  <2>3. table /\ (Next1(p).up => Next1(p).version \notin ToSet(rows))
    BY <1>3, <2>1, Recordables DEF TableWritten
  <2>4. rows' # <<>> /\ rows'[1] = 0 /\ IsInjective(rows') /\ table'
    BY <1>3, <2>2, <2>3, RecordedProperties DEF TableWritten
  <2> QED
    BY <2>4 DEF TableSound, RowsAreSound, IsInjective
<1> QED
  BY <1>1, <1>2, <1>3, TableCases DEF Next, vars, db

\* After a migration the rest of the plan still fits.
LEMMA FitsAfter ==
    ASSUME TypeOK, Fits, NEW p \in Processes, op[p] \in Op, pc[p] \in {"run", "record"},
           ~op[p].noVersioning, plan[p] # <<>>, Alone(op[p]),
           op' = op, table' = table, plan'[p] = Tail(plan[p]), noVersioning' = noVersioning,
           \/ rows' = Recorded(Next1(p))
           \/ rows' = rows /\ Next1(p).version \in noVersioning[p]
    PROVE  FitsBy(p)'
<1> DEFINE m == Next1(p)
           s == plan[p]
<1>1. FitsBy(p) /\ s \in Seq(Entry) /\ m \in Entry /\ m = Head(s)
  BY NextFacts DEF Fits, TypeOK, Next1
<1>2. /\ m.up => ToSet(Recorded(m)) = ToSet(rows) \cup {m.version}
      /\ ~m.up => ToSet(Recorded(m)) = ToSet(rows) \ {m.version}
  BY <1>1, RecordedProperties
<1>3. \A v \in ToSet(rows') : v \in ToSet(rows) \/ (v = m.version /\ m.up)
  BY <1>1, <1>2 DEF Entry
<1>4. /\ AllUp(s) => m.up /\ AllUp(Tail(s))
      /\ AllDown(s) => ~m.up /\ AllDown(Tail(s))
      /\ Distinct(s) => Distinct(Tail(s)) /\ m.version \notin Planned(Tail(s))
      /\ Planned(Tail(s)) \subseteq Planned(s)
  BY <1>1, PlanTail
<1>5. table /\ table'
  BY <1>1 DEF FitsBy
<1>6. CASE op[p].kind \in UpKinds
  <2>1. AllUp(s) /\ Distinct(s) /\ \A v \in Planned(s) : v \notin ToSet(rows)
    BY <1>1, <1>6 DEF FitsBy
  <2>2. AllUp(Tail(s)) /\ Distinct(Tail(s)) /\ \A v \in Planned(Tail(s)) : v \notin ToSet(rows')
    BY <1>3, <1>4, <2>1
  <2> QED
    BY <1>5, <1>6, <2>2 DEF FitsBy, UpKinds, AllUp, Distinct, Planned, ToSet
<1>7. CASE op[p].kind \in {"down", "downTo", "reset"}
  <2>1. AllDown(Tail(s))
    BY <1>1, <1>4, <1>7 DEF FitsBy
  <2> QED
    BY <1>5, <1>7, <2>1 DEF FitsBy, UpKinds, AllDown
<1>8. CASE op[p].kind = "redo"
  <2>1. RedoPlan(p, s)
    BY <1>1, <1>8 DEF FitsBy
  <2>2. \/ plan'[p] = <<>>
        \/ \E v \in Versions : v \notin ToSet(rows') /\ plan'[p] = <<UpOf(v)>>
    <3>1. CASE \E v \in Versions : v \notin noVersioning[p] /\ s = <<DownOf(v), UpOf(v)>>
      <4>1. PICK v \in Versions : v \notin noVersioning[p] /\ s = <<DownOf(v), UpOf(v)>>
        BY <3>1
      <4>2. m = DownOf(v) /\ Tail(s) = <<UpOf(v)>> /\ m.version = v /\ ~m.up
        BY <1>1, <4>1, SinglePlans DEF DownOf
      <4>3. ToSet(rows') = ToSet(rows) \ {v}
        BY <1>2, <4>1, <4>2
      <4> QED
        BY <4>2, <4>3
    <3>2. CASE \E v \in Versions : s = <<UpOf(v)>>
      BY <3>2, SinglePlans
    <3> QED
      BY <2>1, <3>1, <3>2 DEF RedoPlan
  <2>3. RedoPlan(p, plan[p])'
    BY <2>2 DEF RedoPlan, UpOf, ToSet
  <2> QED
    BY <1>5, <1>8, <2>3 DEF FitsBy, UpKinds
<1> QED
  BY <1>6, <1>7, <1>8 DEF Op, Alone

\* A plan fits as long as it, and the version table, stay as they are.
LEMMA FitsFrame ==
    ASSUME NEW p \in Processes, FitsBy(p), table' = table, rows' = rows,
           pc'[p] \in {"run", "record"} => pc[p] \in {"run", "record"},
           op'[p] = op[p], plan'[p] = plan[p], noVersioning'[p] = noVersioning[p]
    PROVE  FitsBy(p)'
<1> SUFFICES ASSUME pc'[p] \in {"run", "record"}, ~op[p].noVersioning, plan[p] # <<>>
             PROVE  FitsBy(p)'
  BY DEF FitsBy
<1>1. table'
  BY DEF FitsBy
<1>2. CASE op[p].kind \in UpKinds
  <2>1. /\ AllUp(plan[p]) /\ Distinct(plan[p])
        /\ \A v \in Planned(plan[p]) : v \notin ToSet(rows)
    BY <1>2 DEF FitsBy
  <2>2. AllUp(plan[p])'
    BY <2>1 DEF AllUp
  <2>3. Distinct(plan[p])'
    BY <2>1 DEF Distinct
  <2>4. (\A v \in Planned(plan[p]) : v \notin ToSet(rows))'
    BY <2>1 DEF Planned, ToSet
  <2> QED
    BY <1>1, <1>2, <2>2, <2>3, <2>4 DEF FitsBy, UpKinds
<1>3. CASE op[p].kind \in {"down", "downTo", "reset"}
  <2>1. AllDown(plan[p])
    BY <1>3 DEF FitsBy
  <2>2. AllDown(plan[p])'
    BY <2>1 DEF AllDown
  <2> QED
    BY <1>1, <1>3, <2>2 DEF FitsBy, UpKinds
<1>4. CASE op[p].kind = "redo"
  <2>1. RedoPlan(p, plan[p])
    BY <1>4 DEF FitsBy
  <2>2. RedoPlan(p, plan[p])'
    BY <2>1 DEF RedoPlan, UpOf, DownOf, ToSet
  <2> QED
    BY <1>1, <1>4, <2>2 DEF FitsBy, UpKinds
<1>5. CASE op[p].kind \notin UpKinds \cup {"down", "downTo", "reset", "redo"}
  BY <1>1, <1>5 DEF FitsBy, UpKinds
<1> QED
  BY <1>2, <1>3, <1>4, <1>5

\* No step breaks a plan.
LEMMA FitsStep ==
    ASSUME TypeOK, Locals, TableSound, Fits, [Next]_vars
    PROVE  Fits'
\* The plans of the other processes.
<1>1. ASSUME NEW p \in Processes, Call(p) \/ Step(p) \/ Crash(p), NEW q \in Processes, q # p
      PROVE  FitsBy(q)'
  <2>1. /\ pc'[q] = pc[q] /\ op'[q] = op[q] /\ plan'[q] = plan[q]
        /\ noVersioning'[q] = noVersioning[q]
    BY <1>1, OthersAreLeftAlone DEF Others
  <2>2. FitsBy(q)
    BY DEF Fits
  <2>3. CASE UNCHANGED <<table, rows>>
    BY <2>1, <2>2, <2>3, FitsFrame
  <2>4. CASE TableCreated
    BY <2>1, <2>2, <2>4 DEF FitsBy, TableCreated
  <2>5. CASE TableWritten(p)
    <3>1. pc[p] # "idle" /\ Alone(op[p])
      BY <2>5 DEF TableWritten, Locals
    <3>2. ~(pc[q] \in {"run", "record"} /\ plan[q] # <<>>)
      BY <1>1, <3>1 DEF Locals
    <3> QED
      BY <2>1, <3>2 DEF FitsBy
  <2> QED
    BY <1>1, <2>3, <2>4, <2>5, TableCases
\* The plan of the process itself.
<1>2. ASSUME NEW p \in Processes, pc'[p] \notin {"run", "record"} PROVE FitsBy(p)'
  BY <1>2 DEF FitsBy
<1>3. ASSUME NEW p \in Processes, op' = op, NEW cur \in Recordable, EnsuredEffect(p, cur),
             table' = table, table \/ cur = 0
      PROVE  FitsBy(p)'
  <2>1. CASE \E l, s, r : Goes(p, l, s, r) /\ l \in {"list", "done"}
    <3>1. pc'[p] \notin {"run", "record"}
      BY <2>1 DEF Goes, TypeOK
    <3> QED
      BY <3>1, <1>2
  <2>2. CASE /\ op[p].kind \in {"down", "downTo"} /\ cur \in Files[p]
             /\ Goes(p, "run", <<DownOf(cur)>>, ret[p])
    <3>1. plan'[p] = <<DownOf(cur)>>
      BY <2>2 DEF Goes, TypeOK
    <3>2. cur \in Versions /\ table
      BY <1>3, <2>2, VersionFacts
    <3>3. AllDown(<<DownOf(cur)>>)
      BY <3>2, SinglePlans
    <3> QED
      BY <1>3, <2>2, <3>1, <3>2, <3>3 DEF FitsBy, UpKinds, AllDown
  <2>3. CASE /\ op[p].kind = "redo" /\ cur \in Files[p]
             /\ Goes(p, "run", <<DownOf(cur), UpOf(cur)>>, ret[p])
             /\ noVersioning' = [noVersioning EXCEPT ![p] = @ \ {cur}]
    <3>1. plan'[p] = <<DownOf(cur), UpOf(cur)>> /\ cur \notin noVersioning'[p]
      BY <2>3 DEF Goes, TypeOK
    <3>2. cur \in Versions /\ table
      BY <1>3, <2>3, VersionFacts
    <3>3. RedoPlan(p, plan[p])'
      BY <3>1, <3>2 DEF RedoPlan, UpOf, DownOf
    <3> QED
      BY <1>3, <2>3, <3>2, <3>3 DEF FitsBy, UpKinds
  <2> QED
    BY <1>3, <2>1, <2>2, <2>3 DEF EnsuredEffect
<1>4. ASSUME NEW p \in Processes, EnsureDBVersion(p) PROVE FitsBy(p)'
  <2>1. rows # <<>> /\ op[p] \in Op
    BY <1>4, CallFacts DEF EnsureDBVersion, TableSound, RowsAreSound
  <2>2. Last(rows) \in Recordable
    BY <2>1, LastRow DEF TypeOK
  <2>3. EnsuredEffect(p, Last(rows))
    BY <1>4, <2>1, <2>2, EnsuredCases DEF EnsureDBVersion
  <2> QED
    BY <1>3, <1>4, <2>2, <2>3 DEF EnsureDBVersion, db
<1>5. ASSUME NEW p \in Processes, createVersionTable(p) PROVE FitsBy(p)'
  <2>1. op[p] \in Op /\ 0 \in Recordable
    BY <1>5, CallFacts DEF createVersionTable, Recordable
  <2>2. EnsuredEffect(p, 0)
    BY <1>5, <2>1, EnsuredCases DEF createVersionTable
  <2>3. 0 \notin Files[p]
    BY VersionFacts
  <2>4. PICK l, s, r : Goes(p, l, s, r) /\ l \in {"list", "done"}
    BY <2>2, <2>3 DEF EnsuredEffect
  <2>5. pc'[p] \notin {"run", "record"}
    BY <2>4 DEF Goes, TypeOK
  <2> QED
    BY <1>2, <2>5
<1>6. ASSUME NEW p \in Processes, Call(p) PROVE FitsBy(p)'
  <2>1. pc'[p] \in {"run", "record"} => op'[p].noVersioning
    BY <1>6 DEF Call, Finish, Goto, TypeOK
  <2> QED
    BY <2>1 DEF FitsBy
<1>7. ASSUME NEW p \in Processes, ListUp(p) PROVE FitsBy(p)'
  <2>1. CASE Finish(p, "err")
    BY <1>2, <2>1 DEF Finish, Goto, TypeOK
  <2>2. CASE plan' = [plan EXCEPT ![p] = UpPlan(p)]
    <3>1. /\ AllUp(UpPlan(p)) /\ Distinct(UpPlan(p))
          /\ \A v \in Planned(UpPlan(p)) : v \notin ToSet(rows)
      BY <1>7, CallFacts, UpPlanProperties DEF ListUp
    <3>2. plan'[p] = UpPlan(p) /\ rows' = rows /\ op' = op /\ table' = table
      BY <1>7, <2>2 DEF ListUp, db, TypeOK
    <3>3. table /\ op[p].kind \in UpKinds
      BY <1>7 DEF ListUp, TableSound
    <3> QED
      BY <3>1, <3>2, <3>3 DEF FitsBy, UpKinds, AllUp, Distinct, Planned, ToSet
  <2> QED
    BY <1>7, <2>1, <2>2 DEF ListUp
<1>8. ASSUME NEW p \in Processes, ListReset(p) PROVE FitsBy(p)'
  <2>1. /\ plan'[p] = Run(Descending(Files[p] \cap ToSet(rows)), FALSE)
        /\ table /\ table' = table /\ op' = op /\ op[p].kind = "reset"
    BY <1>8 DEF ListReset, db, TypeOK
  <2>2. AllDown(plan'[p])
    BY <2>1, ResetPlan
  <2> QED
    BY <2>1, <2>2 DEF FitsBy, UpKinds, AllDown
<1>9. ASSUME NEW p \in Processes, RunTx(p) \/ RecordNoTx(p) PROVE FitsBy(p)'
  <2>1. CASE op[p].noVersioning
    BY <1>9, <2>1 DEF RunTx, RecordNoTx, FitsBy
  <2>2. CASE ~op[p].noVersioning
    <3>1. pc[p] \in {"run", "record"} /\ plan[p] # <<>> /\ op' = op /\ table' = table
      BY <1>9 DEF RunTx, RecordNoTx, Locals
    <3>2. op[p] \in Op /\ Alone(op[p])
      BY <3>1, CallFacts DEF Locals
    <3>3. plan'[p] = Tail(plan[p]) /\ noVersioning' = noVersioning
      BY <1>9, <2>2 DEF RunTx, RecordNoTx, Advance, Marked, TypeOK
    <3>4. \/ rows' = Recorded(Next1(p))
          \/ rows' = rows /\ Next1(p).version \in noVersioning[p]
      BY <1>9, <2>2 DEF RunTx, RecordNoTx, Unversioned
    <3> QED
      BY <2>2, <3>1, <3>2, <3>3, <3>4, FitsAfter
  <2> QED
    BY <2>1, <2>2
<1>10. ASSUME NEW p \in Processes, RunNoTx(p) PROVE FitsBy(p)'
  <2>1. /\ UNCHANGED <<table, rows, op, plan, noVersioning>> /\ pc[p] = "run"
    BY <1>10 DEF RunNoTx
  <2>2. FitsBy(p)
    BY DEF Fits
  <2> QED
    BY <2>1, <2>2, FitsFrame
<1>11. ASSUME NEW p \in Processes,
              \/ EnsureMissing(p) \/ CreateFails(p) \/ ListFails(p) \/ RecordFails(p)
              \/ RunFails(p) \/ RunDone(p) \/ Return(p) \/ Crash(p)
       PROVE  FitsBy(p)'
  <2>1. pc'[p] \notin {"run", "record"}
    BY <1>11 DEF EnsureMissing, CreateFails, ListFails, RecordFails, RunFails, RunDone, Return,
          Crash, Forget, Finish, Goto, TypeOK
  <2> QED
    BY <1>2, <2>1
<1>12. ASSUME NEW p \in Processes, Call(p) \/ Step(p) \/ Crash(p) PROVE Fits'
  <2>1. FitsBy(p)'
    BY <1>4, <1>5, <1>6, <1>7, <1>8, <1>9, <1>10, <1>11, <1>12 DEF Step
  <2> QED
    BY <1>1, <1>12, <2>1 DEF Fits
<1>13. CASE UNCHANGED vars
  BY <1>13, FitsFrame DEF vars, db, Fits
<1> QED
  BY <1>12, <1>13 DEF Next

-----------------------------------------------------------------------------
\* The inductive invariant of the version table.
IInv == TypeOK /\ Locals /\ TableSound /\ Fits

LEMMA IInvInit == Init => IInv
<1> SUFFICES ASSUME Init PROVE IInv
  OBVIOUS
<1>1. TypeOK
  BY EmptySeq DEF Init, TypeOK, PCs
<1>2. Locals /\ Fits /\ TableSound
  BY DEF Init, Locals, Fits, FitsBy, TableSound, RowsAreSound
<1> QED
  BY <1>1, <1>2 DEF IInv

LEMMA IInvStep == IInv /\ [Next]_vars => IInv'
BY TypeStep, LocalsStep, TableStep, FitsStep DEF IInv

\* EnsureDBVersion, createVersionTable, insertOrDeleteVersion: once the version
\* table exists its oldest row is version 0 and no version is recorded twice,
\* whatever the calls of all the processes, failures and crashes.
THEOREM RowsAreSoundCorrect == Spec => []RowsAreSound
<1>1. IInv => RowsAreSound
  BY DEF IInv, TableSound
<1> QED
  BY <1>1, IInvInit, IInvStep, PTL DEF Spec

-----------------------------------------------------------------------------
(* Statements and version rows *)

\* A step changes the statements in effect only by the migration its call is at.
LEMMA SchemaCases ==
    ASSUME TypeOK, Locals, NEW p \in Processes, Call(p) \/ Step(p) \/ Crash(p)
    PROVE  \/ schema' = schema
           \/ /\ pc[p] = "run" /\ plan[p] # <<>> /\ schema' = Executed(Next1(p))
              /\ RunTx(p) \/ RunNoTx(p) \/ RunFails(p)
<1>1. CASE \/ Call(p) \/ EnsureDBVersion(p) \/ EnsureMissing(p) \/ ListUp(p) \/ ListReset(p)
           \/ ListFails(p) \/ RunDone(p) \/ Return(p) \/ Crash(p)
  BY <1>1 DEF Call, EnsureDBVersion, EnsureMissing, ListUp, ListReset, ListFails, RunDone,
        Return,
        Crash, db
<1>2. CASE createVersionTable(p) \/ CreateFails(p) \/ RecordNoTx(p) \/ RecordFails(p)
  BY <1>2 DEF createVersionTable, CreateFails, RecordNoTx, RecordFails
<1>3. CASE RunTx(p) \/ RunNoTx(p)
  BY <1>3 DEF RunTx, RunNoTx
<1>4. CASE RunFails(p)
  BY <1>4 DEF RunFails
<1> QED
  BY <1>1, <1>2, <1>3, <1>4 DEF Step

\* Only RunNoTx leaves a call where it has a version row to write.
LEMMA RecordComesNext ==
    ASSUME TypeOK, Locals, TableSound, NEW p \in Processes, Call(p) \/ Step(p) \/ Crash(p),
           pc'[p] = "record"
    PROVE  RunNoTx(p)
<1>1. CASE Call(p)
  BY <1>1 DEF Call, Finish, Goto, TypeOK
<1>2. ASSUME NEW cur \in Recordable, EnsuredEffect(p, cur) PROVE FALSE
  <2>1. PICK l, s, r : Goes(p, l, s, r) /\ l \in {"list", "done", "run"}
    BY <1>2 DEF EnsuredEffect
  <2> QED
    BY <2>1 DEF Goes, TypeOK
<1>3. CASE EnsureDBVersion(p)
  <2>1. rows # <<>> /\ op[p] \in Op
    BY <1>3, CallFacts DEF EnsureDBVersion, TableSound, RowsAreSound
  <2>2. Last(rows) \in Recordable
    BY <2>1, LastRow DEF TypeOK
  <2>3. EnsuredEffect(p, Last(rows))
    BY <1>3, <2>1, <2>2, EnsuredCases DEF EnsureDBVersion
  <2> QED
    BY <1>2, <2>2, <2>3
<1>4. CASE createVersionTable(p)
  <2>1. op[p] \in Op /\ 0 \in Recordable
    BY <1>4, CallFacts DEF createVersionTable, Recordable
  <2>2. EnsuredEffect(p, 0)
    BY <1>4, <2>1, EnsuredCases DEF createVersionTable
  <2> QED
    BY <1>2, <2>1, <2>2
<1>5. CASE EnsureMissing(p) \/ CreateFails(p) \/ ListUp(p) \/ ListReset(p) \/ ListFails(p)
  BY <1>5 DEF EnsureMissing, CreateFails, ListUp, ListReset, ListFails, Finish, Goto, TypeOK
<1>6. CASE RunTx(p) \/ RecordNoTx(p)
  BY <1>6 DEF RunTx, RecordNoTx, Advance, Goto, TypeOK
<1>7. CASE RecordFails(p) \/ RunFails(p) \/ RunDone(p) \/ Return(p) \/ Crash(p)
  BY <1>7 DEF RecordFails, RunFails, RunDone, Return, Crash, Forget, Finish, Goto, TypeOK
<1> QED
  BY <1>1, <1>3, <1>4, <1>5, <1>6, <1>7 DEF Step

LEMMA AtRecordStep ==
    ASSUME TypeOK, Locals, TableSound, AtRecord, [Next]_vars
    PROVE  AtRecord'
<1>1. ASSUME NEW p \in Processes, Call(p) \/ Step(p) \/ Crash(p),
             NEW q \in Processes, pc'[q] = "record"
      PROVE  (Next1(q).version \in schema <=> Next1(q).up)'
  <2>1. CASE q # p
    <3>1. pc[q] = "record" /\ plan'[q] = plan[q]
      BY <1>1, <2>1, OthersAreLeftAlone DEF Others
    <3>2. plan[q] # <<>> /\ Alone(op[q])
      BY <3>1 DEF Locals
    <3>3. pc[p] = "run" /\ plan[p] # <<>> => FALSE
      BY <2>1, <3>1, <3>2 DEF Locals
    <3>4. schema' = schema
      BY <1>1, <3>3, SchemaCases
    <3>5. Next1(q).version \in schema <=> Next1(q).up
      BY <3>1 DEF AtRecord
    <3> QED
      BY <3>1, <3>4, <3>5 DEF Next1
  <2>2. CASE q = p
    <3>1. RunNoTx(p)
      BY <1>1, <2>2, RecordComesNext
    <3>2. plan' = plan /\ schema' = Executed(Next1(p)) /\ ~Skipped(Next1(p))
      BY <3>1 DEF RunNoTx, Skipped
    <3>3. (Next1(p).version \in Executed(Next1(p))) <=> Next1(p).up
      BY <3>1, <3>2, NextFacts, CallFacts DEF Executed, RunNoTx
    <3> QED
      BY <2>2, <3>2, <3>3 DEF Next1
  <2> QED
    BY <2>1, <2>2
<1>2. CASE UNCHANGED vars
  BY <1>2 DEF vars, db, AtRecord, Next1
<1> QED
  BY <1>1, <1>2 DEF Next, AtRecord

LEMMA StickyStep ==
    ASSUME TypeOK, Locals, TableSound, Sticky, [Next]_vars
    PROVE  Sticky' /\ disturbed \subseteq disturbed'
<1> SUFFICES ASSUME NEW p \in Processes, Call(p) \/ Step(p) \/ Crash(p)
             PROVE  disturbed \subseteq disturbed' /\ noVersioning'[p] \subseteq disturbed'
  <2>1. CASE UNCHANGED vars
    BY <2>1 DEF vars, db, Sticky
  <2>2. ASSUME NEW p \in Processes, Call(p) \/ Step(p) \/ Crash(p),
               disturbed \subseteq disturbed', noVersioning'[p] \subseteq disturbed'
        PROVE  Sticky'
    <3>1. \A q \in Processes : q # p => noVersioning'[q] = noVersioning[q]
      BY <2>2, OthersAreLeftAlone DEF Others
    <3> QED
      BY <2>2, <3>1 DEF Sticky
  <2> QED
    BY <2>1, <2>2 DEF Next
<1>1. CASE \/ Call(p) \/ EnsureMissing(p) \/ CreateFails(p) \/ ListUp(p) \/ ListReset(p)
           \/ ListFails(p) \/ RunNoTx(p) \/ RunDone(p) \/ Return(p)
  BY <1>1 DEF Call, EnsureMissing, CreateFails, ListUp, ListReset, ListFails, RunNoTx, RunDone,
        Return, db, Sticky
<1>2. ASSUME NEW cur, Ensured(p, cur), disturbed' = disturbed
      PROVE  disturbed \subseteq disturbed' /\ noVersioning'[p] \subseteq disturbed'
  <2>1. noVersioning' = noVersioning \/ noVersioning' = [noVersioning EXCEPT ![p] = @ \ {cur}]
    BY <1>2 DEF Ensured, Report, WithCurrent
  <2> QED
    BY <1>2, <2>1 DEF Sticky, TypeOK
<1>3. CASE EnsureDBVersion(p) \/ createVersionTable(p)
  BY <1>2, <1>3 DEF EnsureDBVersion, createVersionTable, db
<1>4. CASE RunTx(p) \/ RunFails(p)
  <2>1. /\ disturbed \subseteq disturbed' /\ noVersioning' = Marked(p, Next1(p).version)
        /\ op[p].noVersioning => Next1(p).version \in disturbed'
    BY <1>4 DEF RunTx, RunFails, Parted
  <2> QED
    BY <2>1 DEF Marked, Sticky, TypeOK
<1>5. CASE RecordNoTx(p) \/ RecordFails(p)
  BY <1>5 DEF RecordNoTx, RecordFails, Sticky
<1>6. CASE Crash(p)
  BY <1>6 DEF Crash, Sticky, TypeOK
<1> QED
  BY <1>1, <1>3, <1>4, <1>5, <1>6 DEF Step

\* A migration that is executed and recorded is in step, and no other is moved.
LEMMA WrittenInStep ==
    ASSUME TypeOK, NEW m \in Entry
    PROVE  /\ \A v \in Versions : v # m.version =>
                 /\ v \in Executed(m) <=> v \in schema
                 /\ v \in ToSet(Recorded(m)) <=> v \in ToSet(rows)
           /\ m.version \notin Mixed => (m.version \in Executed(m) <=> m.up)
           /\ m.version \in ToSet(Recorded(m)) <=> m.up
<1>1. /\ m.up => ToSet(Recorded(m)) = ToSet(rows) \cup {m.version}
      /\ ~m.up => ToSet(Recorded(m)) = ToSet(rows) \ {m.version}
  BY RecordedProperties
<1>2. m.version \in Versions /\ m.up \in BOOLEAN
  BY DEF Entry
<1>3. ASSUME m.version \notin Mixed PROVE ~Skipped(m)
  BY <1>2, <1>3 DEF Mixed, Skipped, UseTx
<1>4. /\ \A v \in Versions : v # m.version => (v \in Executed(m) <=> v \in schema)
      /\ ~Skipped(m) => (m.version \in Executed(m) <=> m.up)
  BY <1>2 DEF Executed, Skipped
<1> QED
  BY <1>1, <1>3, <1>4

LEMMA InStepStep ==
    ASSUME TypeOK, Locals, TableSound, AtRecord, Sticky, InStep, [Next]_vars
    PROVE  InStep'
<1> SUFFICES ASSUME NEW p \in Processes, Call(p) \/ Step(p) \/ Crash(p),
                    NEW v \in Versions, v \notin disturbed', v \notin Mixed,
                    \A q \in Processes : pc'[q] = "record" => Next1(q)'.version # v
             PROVE  v \in schema' <=> v \in ToSet(rows')
  <2>1. CASE UNCHANGED vars
    BY <2>1 DEF vars, db, InStep, Mixed, Next1, ToSet
  <2>2. CASE Next
    BY <2>2 DEF Next, InStep, Mixed, ToSet
  <2> QED
    BY <2>1, <2>2
<1>1. v \notin disturbed
  BY StickyStep
<1>2. \A q \in Processes : pc[q] = "record" /\ Next1(q).version = v => q = p
  <2> SUFFICES ASSUME NEW q \in Processes, pc[q] = "record", Next1(q).version = v, q # p
               PROVE  FALSE
    OBVIOUS
  <2>1. pc'[q] = pc[q] /\ plan'[q] = plan[q]
    BY OthersAreLeftAlone DEF Others
  <2> QED
    BY <2>1 DEF Next1
<1>3. ~(pc[p] = "record" /\ Next1(p).version = v) => (v \in schema <=> v \in ToSet(rows))
  BY <1>1, <1>2 DEF InStep
<1>4. CASE UNCHANGED <<schema, rows>> /\ ~(pc[p] = "record" /\ Next1(p).version = v)
  BY <1>3, <1>4 DEF ToSet
<1>5. CASE \/ Call(p) \/ EnsureDBVersion(p) \/ EnsureMissing(p) \/ ListUp(p) \/ ListReset(p)
           \/ ListFails(p) \/ RunDone(p) \/ Return(p)
  BY <1>4, <1>5 DEF Call, EnsureDBVersion, EnsureMissing, ListUp, ListReset, ListFails, RunDone,
        Return, db
<1>6. CASE Crash(p)
  BY <1>4, <1>6 DEF Crash
<1>7. CASE createVersionTable(p) \/ CreateFails(p)
  <2>1. schema' = schema /\ pc[p] = "create" /\ (rows' = rows \/ (rows' = <<0>> /\ ~table))
    BY <1>7 DEF createVersionTable, CreateFails
  <2>2. CASE rows' = <<0>> /\ ~table
    <3>1. rows = <<>> /\ v # 0
      BY <2>2, VersionFacts DEF TableSound
    <3>2. v \notin ToSet(rows) /\ v \notin ToSet(<<0>>)
      BY <3>1 DEF ToSet
    <3> QED
      BY <1>3, <2>1, <2>2, <3>2 DEF ToSet
  <2> QED
    BY <1>4, <2>1, <2>2
<1>9. CASE RunTx(p) \/ RunNoTx(p) \/ RecordNoTx(p) \/ RecordFails(p) \/ RunFails(p)
  <2> DEFINE m == Next1(p)
  <2>1. plan[p] # <<>> /\ op[p] \in Op
    BY <1>9, CallFacts DEF RunTx, RunNoTx, RecordNoTx, RecordFails, RunFails, Locals
  <2>2. m \in Entry
    BY <2>1, NextFacts
  <2>3. /\ v # m.version => (v \in Executed(m) <=> v \in schema)
        /\ v # m.version => (v \in ToSet(Recorded(m)) <=> v \in ToSet(rows))
        /\ v = m.version => (v \in Executed(m) <=> m.up)
        /\ m.version \in ToSet(Recorded(m)) <=> m.up
    BY <2>2, WrittenInStep
  <2> HIDE DEF m
  <2>4. CASE RunTx(p)
    <3>1. Unversioned(p, m.version) => m.version \in disturbed'
      BY <2>4 DEF RunTx, Unversioned, Parted, Sticky, m
    <3>2. pc[p] = "run" /\ schema' = Executed(m)
          /\ (IF Unversioned(p, m.version) THEN rows' = rows ELSE rows' = Recorded(m))
      BY <2>4 DEF RunTx, m
    <3>3. v \in ToSet(rows)' <=> v \in ToSet(rows')
      BY DEF ToSet
    <3> QED
      BY <1>3, <2>3, <3>1, <3>2, <3>3
  <2>5. CASE RunNoTx(p)
    <3>1. pc[p] = "run" /\ schema' = Executed(m) /\ rows' = rows /\ plan' = plan
          /\ pc'[p] = "record"
      BY <2>5 DEF RunNoTx, Goto, TypeOK, m
    <3>2. v # m.version
      BY <3>1 DEF Next1, m
    <3> QED
      BY <1>3, <2>3, <3>1, <3>2 DEF ToSet
  <2>6. CASE RecordNoTx(p)
    <3>1. pc[p] = "record" /\ schema' = schema /\ rows' = Recorded(m)
      BY <2>6 DEF RecordNoTx, m
    <3>2. m.version \in schema <=> m.up
      BY <3>1 DEF AtRecord, m
    <3> QED
      BY <1>3, <2>3, <3>1, <3>2 DEF m
  <2>7. CASE RecordFails(p)
    <3>1. /\ pc[p] = "record" /\ schema' = schema /\ (rows' = rows \/ rows' = Recorded(m))
          /\ m.version \in disturbed'
      BY <2>7 DEF RecordFails, m
    <3> QED
      BY <1>3, <2>3, <3>1 DEF m
  <2>8. CASE RunFails(p)
    <3>1. Unversioned(p, m.version) \/ ~UseTx(m.version) => m.version \in disturbed'
      BY <2>8 DEF RunFails, Unversioned, Parted, Sticky, m
    <3>2. /\ pc[p] = "run"
          /\ \/ schema' = schema /\ rows' = rows
             \/ /\ schema' = Executed(m)
                /\ IF Unversioned(p, m.version) THEN rows' = rows ELSE rows' = Recorded(m)
             \/ ~UseTx(m.version) /\ rows' = rows /\ (schema' = schema \/ schema' = Executed(m))
      BY <2>8 DEF RunFails, m
    <3> QED
      BY <1>3, <2>3, <3>1, <3>2
  <2> QED
    BY <1>9, <2>4, <2>5, <2>6, <2>7, <2>8
<1> QED
  BY <1>5, <1>6, <1>7, <1>9 DEF Step

\* runSQLMigration, runGoMigration: a version is recorded exactly when its
\* statements are in effect, unless a failure outside a transaction or a call
\* without versioning parted the two - also in a process that runs the same
\* registered Go migrations with and without versioning, and beside Go migrations
\* of which run skips one direction (which are excepted).
THEOREM LegacyInStepCorrect == Spec => []InStep
<1>1. Init => AtRecord /\ Sticky /\ InStep
  BY DEF Init, AtRecord, Sticky, InStep, ToSet
<1>2. IInv /\ AtRecord /\ Sticky /\ InStep /\ [Next]_vars
      => (IInv /\ AtRecord /\ Sticky /\ InStep)'
  BY IInvStep, AtRecordStep, StickyStep, InStepStep DEF IInv
<1> QED
  BY <1>1, <1>2, IInvInit, PTL DEF Spec

-----------------------------------------------------------------------------
(* The promises of the calls *)

\* A process that calls goose with and without versioning has no Go migrations.
Unmixed ==
    \A p \in Processes : \A o, o2 \in Ops[p] :
        o.noVersioning = o2.noVersioning \/ \A v \in Versions : ~isGo(v)

OneMode ==
    \A p \in Processes :
        noVersioning[p] # {} => \A o \in Ops[p] : o.noVersioning

Now       == ToSet(rows) \ {0}
Before(p) == ToSet(start[p]) \ {0}
Left(p)   == Planned(plan[p])

\* Nothing has happened since the call began, but perhaps that the version table
\* was created.
Untouched(p) == rows = start[p] \/ (start[p] = <<>> /\ rows = <<0>>)

\* How far a call with versioning has got with what it promises.
UpUnderway(p) ==
    /\ \A v \in Found(p, op[p].target) : v \in Now \/ v \in Left(p)
    /\ \A v \in Now : v \in Before(p) \/ v \in Found(p, op[p].target)
    /\ \A v \in Left(p) : v \in Found(p, op[p].target)

UpByOneUnderway(p) ==
    \/ plan[p] = <<>> /\ \E v \in Versions \ Before(p) : Now = Before(p) \cup {v}
    \/ Now = Before(p) /\ \E v \in Versions \ Before(p) : plan[p] = <<UpOf(v)>>

DownUnderway(p) ==
    \/ plan[p] = <<>> /\ Now = Before(p) \ {Last(start[p])}
    \/ /\ Now = Before(p) /\ Last(start[p]) \in Versions
       /\ plan[p] = <<DownOf(Last(start[p]))>>

DownToUnderway(p) == \E v \in Versions : v > op[p].target /\ plan[p] = <<DownOf(v)>>

RedoUnderway(p) ==
    \/ plan[p] = <<>> /\ Now = Before(p)
    \/ \E v \in Before(p) : plan[p] = <<UpOf(v)>> /\ Now = Before(p) \ {v}
    \/ \E v \in Before(p) : plan[p] = <<DownOf(v), UpOf(v)>> /\ Now = Before(p)

ResetUnderway(p) ==
    /\ \A v \in Versions : v \in Now /\ v \notin Left(p) <=> v \in Before(p) /\ v \notin Files[p]
    /\ \A v \in Left(p) : v \in Files[p]

Underway(p) ==
    /\ op[p].kind \in {"up", "upTo"} => UpUnderway(p)
    /\ op[p].kind = "upByOne" => UpByOneUnderway(p)
    /\ op[p].kind = "down" => DownUnderway(p)
    /\ op[p].kind = "downTo" => DownToUnderway(p)
    /\ op[p].kind = "redo" => RedoUnderway(p)
    /\ op[p].kind = "reset" => ResetUnderway(p)

KeptBy(p) ==
    pc[p] # "idle" /\ Alone(op[p]) /\ ~op[p].noVersioning =>
        /\ pc[p] \in {"ensure", "create", "list", "final"} /\ op[p].kind # "downTo"
              => Untouched(p)
        /\ pc[p] = "final" => Found(p, op[p].target) \subseteq Now
        /\ pc[p] # "done" /\ op[p].kind = "downTo" =>
              \A v \in Before(p) : v \in Now \/ v > op[p].target
        /\ pc[p] \in {"run", "record"} => Underway(p)
        /\ pc[p] = "done" /\ ret[p] = "ok" => Promise(p)

Kept == \A p \in Processes : KeptBy(p)

\* With versioning, no migration of the process is marked noVersioning.
LEMMA OneModeStep ==
    ASSUME Unmixed, TypeOK, Locals, OneMode, [Next]_vars
    PROVE  OneMode'
<1> SUFFICES ASSUME NEW p \in Processes, Call(p) \/ Step(p) \/ Crash(p), noVersioning'[p] # {}
             PROVE  \A o \in Ops[p] : o.noVersioning
  <2>1. CASE UNCHANGED vars
    BY <2>1 DEF vars, OneMode
  <2>2. ASSUME NEW p \in Processes, Call(p) \/ Step(p) \/ Crash(p),
               noVersioning'[p] # {} => \A o \in Ops[p] : o.noVersioning
        PROVE  OneMode'
    <3>1. \A q \in Processes : q # p => noVersioning'[q] = noVersioning[q]
      BY <2>2, OthersAreLeftAlone DEF Others
    <3> QED
      BY <2>2, <3>1 DEF OneMode
  <2> QED
    BY <2>1, <2>2 DEF Next
<1>1. CASE noVersioning[p] # {}
  BY <1>1 DEF OneMode
<1>2. CASE noVersioning[p] = {}
  <2>1. CASE \/ Call(p) \/ EnsureMissing(p) \/ CreateFails(p) \/ ListUp(p) \/ ListReset(p)
             \/ ListFails(p) \/ RunNoTx(p) \/ RecordNoTx(p) \/ RecordFails(p) \/ RunDone(p)
             \/ Return(p) \/ Crash(p)
    BY <1>2, <2>1 DEF Call, EnsureMissing, CreateFails, ListUp, ListReset, ListFails, RunNoTx,
          RecordNoTx, RecordFails, RunDone, Return, Crash, TypeOK
  <2>2. ASSUME NEW cur, Ensured(p, cur) PROVE FALSE
    <3>1. noVersioning' = noVersioning \/ noVersioning' = [noVersioning EXCEPT ![p] = @ \ {cur}]
      BY <2>2 DEF Ensured, Report, WithCurrent
    <3> QED
      BY <1>2, <3>1 DEF TypeOK
  <2>3. CASE EnsureDBVersion(p) \/ createVersionTable(p)
    BY <2>2, <2>3 DEF EnsureDBVersion, createVersionTable
  <2>4. CASE RunTx(p) \/ RunFails(p)
    <3>1. /\ noVersioning' = Marked(p, Next1(p).version) /\ plan[p] # <<>>
          /\ op[p] \in Ops[p] /\ op[p] \in Op
      BY <2>4, CallFacts DEF RunTx, RunFails
    <3>2. op[p].noVersioning /\ isGo(Next1(p).version)
      BY <1>2, <3>1 DEF Marked
    <3>3. Next1(p).version \in Versions
      BY <3>1, NextFacts
    <3> QED
      BY <3>1, <3>2, <3>3 DEF Unmixed
  <2> QED
    BY <2>1, <2>3, <2>4 DEF Step
<1> QED
  BY <1>1, <1>2

\* The recorded versions.
LEMMA NowFacts ==
    ASSUME TypeOK, NEW p \in Processes
    PROVE  /\ Now \subseteq Versions /\ Before(p) \subseteq Versions
           /\ Untouched(p) => Now = Before(p)
<1>1. ToSet(rows) \subseteq Recordable /\ ToSet(start[p]) \subseteq Recordable
  BY ElementsTyped DEF TypeOK
<1>2. ToSet(<<>>) = {} /\ ToSet(<<0>>) = {0}
  BY DEF ToSet
<1> QED
  BY <1>1, <1>2 DEF Now, Before, Untouched, Recordable

LEMMA NowWritten ==
    ASSUME TypeOK, NEW m \in Entry, rows' = Recorded(m)
    PROVE  Now' = IF m.up THEN Now \cup {m.version} ELSE Now \ {m.version}
<1>1. ToSet(rows') = IF m.up THEN ToSet(rows) \cup {m.version} ELSE ToSet(rows) \ {m.version}
  BY RecordedProperties DEF Entry
<1>2. Now' = ToSet(rows') \ {0}
  BY DEF Now, ToSet
<1>3. m.version # 0 /\ m.up \in BOOLEAN
  BY VersionFacts DEF Entry
<1> QED
  BY <1>1, <1>2, <1>3 DEF Now

LEMMA NowSame ==
    ASSUME TableSound, UNCHANGED <<table, rows>> \/ TableCreated
    PROVE  Now' = Now
<1>1. CASE UNCHANGED <<table, rows>>
  BY <1>1 DEF Now, ToSet
<1>2. CASE TableCreated
  <2>1. rows = <<>> /\ rows' = <<0>>
    BY <1>2 DEF TableCreated, TableSound
  <2>2. ToSet(<<>>) = {} /\ ToSet(<<0>>) = {0}
    BY DEF ToSet
  <2>3. Now' = ToSet(rows') \ {0}
    BY DEF Now, ToSet
  <2> QED
    BY <2>1, <2>2, <2>3 DEF Now
<1> QED
  BY <1>1, <1>2

\* The steps of other processes, and those that only move the call on.
LEMMA KeptFrame ==
    ASSUME TypeOK, TableSound, NEW p \in Processes, KeptBy(p),
           UNCHANGED <<table, rows>> \/ TableCreated,
           op'[p] = op[p], plan'[p] = plan[p], start'[p] = start[p], ret'[p] = ret[p],
           \/ pc'[p] = pc[p]
           \/ pc[p] = "run" /\ pc'[p] = "record"
           \/ pc[p] \in {"ensure", "final"} /\ pc'[p] = "create"
           \/ pc[p] = "ensure" /\ pc'[p] = "list",
           op[p] \in Op \/ pc[p] = "idle"
    PROVE  KeptBy(p)'
<1> SUFFICES ASSUME pc[p] # "idle", Alone(op[p]), ~op[p].noVersioning
             PROVE  KeptBy(p)'
  BY DEF KeptBy, Alone
<1>1. Now' = Now /\ Before(p)' = Before(p) /\ Left(p)' = Left(p)
  BY NowSame DEF Before, Left, Planned, ToSet
<1>2. Untouched(p) => Untouched(p)'
  BY DEF Untouched, TableCreated, TableSound
<1>3. Underway(p) => Underway(p)'
  <2>1. UpUnderway(p) => UpUnderway(p)'
    BY <1>1 DEF UpUnderway, Found
  <2>2. UpByOneUnderway(p) => UpByOneUnderway(p)'
    BY <1>1 DEF UpByOneUnderway, UpOf
  <2>3. DownUnderway(p) => DownUnderway(p)'
    BY <1>1 DEF DownUnderway, DownOf, Last
  <2>4. DownToUnderway(p) => DownToUnderway(p)'
    BY <1>1 DEF DownToUnderway, DownOf
  <2>5. RedoUnderway(p) => RedoUnderway(p)'
    BY <1>1 DEF RedoUnderway, DownOf, UpOf
  <2>6. ResetUnderway(p) => ResetUnderway(p)'
    BY <1>1 DEF ResetUnderway
  <2> QED
    BY <2>1, <2>2, <2>3, <2>4, <2>5, <2>6 DEF Underway
<1>4. Promise(p) => Promise(p)'
  <2> SUFFICES ASSUME Promise(p) PROVE Promise(p)'
    OBVIOUS
  <2>1. op[p] \in Op /\ op[p].target \in Nat
    BY DEF Op
  <2>2. op[p].kind = "downTo" => Last(rows)' <= op[p].target
    <3>1. CASE UNCHANGED <<table, rows>>
      BY <3>1 DEF Promise, UpKinds, Alone, Last
    <3>2. CASE TableCreated
      <4>1. Last(<<0>>) = 0
        BY DEF Last
      <4> QED
        BY <2>1, <3>2, <4>1 DEF TableCreated, Last
    <3> QED
      BY <3>1, <3>2
  <2>3. CASE op[p].kind \in {"up", "upTo"}
    BY <1>1, <2>3 DEF Promise, Found, Now, Before
  <2>4. CASE op[p].kind = "upByOne"
    BY <1>1, <2>4 DEF Promise, Now, Before
  <2>5. CASE op[p].kind = "down"
    BY <1>1, <2>5 DEF Promise, Now, Before, Last
  <2>6. CASE op[p].kind = "downTo"
    BY <1>1, <2>2, <2>6 DEF Promise, Now, Before
  <2>7. CASE op[p].kind = "redo"
    BY <1>1, <2>7 DEF Promise, Now, Before
  <2>8. CASE op[p].kind = "reset"
    BY <1>1, <2>8 DEF Promise, Now, Before
  <2> QED
    BY <2>1, <2>3, <2>4, <2>5, <2>6, <2>7, <2>8 DEF Op, UpKinds, Alone
<1>5. Found(p, op[p].target)' = Found(p, op[p].target)
  BY DEF Found
<1> QED
  BY <1>1, <1>2, <1>3, <1>4, <1>5 DEF KeptBy, Alone

\* A migration is done: the call has got one further.
LEMMA KeptAfter ==
    ASSUME TypeOK, Fits, NEW p \in Processes, KeptBy(p), op[p] \in Op,
           pc[p] \in {"run", "record"}, Alone(op[p]), ~op[p].noVersioning, plan[p] # <<>>,
           op' = op, start' = start, rows' = Recorded(Next1(p)), plan'[p] = Tail(plan[p]),
           pc'[p] = IF op[p].kind = "downTo" THEN "ensure" ELSE "run"
    PROVE  KeptBy(p)'
<1> DEFINE m == Next1(p)
           s == plan[p]
<1>1. /\ s \in Seq(Entry) /\ m \in Entry /\ m = Head(s) /\ m.version \in Versions
      /\ Underway(p) /\ FitsBy(p)
  BY NextFacts DEF KeptBy, Fits, TypeOK, Next1
<1>2. Now' = IF m.up THEN Now \cup {m.version} ELSE Now \ {m.version}
  BY <1>1, NowWritten
<1>3. Before(p)' = Before(p)
  BY DEF Before, ToSet
<1>4. Left(p) = {m.version} \cup Left(p)'
  <2>1. Left(p)' = Planned(Tail(s))
    BY DEF Left, Planned
  <2> QED
    BY <1>1, <2>1, PlanTail DEF Left
<1>5. Now \subseteq Versions /\ Before(p) \subseteq Versions
  BY NowFacts
<1>6. CASE op[p].kind \in {"up", "upTo"}
  <2>1. UpUnderway(p) /\ m.up
    BY <1>1, <1>6, PlanTail DEF Underway, FitsBy, UpKinds
  <2>2. UpUnderway(p)'
    BY <1>2, <1>3, <1>4, <2>1 DEF UpUnderway, Found
  <2> QED
    BY <1>6, <2>2 DEF KeptBy, Underway
<1>7. CASE op[p].kind = "upByOne"
  <2>1. UpByOneUnderway(p)
    BY <1>1, <1>7 DEF Underway
  <2>2. PICK v \in Versions \ Before(p) : s = <<UpOf(v)>>
    BY <2>1 DEF UpByOneUnderway
  <2>3. Now = Before(p)
    BY <2>1 DEF UpByOneUnderway
  <2>4. m = UpOf(v) /\ Tail(s) = <<>>
    BY <1>1, <2>2, SinglePlans
  <2>5. Now' = Before(p) \cup {v} /\ plan'[p] = <<>>
    BY <1>2, <2>3, <2>4 DEF UpOf
  <2>6. UpByOneUnderway(p)'
    BY <1>3, <2>5 DEF UpByOneUnderway
  <2> QED
    BY <1>7, <2>6 DEF KeptBy, Underway
<1>8. CASE op[p].kind = "down"
  <2>1. DownUnderway(p)
    BY <1>1, <1>8 DEF Underway
  <2>2. Now = Before(p) /\ Last(start[p]) \in Versions /\ s = <<DownOf(Last(start[p]))>>
    BY <2>1 DEF DownUnderway
  <2>3. m = DownOf(Last(start[p])) /\ Tail(s) = <<>>
    BY <1>1, <2>2, SinglePlans
  <2>4. Now' = Before(p) \ {Last(start[p])} /\ plan'[p] = <<>>
    BY <1>2, <2>2, <2>3 DEF DownOf
  <2>5. DownUnderway(p)'
    BY <1>3, <2>4 DEF DownUnderway, Last
  <2> QED
    BY <1>8, <2>5 DEF KeptBy, Underway
<1>9. CASE op[p].kind = "downTo"
  <2>1. DownToUnderway(p) /\ \A v \in Before(p) : v \in Now \/ v > op[p].target
    BY <1>1, <1>9 DEF Underway, KeptBy
  <2>2. PICK v \in Versions : v > op[p].target /\ s = <<DownOf(v)>>
    BY <2>1 DEF DownToUnderway
  <2>3. m = DownOf(v)
    BY <1>1, <2>2, SinglePlans
  <2>4. Now' = Now \ {v}
    BY <1>2, <2>3 DEF DownOf
  <2>5. (\A w \in Before(p) : w \in Now \/ w > op[p].target)'
    BY <1>3, <2>1, <2>2, <2>4
  <2> QED
    BY <1>9, <2>5 DEF KeptBy
<1>10. CASE op[p].kind = "redo"
  <2>1. RedoUnderway(p)
    BY <1>1, <1>10 DEF Underway
  <2>2. RedoUnderway(p)'
    <3>1. CASE \E v \in Before(p) : s = <<UpOf(v)>> /\ Now = Before(p) \ {v}
      <4>1. PICK v \in Before(p) : s = <<UpOf(v)>> /\ Now = Before(p) \ {v}
        BY <3>1
      <4>2. v \in Versions
        BY <1>5
      <4>3. m = UpOf(v) /\ Tail(s) = <<>>
        BY <1>1, <4>1, <4>2, SinglePlans
      <4>4. Now' = Before(p) /\ plan'[p] = <<>>
        BY <1>2, <4>1, <4>3 DEF UpOf
      <4> QED
        BY <1>3, <4>4 DEF RedoUnderway
    <3>2. CASE \E v \in Before(p) : s = <<DownOf(v), UpOf(v)>> /\ Now = Before(p)
      <4>1. PICK v \in Before(p) : s = <<DownOf(v), UpOf(v)>> /\ Now = Before(p)
        BY <3>2
      <4>2. v \in Versions
        BY <1>5
      <4>3. m = DownOf(v) /\ Tail(s) = <<UpOf(v)>>
        BY <1>1, <4>1, <4>2, SinglePlans
      <4>4. Now' = Before(p) \ {v} /\ plan'[p] = <<UpOf(v)>>
        BY <1>2, <4>1, <4>3 DEF DownOf
      <4> QED
        BY <1>3, <4>4 DEF RedoUnderway, UpOf
    <3> QED
      BY <2>1, <3>1, <3>2 DEF RedoUnderway
  <2> QED
    BY <1>10, <2>2 DEF KeptBy, Underway
<1>11. CASE op[p].kind = "reset"
  <2>1. ResetUnderway(p) /\ ~m.up
    BY <1>1, <1>11, PlanTail DEF Underway, FitsBy, UpKinds
  <2>2. ResetUnderway(p)'
    BY <1>2, <1>3, <1>4, <2>1 DEF ResetUnderway
  <2> QED
    BY <1>11, <2>2 DEF KeptBy, Underway
<1> QED
  BY <1>6, <1>7, <1>8, <1>9, <1>10, <1>11 DEF Op, UpKinds, Alone

\* The last migration is done: the promise is kept.
LEMMA KeptAtEnd ==
    ASSUME TypeOK, NEW p \in Processes, KeptBy(p), op[p] \in Op, RunDone(p)
    PROVE  KeptBy(p)'
<1> SUFFICES ASSUME Alone(op[p]), ~op[p].noVersioning PROVE Promise(p)'
  <2>1. pc'[p] = "done" /\ op' = op
    BY DEF RunDone, Finish, Goto, TypeOK
  <2> QED
    BY <2>1 DEF KeptBy, Alone
<1>1. pc[p] = "run" /\ plan[p] = <<>> /\ rows' = rows /\ start' = start /\ op' = op
  BY DEF RunDone, db
<1>2. Underway(p)
  BY <1>1 DEF KeptBy
<1>3. Now' = Now /\ Before(p)' = Before(p)
  BY <1>1 DEF Now, Before, ToSet
<1>4. CASE op[p].kind \in {"up", "upTo"}
  <2>1. UpUnderway(p)
    BY <1>2, <1>4 DEF Underway
  <2>2. Left(p) = {}
    BY <1>1 DEF Left, Planned
  <2> QED
    BY <1>1, <1>3, <1>4, <2>1, <2>2 DEF UpUnderway, Promise, Found, Now, Before
<1>5. CASE op[p].kind = "upByOne"
  <2>1. UpByOneUnderway(p)
    BY <1>2, <1>5 DEF Underway
  <2>2. PICK v \in Versions \ Before(p) : Now = Before(p) \cup {v}
    BY <1>1, <2>1 DEF UpByOneUnderway
  <2>3. Now \ Before(p) = {v} /\ Before(p) \subseteq Now
    BY <2>2
  <2>4. Cardinality(Now \ Before(p)) = 1
    BY <2>3, FS_Singleton
  <2>5. Cardinality(Now \ Before(p))' = 1
    BY <1>3, <2>4
  <2> QED
    BY <1>1, <1>3, <1>5, <2>3, <2>5 DEF Promise, Now, Before
<1>6. CASE op[p].kind = "down"
  <2>1. DownUnderway(p)
    BY <1>2, <1>6 DEF Underway
  <2>2. Now = Before(p) \ {Last(start[p])}
    BY <1>1, <2>1 DEF DownUnderway
  <2> QED
    BY <1>1, <1>3, <1>6, <2>2 DEF Promise, Now, Before, Last
<1>7. CASE op[p].kind = "downTo"
  BY <1>1, <1>2, <1>7 DEF Underway, DownToUnderway
<1>8. CASE op[p].kind = "redo"
  <2>1. RedoUnderway(p)
    BY <1>2, <1>8 DEF Underway
  <2>2. Now = Before(p)
    BY <1>1, <2>1 DEF RedoUnderway
  <2> QED
    BY <1>1, <1>3, <1>8, <2>2 DEF Promise, Now, Before
<1>9. CASE op[p].kind = "reset"
  <2>1. ResetUnderway(p)
    BY <1>2, <1>9 DEF Underway
  <2>2. Left(p) = {}
    BY <1>1 DEF Left, Planned
  <2>3. Now \subseteq Versions /\ Before(p) \subseteq Versions
    BY NowFacts
  <2>4. Now = Before(p) \ Files[p]
    BY <2>1, <2>2, <2>3 DEF ResetUnderway
  <2> QED
    BY <1>1, <1>3, <1>9, <2>4 DEF Promise, Now, Before
<1> QED
  BY <1>4, <1>5, <1>6, <1>7, <1>8, <1>9 DEF Op, UpKinds, Alone

\* The call of p at the current version.
LEMMA KeptEnsured ==
    ASSUME TypeOK, Locals, TableSound, NEW p \in Processes, KeptBy(p),
           pc[p] \in {"ensure", "final", "create"}, NEW cur \in Recordable, EnsuredEffect(p, cur),
           op' = op, start' = start,
           \/ table /\ UNCHANGED <<table, rows>> /\ cur = Last(rows) /\ pc[p] # "create"
           \/ TableCreated /\ cur = 0 /\ pc[p] = "create"
    PROVE  KeptBy(p)'
<1>1. op[p] \in Op /\ ~op[p].noVersioning /\ op[p].target \in Nat
  BY CallFacts DEF Locals
<1>2. Now' = Now /\ Before(p)' = Before(p)
  BY NowSame DEF Before, ToSet
<1>3. ASSUME NEW s, NEW r, r # "ok", Goes(p, "done", s, r) PROVE KeptBy(p)'
  <2>1. pc'[p] = "done" /\ ret'[p] # "ok"
    BY <1>3 DEF Goes, TypeOK
  <2> QED
    BY <2>1 DEF KeptBy
<1>4. Now \subseteq Versions /\ Before(p) \subseteq Versions /\ (Untouched(p) => Now = Before(p))
  BY NowFacts
<1>5. Untouched(p) => Untouched(p)'
  BY DEF Untouched, TableCreated, TableSound
<1>6. CASE ~Alone(op[p])
  BY <1>6 DEF KeptBy, Alone
<1>7. CASE op[p].kind \in UpKinds
  <2>0. Untouched(p)
    BY <1>1, <1>7 DEF KeptBy, UpKinds, Alone
  <2>1. CASE Goes(p, "list", plan[p], ret[p])
    <3>1. pc'[p] = "list"
      BY <2>1 DEF Goes, TypeOK
    <3> QED
      BY <1>5, <1>7, <2>0, <3>1 DEF KeptBy, UpKinds
  <2>2. CASE /\ pc[p] = "final"
             /\ \E r \in {"ok", "noNext"} :
                   Goes(p, "done", plan[p], r) /\ (r = "ok" => op[p].kind # "upByOne")
    <3>1. PICK r \in {"ok", "noNext"} :
              Goes(p, "done", plan[p], r) /\ (r = "ok" => op[p].kind # "upByOne")
      BY <2>2
    <3>2. CASE r = "ok"
      <4>1. pc'[p] = "done" /\ op[p].kind \in {"up", "upTo"}
        BY <1>7, <3>1, <3>2 DEF Goes, TypeOK, UpKinds
      <4>2. Found(p, op[p].target) \subseteq Now /\ Now = Before(p)
        BY <1>1, <1>4, <2>0, <2>2, <4>1 DEF KeptBy, Alone
      <4>3. Found(p, op[p].target)' = Found(p, op[p].target)
        BY DEF Found
      <4>4. Promise(p)'
        BY <1>2, <4>1, <4>2, <4>3 DEF Promise, Now, Before
      <4> QED
        BY <4>1, <4>4 DEF KeptBy
    <3> QED
      BY <1>3, <3>1, <3>2
  <2> QED
    BY <1>7, <2>1, <2>2 DEF EnsuredEffect, UpKinds
<1>8. CASE op[p].kind \in {"down", "downTo", "redo"}
  <2>1. CASE op[p].kind = "downTo" /\ cur <= op[p].target /\ Goes(p, "done", plan[p], "ok")
    <3>1. \A v \in Before(p) : v \in Now \/ v > op[p].target
      BY <1>1, <2>1 DEF KeptBy, Alone
    <3>2. Last(rows)' <= op[p].target
      <4>1. Last(<<0>>) = 0
        BY DEF Last
      <4> QED
        BY <2>1, <4>1 DEF TableCreated, Last
    <3>3. Promise(p)'
      BY <1>2, <2>1, <3>1, <3>2 DEF Promise, Now, Before
    <3>4. pc'[p] = "done"
      BY <2>1 DEF Goes, TypeOK
    <3> QED
      BY <3>3, <3>4 DEF KeptBy
  <2>2. CASE Goes(p, "done", plan[p], "err")
    BY <1>3, <2>2
  <2>a. cur \in Files[p] => cur \in Versions /\ cur # 0 /\ rows' = rows /\ rows # <<>>
    BY VersionFacts DEF TableSound, RowsAreSound
  <2>b. cur \in Files[p] => cur \in Now /\ cur = Last(rows)
    <3> SUFFICES ASSUME cur \in Files[p] PROVE cur \in Now /\ cur = Last(rows)
      OBVIOUS
    <3>1. cur = Last(rows)
      BY <2>a
    <3>2. Last(rows) \in ToSet(rows)
      BY <2>a, LastRow DEF TypeOK
    <3> QED
      BY <2>a, <3>1, <3>2 DEF Now
  <2>c. op[p].kind # "downTo" /\ cur \in Files[p] => rows = start[p] /\ Now = Before(p)
    <3>1. op[p].kind # "downTo" => Untouched(p)
      BY <1>1, <1>8 DEF KeptBy, Alone
    <3>2. Last(<<0>>) = 0
      BY DEF Last
    <3> QED
      BY <1>4, <2>a, <2>b, <3>1, <3>2 DEF Untouched
  <2>3. CASE /\ op[p].kind \in {"down", "downTo"} /\ cur \in Files[p]
             /\ op[p].kind = "downTo" => cur > op[p].target
             /\ Goes(p, "run", <<DownOf(cur)>>, ret[p])
    <3>1. pc'[p] = "run" /\ plan'[p] = <<DownOf(cur)>>
      BY <2>3 DEF Goes, TypeOK
    <3>2. CASE op[p].kind = "down"
      <4>1. Last(start[p]) = cur /\ Now = Before(p)
        BY <2>3, <2>b, <2>c, <3>2
      <4>2. DownUnderway(p)'
        BY <1>2, <2>3, <2>a, <3>1, <4>1 DEF DownUnderway, DownOf, Last
      <4> QED
        BY <3>1, <3>2, <4>2 DEF KeptBy, Underway
    <3>3. CASE op[p].kind = "downTo"
      <4>1. \A v \in Before(p) : v \in Now \/ v > op[p].target
        BY <1>1, <3>3 DEF KeptBy, Alone
      <4>2. DownToUnderway(p)'
        BY <2>3, <2>a, <3>1, <3>3 DEF DownToUnderway, DownOf
      <4> QED
        BY <1>2, <3>1, <3>3, <4>1, <4>2 DEF KeptBy, Underway
    <3> QED
      BY <2>3, <3>2, <3>3
  <2>4. CASE /\ op[p].kind = "redo" /\ cur \in Files[p]
             /\ Goes(p, "run", <<DownOf(cur), UpOf(cur)>>, ret[p])
    <3>1. pc'[p] = "run" /\ plan'[p] = <<DownOf(cur), UpOf(cur)>>
      BY <2>4 DEF Goes, TypeOK
    <3>2. cur \in Before(p) /\ Now = Before(p)
      BY <2>4, <2>b, <2>c
    <3>3. RedoUnderway(p)'
      BY <1>2, <3>1, <3>2 DEF RedoUnderway, DownOf, UpOf
    <3> QED
      BY <2>4, <3>1, <3>3 DEF KeptBy, Underway
  <2> QED
    BY <1>8, <2>1, <2>2, <2>3, <2>4 DEF EnsuredEffect, UpKinds
<1> QED
  BY <1>1, <1>6, <1>7, <1>8 DEF EnsuredEffect, Alone

LEMMA KeptListed ==
    ASSUME TypeOK, Locals, TableSound, NEW p \in Processes, KeptBy(p),
           ListUp(p) \/ ListReset(p)
    PROVE  KeptBy(p)'
<1>1. op[p] \in Op /\ ~op[p].noVersioning /\ op[p].target \in Nat /\ pc[p] = "list"
  BY CallFacts DEF Locals, ListUp, ListReset
<1>2. UNCHANGED <<table, rows>> /\ op' = op /\ start' = start
  BY DEF ListUp, ListReset, db
<1>3. Now' = Now /\ Before(p)' = Before(p) /\ Untouched(p)' = Untouched(p)
  BY <1>2 DEF Now, Before, ToSet, Untouched
<1>4. Untouched(p) /\ Now = Before(p)
  <2>1. op[p].kind # "downTo" /\ Alone(op[p])
    BY DEF ListUp, ListReset, UpKinds, Alone
  <2> QED
    BY <1>1, <2>1, NowFacts DEF KeptBy
<1>5. CASE ListUp(p) /\ Finish(p, "err")
  BY <1>5 DEF Finish, Goto, TypeOK, KeptBy
<1>6. CASE /\ ListUp(p) /\ plan' = [plan EXCEPT ![p] = UpPlan(p)]
           /\ Goto(p, IF UpPlan(p) = <<>> THEN "final" ELSE "run")
  <2> DEFINE F == Found(p, op[p].target)
  <2>1. op[p].kind \in UpKinds /\ rows # <<>>
    BY <1>6 DEF ListUp
  <2>2. /\ \A v \in Planned(UpPlan(p)) : v \in F /\ v \notin ToSet(rows)
        /\ op[p].kind # "upByOne" \/ UpPlan(p) = <<>> =>
              \A v \in F : v \in ToSet(rows) \/ v \in Planned(UpPlan(p))
        /\ op[p].kind = "upByOne" /\ UpPlan(p) # <<>> =>
              \E v \in F : v \notin ToSet(rows) /\ UpPlan(p) = <<UpOf(v)>>
    BY <1>1, <2>1, UpPlanProperties
  <2>3. plan'[p] = UpPlan(p) /\ Left(p)' = Planned(UpPlan(p))
    BY <1>6 DEF TypeOK, Left, Planned
  <2>4. F' = F /\ \A v \in F : v \in Versions /\ v # 0
    BY <1>2, VersionFacts DEF Found
  <2> HIDE DEF F
  <2>5. CASE UpPlan(p) = <<>>
    <3>1. Planned(<<>>) = {}
      BY DEF Planned
    <3>2. \A v \in F : v \in ToSet(rows)
      BY <2>2, <2>5, <3>1
    <3>3. F \subseteq Now
      BY <2>4, <3>2 DEF Now
    <3>4. pc'[p] = "final"
      BY <1>6, <2>5 DEF Goto, TypeOK
    <3> QED
      BY <1>2, <1>3, <1>4, <2>1, <2>4, <3>3, <3>4 DEF KeptBy, UpKinds, F
  <2>6. CASE UpPlan(p) # <<>>
    <3>1. pc'[p] = "run"
      BY <1>6, <2>6 DEF Goto, TypeOK
    <3>2. CASE op[p].kind = "upByOne"
      <4>1. PICK v \in F : v \notin ToSet(rows) /\ UpPlan(p) = <<UpOf(v)>>
        BY <2>2, <2>6, <3>2
      <4>2. v \in Versions \ Before(p) /\ plan'[p] = <<UpOf(v)>>
        BY <1>4, <2>3, <2>4, <4>1 DEF Now
      <4>3. UpByOneUnderway(p)'
        BY <1>3, <1>4, <4>2 DEF UpByOneUnderway, UpOf
      <4> QED
        BY <1>2, <3>1, <3>2, <4>3 DEF KeptBy, Underway
    <3>3. CASE op[p].kind \in {"up", "upTo"}
      <4>1. \A v \in F : v \in Now \/ v \in Left(p)'
        BY <2>2, <2>3, <2>4, <3>3 DEF Now
      <4>2. UpUnderway(p)'
        BY <1>3, <1>4, <2>2, <2>3, <2>4, <4>1 DEF UpUnderway, F
      <4> QED
        BY <1>2, <3>1, <3>3, <4>2 DEF KeptBy, Underway
    <3> QED
      BY <2>1, <3>2, <3>3 DEF UpKinds
  <2> QED
    BY <2>5, <2>6
<1>7. CASE ListReset(p)
  <2>1. pc'[p] = "run" /\ op[p].kind = "reset"
        /\ plan'[p] = Run(Descending(Files[p] \cap ToSet(rows)), FALSE)
    BY <1>7 DEF ListReset, Goto, TypeOK
  <2>2. Left(p)' = Files[p] \cap ToSet(rows)
    <3>1. Left(p)' = Planned(plan'[p])
      BY DEF Left, Planned
    <3> QED
      BY <2>1, <3>1, ResetPlan
  <2>3. \A v \in Versions : v # 0
    BY VersionFacts
  <2>4. ResetUnderway(p)'
    BY <1>3, <1>4, <2>2, <2>3 DEF ResetUnderway, Now
  <2> QED
    BY <1>2, <2>1, <2>4 DEF KeptBy, Underway
<1> QED
  BY <1>5, <1>6, <1>7 DEF ListUp

\* No step breaks what a call has got done.
LEMMA KeptStep ==
    ASSUME TypeOK, Locals, TableSound, Fits, OneMode, Kept, [Next]_vars
    PROVE  Kept'
<1>1. \A p \in Processes : op[p] \in Op \/ pc[p] = "idle"
  BY CallFacts
\* The calls of the other processes.
<1>2. ASSUME NEW p \in Processes, Call(p) \/ Step(p) \/ Crash(p), NEW q \in Processes, q # p
      PROVE  KeptBy(q)'
  <2>1. /\ pc'[q] = pc[q] /\ op'[q] = op[q] /\ plan'[q] = plan[q] /\ start'[q] = start[q]
        /\ ret'[q] = ret[q]
    BY <1>2, OthersAreLeftAlone DEF Others
  <2>2. KeptBy(q)
    BY DEF Kept
  <2>3. CASE UNCHANGED <<table, rows>> \/ TableCreated
    BY <1>1, <2>1, <2>2, <2>3, KeptFrame
  <2>4. CASE TableWritten(p)
    <3>1. pc[p] # "idle" /\ Alone(op[p])
      BY <2>4 DEF TableWritten, Locals
    <3>2. ~(pc[q] # "idle" /\ Alone(op[q]))
      BY <1>2, <3>1 DEF Locals
    <3> QED
      BY <2>1, <3>2 DEF KeptBy, Alone
  <2> QED
    BY <1>2, <2>3, <2>4, TableCases
\* The call of the process itself.
<1>3. ASSUME NEW p \in Processes, Call(p) PROVE KeptBy(p)'
  <2>1. PICK o \in Ops[p] :
          /\ op' = [op EXCEPT ![p] = o]
          /\ \/ NoFiles(p, o) /\ Finish(p, "err") /\ UNCHANGED plan
             \/ /\ ~NoFiles(p, o) /\ o.noVersioning
                /\ plan' = [plan EXCEPT ![p] = NoVersioningPlan(p, o)]
                /\ Goto(p, "run") /\ UNCHANGED ret
             \/ /\ ~NoFiles(p, o) /\ ~o.noVersioning
                /\ Goto(p, IF o.kind = "reset" THEN "list" ELSE "ensure")
                /\ UNCHANGED <<plan, ret>>
    BY <1>3 DEF Call
  <2>2. start'[p] = rows /\ rows' = rows /\ op'[p] = o
    BY <1>3, <2>1 DEF Call, db, TypeOK
  <2>3. Untouched(p)' /\ Now' = Before(p)'
    BY <2>2 DEF Untouched, Now, Before, ToSet
  <2>4. CASE Finish(p, "err")
    BY <2>4 DEF Finish, Goto, TypeOK, KeptBy
  <2>5. CASE o.noVersioning
    BY <2>2, <2>5 DEF KeptBy
  <2>6. CASE Goto(p, IF o.kind = "reset" THEN "list" ELSE "ensure")
    <3>1. pc'[p] \in {"list", "ensure"}
      BY <2>6 DEF Goto, TypeOK
    <3> QED
      BY <2>3, <3>1 DEF KeptBy
  <2> QED
    BY <2>1, <2>4, <2>5, <2>6
<1>4. ASSUME NEW p \in Processes, EnsureDBVersion(p) PROVE KeptBy(p)'
  <2>1. rows # <<>> /\ op[p] \in Op
    BY <1>4, CallFacts DEF EnsureDBVersion, TableSound, RowsAreSound
  <2>2. Last(rows) \in Recordable
    BY <2>1, LastRow DEF TypeOK
  <2>3. EnsuredEffect(p, Last(rows))
    BY <1>4, <2>1, <2>2, EnsuredCases DEF EnsureDBVersion
  <2>4. /\ pc[p] \in {"ensure", "final"} /\ table /\ UNCHANGED <<table, rows>>
        /\ op' = op /\ start' = start /\ KeptBy(p)
    BY <1>4 DEF EnsureDBVersion, db, Kept
  <2> QED
    BY <2>2, <2>3, <2>4, KeptEnsured
<1>5. ASSUME NEW p \in Processes, createVersionTable(p) PROVE KeptBy(p)'
  <2>1. op[p] \in Op /\ 0 \in Recordable
    BY <1>5, CallFacts DEF createVersionTable, Recordable
  <2>2. EnsuredEffect(p, 0)
    BY <1>5, <2>1, EnsuredCases DEF createVersionTable
  <2>3. /\ pc[p] = "create" /\ TableCreated /\ op' = op /\ start' = start /\ KeptBy(p)
    BY <1>5 DEF createVersionTable, TableCreated, Kept
  <2> QED
    BY <2>1, <2>2, <2>3, KeptEnsured
<1>6. ASSUME NEW p \in Processes, EnsureMissing(p) \/ RunNoTx(p) PROVE KeptBy(p)'
  <2>1. /\ UNCHANGED <<table, rows, op, plan, start, ret>> /\ KeptBy(p)
        /\ \/ pc[p] = "run" /\ pc'[p] = "record"
           \/ pc[p] \in {"ensure", "final"} /\ pc'[p] = "create"
    BY <1>6 DEF EnsureMissing, RunNoTx, Goto, TypeOK, db, Kept
  <2> QED
    BY <1>1, <2>1, KeptFrame
<1>7. ASSUME NEW p \in Processes, ListUp(p) \/ ListReset(p) PROVE KeptBy(p)'
  BY <1>7, KeptListed DEF Kept
<1>8. ASSUME NEW p \in Processes, RunTx(p) \/ RecordNoTx(p) PROVE KeptBy(p)'
  <2>1. CASE op[p].noVersioning
    BY <1>8, <2>1 DEF RunTx, RecordNoTx, KeptBy
  <2>2. CASE ~op[p].noVersioning
    <3>1. pc[p] \in {"run", "record"} /\ plan[p] # <<>> /\ op' = op /\ start' = start /\ Advance(p)
      BY <1>8 DEF RunTx, RecordNoTx, Locals
    <3>2. op[p] \in Op /\ op[p] \in Ops[p] /\ Alone(op[p])
      BY <3>1, CallFacts DEF Locals
    <3>3. noVersioning[p] = {}
      BY <2>2, <3>2 DEF OneMode
    <3>4. rows' = Recorded(Next1(p))
      BY <1>8, <2>2, <3>3 DEF RunTx, RecordNoTx, Unversioned
    <3>5. /\ plan'[p] = Tail(plan[p])
          /\ pc'[p] = IF op[p].kind = "downTo" THEN "ensure" ELSE "run"
      BY <2>2, <3>1 DEF Advance, Goto, TypeOK
    <3>6. KeptBy(p)
      BY DEF Kept
    <3> QED
      BY <2>2, <3>1, <3>2, <3>4, <3>5, <3>6, KeptAfter
  <2> QED
    BY <2>1, <2>2
<1>9. ASSUME NEW p \in Processes, RunDone(p) PROVE KeptBy(p)'
  <2>1. op[p] \in Op /\ KeptBy(p)
    BY <1>9, CallFacts DEF RunDone, Kept
  <2> QED
    BY <1>9, <2>1, KeptAtEnd
<1>10. ASSUME NEW p \in Processes, Finish(p, "err") PROVE KeptBy(p)'
  BY <1>10 DEF Finish, Goto, TypeOK, KeptBy
<1>11. ASSUME NEW p \in Processes, CreateFails(p) \/ ListFails(p) \/ RecordFails(p) \/ RunFails(p)
       PROVE  KeptBy(p)'
  BY <1>10, <1>11 DEF CreateFails, ListFails, RecordFails, RunFails
<1>12. ASSUME NEW p \in Processes, Return(p) \/ Crash(p) PROVE KeptBy(p)'
  BY <1>12 DEF Return, Crash, Forget, Goto, TypeOK, KeptBy
<1>13. ASSUME NEW p \in Processes, Call(p) \/ Step(p) \/ Crash(p) PROVE Kept'
  <2>1. KeptBy(p)'
    BY <1>3, <1>4, <1>5, <1>6, <1>7, <1>8, <1>9, <1>11, <1>12, <1>13 DEF Step
  <2> QED
    BY <1>2, <1>13, <2>1 DEF Kept
<1>14. CASE UNCHANGED vars
  BY <1>1, <1>14, KeptFrame DEF vars, db, Kept
<1> QED
  BY <1>13, <1>14 DEF Next

\* A call that reports success has done what its name says to the version
\* table, whatever earlier calls, failures and other releases left behind: Up
\* and UpTo, UpByOne, Down, DownTo, Redo and Reset, see Promise.  The hypothesis:
\* run(noVersioning) sticks to a registered Go migration, so a process that has
\* such migrations keeps to one mode.
THEOREM CallKeepsPromiseCorrect ==
    ASSUME Unmixed PROVE Spec => []CallKeepsPromise
<1> DEFINE Inv == IInv /\ OneMode /\ Kept
<1>1. Init => Inv
  BY IInvInit DEF Init, OneMode, Kept, KeptBy
<1>2. Inv /\ [Next]_vars => Inv'
  BY IInvStep, OneModeStep, KeptStep DEF IInv
<1>3. Inv => CallKeepsPromise
  <2> SUFFICES ASSUME Inv, NEW p \in Processes, pc[p] = "done", ret[p] = "ok" PROVE Promise(p)
    BY DEF CallKeepsPromise
  <2>1. CASE Alone(op[p]) /\ ~op[p].noVersioning
    BY <2>1 DEF Kept, KeptBy
  <2>2. CASE ~Alone(op[p]) \/ op[p].noVersioning
    BY <2>2 DEF Promise, Alone
  <2> QED
    BY <2>1, <2>2
<1> QED
  BY <1>1, <1>2, <1>3, PTL DEF Spec
=============================================================================
