---------------------------- MODULE CollectProofs ----------------------------
(***************************************************************************)
(* The properties of Collect for directories, registries and lists of      *)
(* options of every size.                                                  *)
(*                                                                         *)
(* Create and Fix: the invariant Inv keeps the versions that Create -s and *)
(* Fix give apart from the timestamps.  A sequential version is at most as *)
(* far above the given ones as there are files (Room), and during Fix the  *)
(* next version is free and all timestamps that are left are still to be   *)
(* replaced, the oldest first (FixFits).  So a step that changes the       *)
(* directory adds a file, with a version of its own unless it is that of   *)
(* the second in which Create was last called (Adds), or replaces the      *)
(* oldest timestamp by a version above all others that are no timestamps   *)
(* (Renames).                                                              *)
(*                                                                         *)
(* NewProvider: what Merged and Collected are sets of follows from their   *)
(* definitions; that a built list is the one of this moment, because       *)
(* nothing but Return comes between.                                       *)
(*                                                                         *)
(* Options: Acceptable and Makes say which lists are accepted, and what    *)
(* they amount to, by the set of their positions; of an option of which    *)
(* the last wins Makes says that it is one of its kind.  One option more   *)
(* makes them true of one position more (OptionStep), so they are true of  *)
(* whole lists (ConfiguredExact), and they do not depend on the order      *)
(* (Reordered).                                                            *)
(***************************************************************************)
EXTENDS Collect, VersionListsProofs

-----------------------------------------------------------------------------
(* Types *)

Migration == [version : Nat, type : {"sql", "go"}, registered : BOOLEAN]

\* A version is a timestamp or a number that is far below.
Fair(v) == v < Epoch \/ (v \in Times /\ v > Epoch)

Registry(g) == IsFiniteSet(DOMAIN g) /\ DOMAIN g \subseteq Nat

TypeOK == /\ dir \in SUBSET File /\ IsFiniteSet(dir)
          /\ Registry(global) /\ DOMAIN global \subseteq GivenVersions
          /\ fixing \in [todo : Seq(Migration), next : Nat]
          /\ \A f \in dir : Fair(f.version)
          /\ now \in Nat
          /\ result.opts \in OptionLists \cup {<<>>}

\* The values of a function on a finite set.
LEMMA ImageFinite ==
    ASSUME NEW S, IsFiniteSet(S), NEW f, f = [x \in S |-> f[x]]
    PROVE  IsFiniteSet({f[x] : x \in S})
<1> DEFINE T == {f[x] : x \in S}
<1>1. f \in [S -> T] /\ \A t \in T : \E x \in S : f[x] = t
  OBVIOUS
<1> HIDE DEF T
<1>2. f \in Surjection(S, T)
  BY <1>1 DEF Surjection
<1> QED
  BY <1>2, FS_Surjection DEF T

\* A fair version is a timestamp or below the epoch, and not both.
LEMMA FairFacts ==
    ASSUME NEW m, m.version \in Nat, Fair(m.version)
    PROVE  /\ IsTimestamp(m) <=> m.version > Epoch
           /\ ~IsTimestamp(m) <=> m.version < Epoch
           /\ (m.version \notin Times \/ m.version < Epoch) <=> ~IsTimestamp(m)
BY FilesAssumption DEF Fair, IsTimestamp

\* Given versions are numbers, and fair.
LEMMA GivenFacts == /\ GivenVersions \subseteq Nat /\ 0 \in GivenVersions
                    /\ \A v \in GivenVersions : Fair(v)
<1>1. \A f \in InitialFiles : f.version \in Nat
  BY FilesAssumption DEF File
<1>2. \A ms \in GoLists : \A m \in ToSet(ms) : m.version \in Nat
  BY ArgumentsAssumption DEF IsGoList
<1>3. GivenVersions \subseteq Nat /\ 0 \in GivenVersions
  BY <1>1, <1>2, ArgumentsAssumption DEF GivenVersions
<1>4. ASSUME NEW v \in GivenVersions PROVE Fair(v)
  <2>1. (v \in Times /\ v > Epoch) \/ v + MaxFiles < Epoch
    BY SequentialAssumption
  <2> QED
    BY <2>1, <1>3, FilesAssumption DEF Fair
<1> QED
  BY <1>3, <1>4

\* A registry grows by versions of the list alone.
LEMMA RegisteredFacts ==
    ASSUME NEW registry, Registry(registry), NEW ms, IsGoList(ms)
    PROVE  LET r == Registered(registry, ms)
           IN  /\ Registry(r.map)
               /\ DOMAIN r.map \subseteq DOMAIN registry \cup {m.version : m \in ToSet(ms)}
<1> DEFINE refused == {i \in DOMAIN ms : \/ ~Accepts(registry, ms[i])
                                         \/ \E j \in 1..(i - 1) : ms[j].version = ms[i].version}
           done == {i \in DOMAIN ms : \A j \in refused : i < j}
           index(v) == CHOOSE i \in done : ms[i].version = v
           new == [v \in {ms[i].version : i \in done} |-> [source |-> ms[index(v)].source]]
           r == Registered(registry, ms)
<1>1. r.map = Join(new, registry)
  BY DEF Registered
<1>2. DOMAIN new = {ms[i].version : i \in done} /\ done \subseteq DOMAIN ms
  OBVIOUS
<1> HIDE DEF done, new, r
<1>3. ms \in Seq(ToSet(ms)) /\ \A m \in ToSet(ms) : m.version \in Nat
  BY DEF IsGoList
<1>4. DOMAIN ms = 1..Len(ms) /\ Len(ms) \in Nat
  BY <1>3, LenProperties
<1>5. IsFiniteSet(done)
  <2>1. IsFiniteSet(1..Len(ms))
    BY <1>4, FS_Interval
  <2> QED
    BY <2>1, <1>2, <1>4, FS_Subset
<1>6. IsFiniteSet({ms[i].version : i \in done})
  <2> DEFINE f == [i \in done |-> ms[i].version]
  <2>1. f = [i \in done |-> f[i]] /\ {f[i] : i \in done} = {ms[i].version : i \in done}
    OBVIOUS
  <2> HIDE DEF f
  <2> QED
    BY <2>1, <1>5, ImageFinite
<1>7. \A i \in done : ms[i] \in ToSet(ms)
  BY <1>2 DEF ToSet
<1>8. DOMAIN r.map = {ms[i].version : i \in done} \cup DOMAIN registry
  BY <1>1, <1>2 DEF Join
<1> QED
  BY <1>3, <1>6, <1>7, <1>8, FS_Union DEF Registry, r
-----------------------------------------------------------------------------
(* The list of CollectMigrations *)

\* A list that is sorted by version.
LEMMA ByVersionFacts ==
    ASSUME NEW S \in SUBSET Migration, IsFiniteSet(S),
           \A m, n \in S : m.version = n.version => m = n
    PROVE  /\ ByVersion(S) \in Seq(Migration) /\ ToSet(ByVersion(S)) = S
           /\ InVersionOrder(ByVersion(S))
           /\ Versions(ByVersion(S)) = {m.version : m \in S}
<1> DEFINE key == [m \in S |-> m.version]
           t == ByVersion(S)
           n == Cardinality(S)
<1>1. t = SortedBy(S, key)
  BY DEF ByVersion
<1>2. key \in [S -> Nat] /\ \A x \in S : key[x] = x.version
  BY DEF Migration
<1>3. \A x, y \in S : key[x] = key[y] => x = y
  BY <1>2
<1> HIDE DEF key, t
<1>4. /\ t \in Seq(S) /\ Len(t) = n /\ ToSet(t) = S
      /\ \A i, j \in 1..n : i < j => key[t[i]] < key[t[j]]
  BY <1>1, <1>2, <1>3, SortedByProperties
<1>5. DOMAIN t = 1..n /\ \A i \in 1..n : t[i] \in S
  BY <1>4, LenProperties
<1>6. InVersionOrder(t)
  BY <1>2, <1>4, <1>5 DEF InVersionOrder
<1>7. t \in Seq(Migration)
  BY <1>4, <1>5, SeqDef
<1> QED
  BY <1>4, <1>6, <1>7 DEF t, Versions

\* What collectGoMigrations returns: the Go files, or what is registered.
LEMMA CollectGoFacts ==
    ASSUME TypeOK
    PROVE  /\ CollectGo \subseteq Migration /\ IsFiniteSet(CollectGo)
           /\ \A m, n \in CollectGo : m.version = n.version => m = n
           /\ \A m \in CollectGo : m.type = "go"
           /\ \A f \in OfType(dir, "go") : HasVersion(f) =>
                  \E m \in CollectGo : m.version = f.version
           /\ \A m \in CollectGo : \/ m.version \in DOMAIN global
                                   \/ \E f \in Migrations(dir) : f.version = m.version
           /\ (\A f \in OfType(dir, "go") : ~HasVersion(f)) =>
                  \A v \in DOMAIN global : \E m \in CollectGo : m.version = v
<1> DEFINE files == {f \in OfType(dir, "go") : HasVersion(f)}
           made(f) == IF f.version \in DOMAIN global THEN GoMigration(f.version)
                      ELSE Unregistered(f)
           F == [f \in files |-> made(f)]
           G == [v \in DOMAIN global |-> GoMigration(v)]
<1>1. CollectGo = IF files # {} THEN {made(f) : f \in files}
                  ELSE {GoMigration(v) : v \in DOMAIN global}
  BY DEF CollectGo
<1>2. IsFiniteSet(files) /\ IsFiniteSet(DOMAIN global)
  <2>1. files \in SUBSET dir /\ IsFiniteSet(dir)
    BY DEF OfType, TypeOK
  <2> QED
    BY <2>1, FS_Subset DEF TypeOK, Registry
<1>3. IsFiniteSet({made(f) : f \in files})
  <2>1. F = [f \in files |-> F[f]] /\ {F[f] : f \in files} = {made(f) : f \in files}
    OBVIOUS
  <2> HIDE DEF F
  <2>2. IsFiniteSet({F[f] : f \in files})
    BY <2>1, <1>2, ImageFinite
  <2> QED
    BY <2>1, <2>2
<1>4. IsFiniteSet({GoMigration(v) : v \in DOMAIN global})
  <2>1. /\ G = [v \in DOMAIN global |-> G[v]]
        /\ {G[v] : v \in DOMAIN global} = {GoMigration(v) : v \in DOMAIN global}
    OBVIOUS
  <2> HIDE DEF G
  <2>2. IsFiniteSet({G[v] : v \in DOMAIN global})
    BY <2>1, <1>2, ImageFinite
  <2> QED
    BY <2>1, <2>2
<1>5. \A v : /\ GoMigration(v).version = v /\ GoMigration(v).type = "go"
             /\ v \in Nat => GoMigration(v) \in Migration
  BY DEF GoMigration, Migration
<1>6. \A f \in files : /\ made(f).version = f.version /\ made(f).type = "go"
                       /\ made(f) \in Migration
  <2>1. \A f \in files : f.version \in Nat
    BY DEF OfType, TypeOK, File
  <2> QED
    BY <2>1 DEF GoMigration, Unregistered, Migration
<1>7. \A f, g \in files : f.version = g.version => made(f) = made(g)
  BY DEF GoMigration, Unregistered
<1>8. \A f \in files : f \in Migrations(dir)
  BY DEF Migrations, OfType
<1>9. DOMAIN global \subseteq Nat
  BY DEF TypeOK, Registry
<1>10. (\A f \in OfType(dir, "go") : ~HasVersion(f)) => files = {}
  OBVIOUS
<1>11. \A f \in OfType(dir, "go") : HasVersion(f) => f \in files
  OBVIOUS
<1> HIDE DEF files, made
<1>12. CASE files # {}
  BY <1>1, <1>3, <1>6, <1>7, <1>8, <1>10, <1>11, <1>12
<1>13. CASE files = {}
  BY <1>1, <1>4, <1>5, <1>9, <1>11, <1>13
<1> QED
  BY <1>12, <1>13

\* The list of CollectMigrations, if it neither panics nor meets a SQL file without
\* a version.
LEMMA CollectedFacts ==
    ASSUME TypeOK, ~CollectPanics, \A f \in OfType(dir, "sql") : HasVersion(f)
    PROVE  /\ Collected \in Seq(Migration) /\ InVersionOrder(Collected)
           /\ Versions(Collected) = {f.version : f \in OfType(dir, "sql")}
                                    \cup {m.version : m \in CollectGo}
           /\ \A f \in Migrations(dir) : f.version \in Versions(Collected)
           /\ \A v \in Versions(Collected) : \/ v \in DOMAIN global
                                             \/ \E f \in Migrations(dir) : f.version = v
           /\ \A v \in Versions(Collected) : Fair(v)
<1> DEFINE Q == {SQLMigration(f) : f \in OfType(dir, "sql")}
           S == Q \cup CollectGo
           F == [f \in OfType(dir, "sql") |-> SQLMigration(f)]
<1>1. Collected = ByVersion(S)
  BY DEF Collected, sortAndConnectMigrations
<1>2. OfType(dir, "sql") \in SUBSET dir /\ IsFiniteSet(dir)
  BY DEF TypeOK, OfType
<1>3. IsFiniteSet(Q)
  <2>1. F = [f \in OfType(dir, "sql") |-> F[f]] /\ {F[f] : f \in OfType(dir, "sql")} = Q
    OBVIOUS
  <2>2. IsFiniteSet(OfType(dir, "sql"))
    BY <1>2, FS_Subset
  <2> HIDE DEF F, Q
  <2>3. IsFiniteSet({F[f] : f \in OfType(dir, "sql")})
    BY <2>1, <2>2, ImageFinite
  <2> QED
    BY <2>1, <2>3
<1>4. \A f \in OfType(dir, "sql") : /\ f.version \in Nat /\ HasVersion(f)
                                    /\ SQLMigration(f) \in Migration
                                    /\ SQLMigration(f).version = f.version
  <2>1. \A f \in OfType(dir, "sql") : HasVersion(f) /\ f.version \in Nat
    BY DEF TypeOK, File, OfType
  <2> QED
    BY <2>1 DEF SQLMigration, Migration
<1>5. \A f, g \in OfType(dir, "sql") : f.version = g.version => SQLMigration(f) = SQLMigration(g)
  BY DEF SQLMigration
<1>6. \A f \in OfType(dir, "sql"), m \in CollectGo : f.version # m.version
  BY DEF CollectPanics
<1>7. /\ CollectGo \subseteq Migration /\ IsFiniteSet(CollectGo)
      /\ \A m, n \in CollectGo : m.version = n.version => m = n
  BY CollectGoFacts
<1>8. S \in SUBSET Migration /\ IsFiniteSet(S)
  <2>1. Q \subseteq Migration
    BY <1>4
  <2> HIDE DEF Q
  <2> QED
    BY <2>1, <1>3, <1>7, FS_Union
<1>9. {m.version : m \in S} = {f.version : f \in OfType(dir, "sql")}
                              \cup {m.version : m \in CollectGo}
  BY <1>4
<1>10. \A m, n \in S : m.version = n.version => m = n
  <2> SUFFICES ASSUME NEW m \in S, NEW n \in S, m.version = n.version PROVE m = n
    OBVIOUS
  <2>1. \A x \in Q : \E f \in OfType(dir, "sql") : x = SQLMigration(f) /\ x.version = f.version
    BY <1>4
  <2> HIDE DEF Q
  <2> QED
    BY <2>1, <1>5, <1>6, <1>7
<1> HIDE DEF S
<1>11. /\ Collected \in Seq(Migration) /\ InVersionOrder(Collected)
       /\ Versions(Collected) = {m.version : m \in S}
  BY <1>1, <1>8, <1>10, ByVersionFacts
<1>12. \A f \in Migrations(dir) : f.version \in Versions(Collected)
  <2> SUFFICES ASSUME NEW f \in Migrations(dir) PROVE f.version \in Versions(Collected)
    OBVIOUS
  <2>1. HasVersion(f) /\ (f \in OfType(dir, "sql") \/ f \in OfType(dir, "go"))
    BY DEF Migrations, TypeOK, File, OfType
  <2>2. f \in OfType(dir, "go") => \E m \in CollectGo : m.version = f.version
    BY <2>1, CollectGoFacts
  <2> QED
    BY <2>1, <2>2, <1>9, <1>11
<1>13. \A f \in OfType(dir, "sql") : f \in Migrations(dir)
  BY <1>4 DEF Migrations, OfType
<1>14. \A m \in CollectGo : \/ m.version \in DOMAIN global
                            \/ \E f \in Migrations(dir) : f.version = m.version
  BY CollectGoFacts
<1>15. \A v \in Versions(Collected) : \/ v \in DOMAIN global
                                      \/ \E f \in Migrations(dir) : f.version = v
  BY <1>9, <1>11, <1>13, <1>14
<1>16. \A v \in Versions(Collected) : Fair(v)
  <2>1. DOMAIN global \subseteq GivenVersions /\ \A f \in Migrations(dir) : Fair(f.version)
    BY DEF TypeOK, Migrations
  <2> QED
    BY <2>1, <1>15, GivenFacts
<1> QED
  BY <1>9, <1>11, <1>12, <1>15, <1>16
-----------------------------------------------------------------------------
(* The sequential and the timestamped part of the list *)

\* A part of a list is in the order of the list.
LEMMA KeptInOrder ==
    ASSUME NEW ms \in Seq(Migration), InVersionOrder(ms), NEW I \in SUBSET DOMAIN ms
    PROVE  Part(ms, I) \in Seq(Migration) /\ InVersionOrder(Part(ms, I))
<1>1. /\ Part(ms, I) \in Seq(Migration)
      /\ \A i, j \in 1..Len(Part(ms, I)) : i < j =>
            \E k, l \in I : k < l /\ Part(ms, I)[i] = ms[k] /\ Part(ms, I)[j] = ms[l]
  BY PartProperties
<1>2. DOMAIN Part(ms, I) = 1..Len(Part(ms, I))
  BY <1>1, LenProperties
<1> QED
  BY <1>1, <1>2 DEF InVersionOrder

\* Fix renames every timestamp of the list, the oldest first.
LEMMA TimestampedFacts ==
    ASSUME NEW ms \in Seq(Migration), InVersionOrder(ms), \A v \in Versions(ms) : Fair(v)
    PROVE  /\ timestamped(ms) \in Seq(Migration) /\ InVersionOrder(timestamped(ms))
           /\ \A m \in ToSet(timestamped(ms)) : IsTimestamp(m)
           /\ \A m \in ToSet(ms) : IsTimestamp(m) => m \in ToSet(timestamped(ms))
<1> DEFINE I == {i \in DOMAIN ms : IsTimestamp(ms[i])}
<1>1. timestamped(ms) = Part(ms, I) /\ I \in SUBSET DOMAIN ms
  BY DEF timestamped
<1>2. ToSet(Part(ms, I)) = {ms[i] : i \in I}
  BY <1>1, PartProperties
<1>3. Part(ms, I) \in Seq(Migration) /\ InVersionOrder(Part(ms, I))
  BY <1>1, KeptInOrder
<1>4. \A m \in ToSet(ms) : IsTimestamp(m) => m \in {ms[i] : i \in I}
  BY DEF ToSet
<1> QED
  BY <1>1, <1>2, <1>3, <1>4

\* The next version is above every sequential version, by one above some of them.
LEMMA NextVersionFacts ==
    ASSUME NEW ms \in Seq(Migration), InVersionOrder(ms), \A v \in Versions(ms) : Fair(v)
    PROVE  /\ NextVersion(ms) \in Nat \ {0}
           /\ \A v \in Versions(ms) : v < Epoch => v < NextVersion(ms)
           /\ \/ NextVersion(ms) = 1
              \/ \E v \in Versions(ms) : v < Epoch /\ NextVersion(ms) = v + 1
<1> DEFINE I == {i \in DOMAIN ms : ~IsTimestamp(ms[i])}
           t == versioned(ms)
           n == Len(t)
<1>0. \A m \in ToSet(ms) : /\ m.version \in Nat
                           /\ ~IsTimestamp(m) <=> m.version < Epoch
                           /\ (m.version \notin Times \/ m.version < Epoch) <=> ~IsTimestamp(m)
  <2>1. \A m \in ToSet(ms) : m.version \in Nat /\ Fair(m.version)
    <3>1. \A m \in ToSet(ms) : m \in Migration
      BY ElementsTyped
    <3> QED
      BY <3>1 DEF Migration, Versions
  <2> QED
    BY <2>1, FairFacts
<1>1. t = Part(ms, I) /\ I \in SUBSET DOMAIN ms
  <2>1. \A i \in DOMAIN ms : ms[i] \in ToSet(ms)
    BY DEF ToSet
  <2>2. I = {i \in DOMAIN ms : ms[i].version \notin Times \/ ms[i].version < Epoch}
    BY <2>1, <1>0
  <2> QED
    BY <2>2 DEF versioned
<1>2. ToSet(t) = {ms[i] : i \in I} /\ t \in Seq(Migration) /\ InVersionOrder(t)
  BY <1>1, PartProperties, KeptInOrder
<1>3. n \in Nat /\ DOMAIN t = 1..n /\ \A i \in 1..n : t[i] \in Migration
  BY <1>2, LenProperties
<1>4. Epoch \in Nat /\ \A m \in Migration : m.version \in Nat
  BY FilesAssumption DEF Migration
<1>5. \A m \in ToSet(ms) : m \in Migration
  BY ElementsTyped
<1>6. \A v \in Versions(ms) : v < Epoch => \E j \in 1..n : t[j].version = v
  <2> SUFFICES ASSUME NEW v \in Versions(ms), v < Epoch
               PROVE  \E j \in 1..n : t[j].version = v
    OBVIOUS
  <2>1. PICK m \in ToSet(ms) : m.version = v
    BY DEF Versions
  <2>2. ~IsTimestamp(m)
    BY <2>1, <1>0
  <2>3. PICK i \in DOMAIN ms : m = ms[i]
    BY DEF ToSet
  <2>4. m \in ToSet(t)
    BY <2>2, <2>3, <1>2
  <2> QED
    BY <2>1, <2>4, <1>3 DEF ToSet
<1>7. \A j \in 1..n : t[j] \in ToSet(ms) /\ ~IsTimestamp(t[j])
  <2> SUFFICES ASSUME NEW j \in 1..n PROVE t[j] \in ToSet(ms) /\ ~IsTimestamp(t[j])
    OBVIOUS
  <2>1. t[j] \in {ms[i] : i \in I}
    BY <1>2, <1>3 DEF ToSet
  <2> QED
    BY <2>1 DEF ToSet
<1> HIDE DEF t, n, I
<1>8. CASE t = <<>>
  <2>1. n = 0 /\ NextVersion(ms) = 1
    BY <1>8 DEF n, NextVersion, t
  <2> QED
    BY <2>1, <1>6
<1>9. CASE t # <<>>
  <2>1. n \in 1..n /\ NextVersion(ms) = t[n].version + 1
    BY <1>2, <1>3, <1>9, EmptySeq DEF NextVersion, t, n, Last
  <2>2. t[n].version \in Versions(ms) /\ t[n].version < Epoch /\ t[n].version \in Nat
    BY <2>1, <1>0, <1>3, <1>4, <1>7 DEF Versions
  <2>3. \A j \in 1..n : t[j].version <= t[n].version
    <3> SUFFICES ASSUME NEW j \in 1..n PROVE t[j].version <= t[n].version
      OBVIOUS
    <3>1. j < n => t[j].version < t[n].version
      BY <2>1, <1>2, <1>3 DEF InVersionOrder
    <3>2. t[j].version \in Nat /\ (j < n \/ j = n)
      BY <1>3, <1>4
    <3> QED
      BY <3>1, <3>2, <2>2
  <2>4. \A v \in Versions(ms) : v < Epoch => v <= t[n].version
    BY <2>3, <1>6
  <2>5. \A v \in Versions(ms) : v \in Nat
    BY <1>4, <1>5 DEF Versions
  <2> QED
    BY <2>1, <2>2, <2>4, <2>5
<1> QED
  BY <1>8, <1>9
-----------------------------------------------------------------------------
(* The inductive invariant of the directory *)

Most == IF MaxFiles < Cardinality(InitialFiles) THEN Cardinality(InitialFiles) ELSE MaxFiles

\* The room below the timestamps.
LEMMA MostFacts ==
    /\ Most \in Nat /\ MaxFiles <= Most /\ Cardinality(InitialFiles) <= Most
    /\ \A v \in GivenVersions : v < Epoch => v + Most < Epoch
    /\ Most < Epoch
<1>1. /\ MaxFiles \in Nat /\ Cardinality(InitialFiles) \in Nat /\ Epoch \in Nat \ {0}
  BY FilesAssumption, FS_CardinalityType
<1>2. Most \in {MaxFiles, Cardinality(InitialFiles)}
  BY DEF Most
<1>3. \A v \in GivenVersions : v < Epoch => v + Most < Epoch
  <2>1. \A v \in GivenVersions : (v \in Times /\ v > Epoch) \/ v + Most < Epoch
    BY <1>2, SequentialAssumption
  <2>2. \A v \in GivenVersions : v \in Nat
    BY GivenFacts
  <2> QED
    BY <2>1, <2>2, <1>1
<1>4. MaxFiles <= Most /\ Cardinality(InitialFiles) <= Most /\ Most \in Nat
  BY <1>1 DEF Most
<1>5. 0 + Most < Epoch
  BY <1>1, <1>3, GivenFacts
<1> QED
  BY <1>3, <1>4, <1>5

Sequential(d) == {f \in d : ~IsTimestamp(f)}

\* Files are told apart by their contents, and the clock is not behind them.
Listed == /\ \A f, g \in dir : f.content = g.content => f = g
          /\ \A f \in dir : f.version <= now
          /\ Today <= now /\ now \in Times

\* A sequential version is at most as far above the given ones as there are files
\* with one: timestamps are out of reach.
Room == /\ Cardinality(dir) <= Most
        /\ \A f \in Sequential(dir) :
               f.version + Most < Epoch + Cardinality(Sequential(dir))

\* The rest of Fix: the next version is free, and every timestamp that is left is
\* still to be replaced, the oldest first.
FixFits ==
    fixing # NoFix =>
        /\ result = NoResult
        /\ ~Duplicates(Migrations(dir))
        /\ \A f \in Migrations(dir) : ~IsTimestamp(f) => f.version < fixing.next
        /\ fixing.next > 0 /\ fixing.next + Most <= Epoch + Cardinality(Sequential(dir))
        /\ InVersionOrder(fixing.todo)
        /\ \A m \in ToSet(fixing.todo) : IsTimestamp(m)
        /\ \A f \in Migrations(dir) : IsTimestamp(f) => f.version \in Versions(fixing.todo)

Inv == TypeOK /\ Listed /\ Room /\ FixFits

\* What a step may do to the directory: add a file with a version of its own, or
\* with that of a moment ago,
Adds(g) == /\ dir' = dir \cup {g} /\ g \in File /\ HasVersion(g) /\ g.version <= now'
           /\ Fair(g.version)
           /\ \A f \in dir : f.content # g.content
           /\ \A f \in Migrations(dir) : \/ f.version # g.version
                                         \/ fixing = NoFix /\ now' = now /\ g.version = now

\* or replace the oldest timestamp f by the version of g, above all others.
Renames(f, g) ==
    /\ f \in Migrations(dir) /\ IsTimestamp(f)
    /\ dir' = (dir \ {f}) \cup {g}
    /\ g \in File /\ HasVersion(g) /\ ~IsTimestamp(g) /\ g.content = f.content
    /\ Fair(g.version)
    /\ \A h \in Migrations(dir) : IF IsTimestamp(h) THEN h = f \/ f.version < h.version
                                  ELSE h.version < g.version

\* Sets of files are finite.
LEMMA DirFacts ==
    ASSUME TypeOK
    PROVE  /\ IsFiniteSet(dir) /\ Cardinality(dir) \in Nat
           /\ IsFiniteSet(Sequential(dir)) /\ Cardinality(Sequential(dir)) \in Nat
           /\ Cardinality(Sequential(dir)) <= Cardinality(dir)
           /\ (\E f \in dir : IsTimestamp(f)) => Cardinality(Sequential(dir)) < Cardinality(dir)
           /\ \A f \in dir : f \in File /\ f.version \in Nat
           /\ \A f \in dir : /\ IsTimestamp(f) <=> f.version > Epoch
                             /\ ~IsTimestamp(f) <=> f.version < Epoch
           /\ Epoch \in Nat \ {0}
<1>1. IsFiniteSet(dir) /\ Sequential(dir) \in SUBSET dir
  BY DEF TypeOK, Sequential
<1>2. /\ Cardinality(dir) \in Nat
      /\ IsFiniteSet(Sequential(dir)) /\ Cardinality(Sequential(dir)) \in Nat
      /\ Cardinality(Sequential(dir)) <= Cardinality(dir)
      /\ Cardinality(Sequential(dir)) = Cardinality(dir) => Sequential(dir) = dir
  BY <1>1, FS_Subset, FS_CardinalityType
<1>3. (\E f \in dir : IsTimestamp(f)) => Sequential(dir) # dir
  BY DEF Sequential
<1>4. \A f \in dir : f \in File /\ f.version \in Nat
  BY DEF TypeOK, File
<1>5. \A f \in dir : /\ IsTimestamp(f) <=> f.version > Epoch
                     /\ ~IsTimestamp(f) <=> f.version < Epoch
  BY <1>4, FairFacts DEF TypeOK
<1> QED
  BY <1>1, <1>2, <1>3, <1>4, <1>5, FilesAssumption

\* A file more.
LEMMA AddsKeeps ==
    ASSUME Inv, NEW g, Adds(g), Cardinality(dir) < MaxFiles, UNCHANGED fixing, Idle,
           now' \in Nat, now' \in Times, now <= now',
           ~IsTimestamp(g) =>
               g.version + Most < Epoch + Cardinality(Sequential(dir)) + 1
    PROVE  IsFiniteSet(dir') /\ dir' \in SUBSET File /\ Listed' /\ Room' /\ FixFits'
<1> DEFINE K == Cardinality(Sequential(dir))
<1>1. /\ IsFiniteSet(dir) /\ Cardinality(dir) \in Nat /\ K \in Nat /\ Epoch \in Nat
      /\ IsFiniteSet(Sequential(dir)) /\ \A f \in dir : f \in File /\ f.version \in Nat
  BY DirFacts DEF Inv
<1>2. g \notin dir /\ dir' = dir \cup {g} /\ g \in File
  BY DEF Adds
<1>3. IsFiniteSet(dir') /\ Cardinality(dir') = Cardinality(dir) + 1
  BY <1>1, <1>2, FS_AddElement
<1>4. Listed'
  <2>1. \A f, h \in dir' : f.content = h.content => f = h
    BY DEF Adds, Inv, Listed
  <2>2. now \in Nat /\ Today \in Nat /\ Today <= now /\ \A f \in dir : f.version <= now
    BY FilesAssumption DEF Inv, TypeOK, Listed
  <2>3. \A f \in dir' : f.version <= now'
    BY <2>2, <1>1, <1>2 DEF Adds
  <2>4. Today <= now'
    BY <2>2
  <2> QED
    BY <2>1, <2>3, <2>4 DEF Listed
<1>5. Room'
  <2>1. Cardinality(dir') <= Most
    BY <1>1, <1>3, MostFacts, FilesAssumption
  <2>2. CASE IsTimestamp(g)
    <3>1. Sequential(dir') = Sequential(dir)
      BY <2>2, <1>2 DEF Sequential
    <3> QED
      BY <2>1, <3>1 DEF Room, Inv, Sequential
  <2>3. CASE ~IsTimestamp(g)
    <3>1. Sequential(dir') = Sequential(dir) \cup {g} /\ g \notin Sequential(dir)
      BY <2>3, <1>2 DEF Sequential
    <3>2. Cardinality(Sequential(dir')) = K + 1
      BY <3>1, <1>1, FS_AddElement
    <3>3. \A f \in Sequential(dir) : f.version \in Nat /\ f.version + Most < Epoch + K
      BY <1>1 DEF Room, Inv, Sequential
    <3>4. \A f \in Sequential(dir') : f.version + Most < Epoch + (K + 1)
      BY <3>1, <3>3, <2>3, <1>1, MostFacts
    <3> QED
      BY <2>1, <3>2, <3>4 DEF Room, Sequential
  <2> QED
    BY <2>2, <2>3
<1>6. FixFits'
  BY DEF Idle, FixFits
<1> QED
  BY <1>2, <1>3, <1>4, <1>5, <1>6 DEF Inv, TypeOK

\* What the next version is, in a directory with room.
LEMMA NextVersionFits ==
    ASSUME Inv, CollectOK
    PROVE  LET v == NextVersion(Collected)
           IN  /\ v \in Nat \ {0}
               /\ v + Most < Epoch + Cardinality(Sequential(dir)) + 1
               /\ \A f \in Migrations(dir) : ~IsTimestamp(f) => f.version < v
<1> DEFINE v == NextVersion(Collected)
           K == Cardinality(Sequential(dir))
<1>1. /\ K \in Nat /\ Epoch \in Nat /\ \A f \in dir : f.version \in Nat
      /\ \A f \in dir : ~IsTimestamp(f) <=> f.version < Epoch
  BY DirFacts DEF Inv
<1>2. /\ Collected \in Seq(Migration) /\ InVersionOrder(Collected)
      /\ \A f \in Migrations(dir) : f.version \in Versions(Collected)
      /\ \A u \in Versions(Collected) : \/ u \in DOMAIN global
                                        \/ \E f \in Migrations(dir) : f.version = u
      /\ \A u \in Versions(Collected) : Fair(u)
  BY CollectedFacts DEF Inv, CollectOK, CollectFails
<1>3. /\ v \in Nat \ {0}
      /\ \A u \in Versions(Collected) : u < Epoch => u < v
      /\ v = 1 \/ \E u \in Versions(Collected) : u < Epoch /\ v = u + 1
  BY <1>2, NextVersionFacts
<1>4. \A f \in Migrations(dir) : f \in dir /\ f.version \in Nat
  BY <1>1 DEF Migrations
<1>5. \A f \in Migrations(dir) : ~IsTimestamp(f) => f.version < v
  BY <1>1, <1>2, <1>3, <1>4
<1>6. Most \in Nat /\ Most < Epoch
  BY MostFacts
<1>7. ASSUME NEW u \in Versions(Collected), u < Epoch
      PROVE  u \in Nat /\ u + Most < Epoch + K
  <2>1. CASE u \in DOMAIN global
    <3>1. u \in GivenVersions /\ u \in Nat
      BY <2>1, GivenFacts DEF Inv, TypeOK
    <3>2. u + Most < Epoch
      BY <3>1, <1>7, MostFacts
    <3> QED
      BY <3>1, <3>2, <1>1, <1>6
  <2>2. CASE \E f \in Migrations(dir) : f.version = u
    <3>1. PICK f \in Migrations(dir) : f.version = u
      BY <2>2
    <3>2. f \in Sequential(dir) /\ u \in Nat
      BY <3>1, <1>1, <1>4, <1>7 DEF Sequential
    <3> QED
      BY <3>1, <3>2 DEF Inv, Room
  <2> QED
    BY <2>1, <2>2, <1>2
<1>8. v + Most < Epoch + K + 1
  <2>1. CASE v = 1
    BY <2>1, <1>1, <1>6
  <2>2. CASE \E u \in Versions(Collected) : u < Epoch /\ v = u + 1
    <3>1. PICK u \in Versions(Collected) : u < Epoch /\ v = u + 1
      BY <2>2
    <3>2. u \in Nat /\ u + Most < Epoch + K
      BY <3>1, <1>7
    <3> QED
      BY <3>1, <3>2, <1>1, <1>6
  <2> QED
    BY <2>1, <2>2, <1>3
<1> QED
  BY <1>3, <1>5, <1>8
-----------------------------------------------------------------------------
(* The steps of Create and Fix *)

\* CreateWithTemplate adds a file.
LEMMA CreateStep ==
    ASSUME Inv, NEW sequential \in BOOLEAN, NEW ext \in {"sql", "go"}, Create(sequential, ext)
    PROVE  Inv' /\ \E g : Adds(g)
<1> DEFINE K == Cardinality(Sequential(dir))
<1>1. /\ Cardinality(dir) \in Nat /\ K \in Nat /\ K <= Cardinality(dir)
      /\ Epoch \in Nat \ {0} /\ \A f \in dir : f.version \in Nat
      /\ \A f \in dir : ~IsTimestamp(f) <=> f.version < Epoch
  BY DirFacts DEF Inv
<1>2. /\ Idle /\ Cardinality(dir) < MaxFiles /\ UNCHANGED <<global, fixing, result>>
  BY DEF Create
<1>3. /\ Most \in Nat /\ MaxFiles <= Most /\ Today \in Nat /\ MaxVersion \in Nat
      /\ MaxFiles \in Nat /\ Epoch < Today /\ Today <= MaxVersion
  BY MostFacts, FilesAssumption
<1>4. now \in Nat /\ now \in Times /\ Today <= now /\ \A f \in dir : f.version <= now
  BY DEF Inv, TypeOK, Listed
<1> DEFINE v == IF sequential THEN NextVersion(Collected) ELSE now'
           text == CHOOSE t \in Unused(dir) : TRUE
           file(n) == [version |-> v, padded |-> sequential, name |-> n, ext |-> ext,
                       content |-> text]
<1>5. PICK n \in NewNames : /\ Base(file(n)) \notin {Base(f) : f \in dir}
                            /\ dir' = Put(dir, file(n))
  BY DEF Create
<1>6. /\ sequential => CollectOK /\ now' = now
      /\ ~sequential => \E t \in Times : now <= t /\ t <= MaxVersion /\ now' = t
      /\ Unused(dir) # {}
  BY DEF Create
<1>7. \A f \in Migrations(dir) : f \in dir /\ f.version \in Nat
  BY <1>1 DEF Migrations
<1>8. ASSUME NEW g, Adds(g), now' \in Nat, now' \in Times, now <= now',
             ~IsTimestamp(g) => g.version + Most < Epoch + K + 1
      PROVE  Inv'
  <2>1. IsFiniteSet(dir') /\ dir' \in SUBSET File /\ Listed' /\ Room' /\ FixFits'
    BY <1>2, <1>8, AddsKeeps
  <2>2. \A f \in dir' : Fair(f.version)
    BY <1>8 DEF Adds, Inv, TypeOK
  <2>3. TypeOK'
    BY <2>1, <2>2, <1>2, <1>8 DEF Inv, TypeOK, Fair
  <2> QED
    BY <2>1, <2>3 DEF Inv
<1>9. text \in NewContents /\ n \in Names /\ text \in Contents
      /\ \A f \in dir : f.content # text
  <2>1. text \in Unused(dir)
    BY <1>6
  <2> HIDE DEF text
  <2> QED
    BY <2>1, FilesAssumption DEF Unused
<1>10. PICK g : g = file(n)
  OBVIOUS
<1>11. /\ g.version = v /\ g.content = text /\ g.name = n /\ g.ext = ext
       /\ g.padded = sequential
  BY <1>10
<1>12. dir' = dir \cup {g}
  <2>1. \A f \in dir : Base(f) # Base(g)
    BY <1>5, <1>10
  <2> QED
    BY <2>1, <1>5, <1>10 DEF Put
<1> HIDE DEF file, text
<1>13. CASE sequential
  <2>1. CollectOK /\ now' = now /\ v = NextVersion(Collected)
    BY <1>6, <1>13
  <2>2. /\ v \in Nat \ {0} /\ v + Most < Epoch + K + 1
        /\ \A f \in Migrations(dir) : ~IsTimestamp(f) => f.version < v
    BY <2>1, NextVersionFits
  <2> HIDE DEF v
  <2>3. v < Epoch
    BY <2>2, <1>1, <1>2, <1>3
  <2>4. v <= now /\ v \in 0..MaxVersion
    BY <2>2, <2>3, <1>1, <1>3, <1>4
  <2>5. g \in File /\ HasVersion(g) /\ Fair(g.version)
    <3>1. g \in File
      BY <2>4, <1>9, <1>10 DEF File, file
    <3> QED
      BY <3>1, <2>2, <2>3, <1>11 DEF HasVersion, Fair
  <2>6. \A f \in Migrations(dir) : f.version # v
    BY <2>2, <2>3, <1>1, <1>7
  <2>7. Adds(g)
    BY <2>1, <2>4, <2>5, <2>6, <1>9, <1>11, <1>12 DEF Adds
  <2>8. Inv'
    BY <2>1, <2>2, <2>7, <1>4, <1>8, <1>11
  <2> QED
    BY <2>7, <2>8
<1>14. CASE ~sequential
  <2>1. now' \in Times /\ now <= now' /\ now' <= MaxVersion /\ v = now'
    BY <1>6, <1>14
  <2> HIDE DEF v
  <2>2. now' \in Nat /\ v \in 0..MaxVersion /\ v > Epoch /\ v > 0
    BY <2>1, <1>1, <1>3, <1>4, FilesAssumption
  <2>3. g \in File /\ HasVersion(g) /\ Fair(g.version) /\ IsTimestamp(g)
    <3>1. g \in File
      BY <2>2, <1>9, <1>10 DEF File, file
    <3> QED
      BY <3>1, <2>1, <2>2, <1>11 DEF HasVersion, Fair, IsTimestamp
  <2>4. \A f \in Migrations(dir) : f.version = v => now' = now /\ v = now
    BY <2>1, <2>2, <1>4, <1>7
  <2>5. Adds(g)
    BY <2>1, <2>2, <2>3, <2>4, <1>2, <1>9, <1>11, <1>12 DEF Adds, Idle
  <2>6. Inv'
    BY <2>1, <2>2, <2>3, <2>5, <1>8
  <2> QED
    BY <2>5, <2>6
<1> QED
  BY <1>13, <1>14

\* Fix starts with what FixFits says.
LEMMA FixStep ==
    ASSUME Inv, Fix
    PROVE  Inv'
<1>1. /\ Idle /\ CollectOK /\ UNCHANGED <<dir, global, now, result>>
      /\ fixing' = [todo |-> timestamped(Collected), next |-> NextVersion(Collected)]
  BY DEF Fix
<1>2. fixing'.todo = timestamped(Collected) /\ fixing'.next = NextVersion(Collected)
  BY <1>1
<1>3. /\ Collected \in Seq(Migration) /\ InVersionOrder(Collected)
      /\ \A f \in Migrations(dir) : f.version \in Versions(Collected)
      /\ \A v \in Versions(Collected) : Fair(v)
  BY <1>1, CollectedFacts DEF Inv, CollectOK, CollectFails
<1>4. /\ timestamped(Collected) \in Seq(Migration) /\ InVersionOrder(timestamped(Collected))
      /\ \A m \in ToSet(timestamped(Collected)) : IsTimestamp(m)
      /\ \A m \in ToSet(Collected) : IsTimestamp(m) => m \in ToSet(timestamped(Collected))
  BY <1>3, TimestampedFacts
<1>11. \A f \in Migrations(dir) : IsTimestamp(f) => f.version \in Versions(timestamped(Collected))
  <2> SUFFICES ASSUME NEW f \in Migrations(dir), IsTimestamp(f)
               PROVE  f.version \in Versions(timestamped(Collected))
    OBVIOUS
  <2>1. PICK m \in ToSet(Collected) : m.version = f.version
    BY <1>3 DEF Versions
  <2>2. IsTimestamp(m)
    BY <2>1 DEF IsTimestamp
  <2> QED
    BY <2>1, <2>2, <1>4 DEF Versions
<1>5. /\ NextVersion(Collected) \in Nat \ {0}
      /\ NextVersion(Collected) + Most < Epoch + Cardinality(Sequential(dir)) + 1
      /\ \A f \in Migrations(dir) : ~IsTimestamp(f) => f.version < NextVersion(Collected)
  BY <1>1, NextVersionFits
<1>6. /\ Cardinality(Sequential(dir)) \in Nat /\ Epoch \in Nat /\ Most \in Nat
  BY DirFacts, MostFacts DEF Inv
<1>7. ~Duplicates(Migrations(dir))
  <2>1. Migrations(dir) = {f \in OfType(dir, "sql") \cup OfType(dir, "go") : HasVersion(f)}
    BY DEF Migrations, OfType, Inv, TypeOK, File
  <2> QED
    BY <2>1, <1>1 DEF CollectOK, CollectPanics
<1>8. /\ NextVersion(Collected) > 0
      /\ NextVersion(Collected) + Most <= Epoch + Cardinality(Sequential(dir))
  BY <1>5, <1>6
<1>9. FixFits'
  BY <1>1, <1>2, <1>4, <1>5, <1>7, <1>8, <1>11
     DEF FixFits, Idle, Sequential, Migrations, Duplicates, IsTimestamp, HasVersion
<1>10. TypeOK' /\ Listed' /\ Room'
  BY <1>1, <1>4, <1>5 DEF Inv, TypeOK, Listed, Room, Sequential, IsTimestamp, Registry, Fair
<1> QED
  BY <1>9, <1>10 DEF Inv

\* A list of migrations in order: the first is the oldest.
LEMMA HeadIsOldest ==
    ASSUME NEW ms \in Seq(Migration), InVersionOrder(ms), ms # <<>>
    PROVE  /\ Head(ms) \in ToSet(ms) /\ Head(ms) \in Migration
           /\ \A v \in Versions(ms) : v = Head(ms).version \/ Head(ms).version < v
           /\ \A v \in Versions(ms) : v = Head(ms).version \/ v \in Versions(Tail(ms))
           /\ Tail(ms) \in Seq(Migration) /\ InVersionOrder(Tail(ms))
           /\ ToSet(Tail(ms)) \subseteq ToSet(ms)
<1> DEFINE n == Len(ms)
<1>1. n \in Nat \ {0} /\ DOMAIN ms = 1..n /\ Head(ms) = ms[1] /\ 1 \in 1..n
  BY LenProperties, EmptySeq
<1>2. /\ ToSet(ms) = {Head(ms)} \cup ToSet(Tail(ms))
      /\ Head(ms) \in Migration /\ Tail(ms) \in Seq(Migration)
  BY ElementsTail
<1>3. /\ Len(Tail(ms)) = n - 1 /\ \A i \in 1..(n - 1) : Tail(ms)[i] = ms[i + 1]
  BY HeadTailProperties
<1>4. DOMAIN Tail(ms) = 1..(n - 1)
  BY <1>2, <1>3, LenProperties
<1>5. InVersionOrder(Tail(ms))
  <2> SUFFICES ASSUME NEW i \in 1..(n - 1), NEW j \in 1..(n - 1), i < j
               PROVE  Tail(ms)[i].version < Tail(ms)[j].version
    BY <1>4 DEF InVersionOrder
  <2>1. i + 1 \in 1..n /\ j + 1 \in 1..n /\ i + 1 < j + 1
    BY <1>1
  <2> QED
    BY <2>1, <1>1, <1>3 DEF InVersionOrder
<1>6. \A i \in 1..n : i = 1 \/ ms[1].version < ms[i].version
  BY <1>1 DEF InVersionOrder
<1>7. \A v \in Versions(ms) : v = Head(ms).version \/ Head(ms).version < v
  BY <1>1, <1>6 DEF Versions, ToSet
<1> QED
  BY <1>2, <1>5, <1>7 DEF Versions

\* One rename of Fix.
LEMMA RenameStep ==
    ASSUME Inv, RenameNext
    PROVE  Inv' /\ (dir' = dir \/ \E f, g : Renames(f, g))
<1> DEFINE todo == fixing.todo
           next == fixing.next
           K == Cardinality(Sequential(dir))
           new(f) == [f EXCEPT !.version = next, !.padded = TRUE]
<1>1. /\ todo # <<>> /\ UNCHANGED <<global, now, result>>
  BY DEF RenameNext
<1>0. \/ dir' = dir /\ fixing' = NoFix
      \/ \E f \in dir : /\ f.version = Head(todo).version /\ f.ext # "_test.go"
                        /\ dir' = Put(dir \ {f}, new(f))
                        /\ \/ fixing' = NoFix
                           \/ fixing' = [todo |-> Tail(todo), next |-> next + 1]
  BY DEF RenameNext
<1>2. /\ todo \in Seq(Migration) /\ next \in Nat
      /\ result = NoResult
      /\ ~Duplicates(Migrations(dir))
      /\ \A f \in Migrations(dir) : ~IsTimestamp(f) => f.version < next
      /\ next > 0 /\ next + Most <= Epoch + K
      /\ InVersionOrder(todo)
      /\ \A m \in ToSet(todo) : IsTimestamp(m)
      /\ \A f \in Migrations(dir) : IsTimestamp(f) => f.version \in Versions(todo)
  <2>1. fixing # NoFix
    <3>1. NoFix.todo = <<>>
      BY DEF NoFix
    <3>2. todo # <<>>
      BY <1>1
    <3> QED
      BY <3>1, <3>2
  <2>2. todo \in Seq(Migration) /\ next \in Nat
    BY DEF Inv, TypeOK
  <2> QED
    BY <2>1, <2>2 DEF Inv, FixFits
<1>3. /\ Head(todo) \in ToSet(todo) /\ Head(todo) \in Migration
      /\ \A v \in Versions(todo) : v = Head(todo).version \/ Head(todo).version < v
      /\ \A v \in Versions(todo) : v = Head(todo).version \/ v \in Versions(Tail(todo))
      /\ Tail(todo) \in Seq(Migration) /\ InVersionOrder(Tail(todo))
      /\ ToSet(Tail(todo)) \subseteq ToSet(todo)
  BY <1>1, <1>2, HeadIsOldest
<1>4. /\ IsFiniteSet(dir) /\ Cardinality(dir) \in Nat /\ K \in Nat
      /\ IsFiniteSet(Sequential(dir))
      /\ (\E f \in dir : IsTimestamp(f)) => K < Cardinality(dir)
      /\ \A f \in dir : f \in File /\ f.version \in Nat
      /\ \A f \in dir : IsTimestamp(f) <=> f.version > Epoch
      /\ Epoch \in Nat \ {0}
  BY DirFacts DEF Inv
<1>5. Most \in Nat /\ Cardinality(dir) <= Most
  BY MostFacts DEF Inv, Room
<1>6. IsTimestamp(Head(todo)) /\ Head(todo).version > Epoch
  BY <1>2, <1>3 DEF IsTimestamp
<1>8. CASE dir' = dir /\ fixing' = NoFix
  <2>1. FixFits' /\ NoFix \in [todo : Seq(Migration), next : Nat]
    BY <1>8 DEF FixFits, NoFix
  <2> QED
    BY <2>1, <1>1, <1>8 DEF Inv, TypeOK, Listed, Room, Sequential, IsTimestamp, Registry, Fair
<1>9. ASSUME NEW f \in dir, f.version = Head(todo).version, f.ext # "_test.go",
             dir' = Put(dir \ {f}, new(f)),
             \/ fixing' = NoFix
             \/ fixing' = [todo |-> Tail(todo), next |-> next + 1]
      PROVE  Inv' /\ \E g : Renames(f, g)
  <2>1. PICK g : g = new(f)
    OBVIOUS
  <2>4. /\ f \in dir /\ IsTimestamp(f) /\ f \in Migrations(dir)
        /\ f.version = Head(todo).version /\ f \in File /\ f.version \in Nat
    <3>1. IsTimestamp(f) /\ f.version \in Nat /\ f.version > 0
      BY <1>4, <1>6, <1>9
    <3> QED
      BY <3>1, <1>4, <1>9 DEF Migrations, HasVersion
  <2>5. fixing' = NoFix \/ fixing' = [todo |-> Tail(todo), next |-> next + 1]
    BY <1>9
  <2>6. next < Epoch
    BY <2>4, <1>2, <1>4, <1>5
  <2>7. /\ MaxVersion \in Nat /\ Today \in Nat /\ Epoch < Today
        /\ Today <= MaxVersion /\ now \in Nat /\ Today <= now /\ now \in Times
    BY FilesAssumption DEF Inv, TypeOK, Listed
  <2>8. next \in 0..MaxVersion /\ next < now
    BY <2>6, <2>7, <1>2, <1>4
  <2>9. g \in File /\ g.version = next /\ g.content = f.content /\ g.ext = f.ext
    BY <2>1, <2>4, <2>8 DEF File
  <2>10. ~IsTimestamp(g) /\ HasVersion(g) /\ Fair(g.version)
    BY <2>6, <2>9, <1>2, <1>4 DEF IsTimestamp, HasVersion, Fair
  <2>3. dir' = (dir \ {f}) \cup {g}
    <3>1. ASSUME NEW h \in dir \ {f}, Base(h) = Base(g) PROVE FALSE
      <4>1. h.version = g.version /\ h.ext = g.ext
        <5>1. Base(h).version = Base(g).version /\ Base(h).ext = Base(g).ext
          BY <3>1
        <5> QED
          BY <5>1 DEF Base
      <4>2. h \in Migrations(dir)
        BY <4>1, <2>9, <2>10, <1>9 DEF Migrations, HasVersion
      <4>3. IsTimestamp(h) \/ h.version < next
        BY <4>2, <1>2
      <4>4. ~(next > Epoch) /\ ~(next < next)
        BY <2>6, <1>2, <1>4
      <4> QED
        BY <4>1, <4>3, <4>4, <2>9, <1>4
    <3>2. {h \in dir \ {f} : Base(h) # Base(g)} = dir \ {f}
      BY <3>1
    <3> QED
      BY <3>2, <2>1, <1>9 DEF Put
  <2> HIDE DEF new
  <2>11. ASSUME NEW h \in Migrations(dir)
         PROVE  IF IsTimestamp(h) THEN h = f \/ f.version < h.version ELSE h.version < g.version
    <3>1. CASE IsTimestamp(h)
      <4>1. h.version = f.version \/ f.version < h.version
        BY <3>1, <2>4, <1>2, <1>3
      <4>2. h.version = f.version => h = f
        BY <2>4, <1>2 DEF Duplicates
      <4> QED
        BY <3>1, <4>1, <4>2
    <3>2. CASE ~IsTimestamp(h)
      BY <3>2, <2>9, <1>2
    <3> QED
      BY <3>1, <3>2
  <2>12. Renames(f, g)
    BY <2>3, <2>4, <2>9, <2>10, <2>11 DEF Renames
  <2>13. g \notin dir \ {f}
    BY <2>4, <2>9 DEF Inv, Listed
  <2>14. /\ IsFiniteSet(dir') /\ Cardinality(dir') = Cardinality(dir)
    <3>1. IsFiniteSet(dir \ {f}) /\ Cardinality(dir \ {f}) = Cardinality(dir) - 1
      BY <2>4, <1>4, FS_RemoveElement
    <3>2. /\ IsFiniteSet((dir \ {f}) \cup {g})
          /\ Cardinality((dir \ {f}) \cup {g}) = Cardinality(dir \ {f}) + 1
      BY <3>1, <2>13, FS_AddElement
    <3> QED
      BY <3>1, <3>2, <2>3, <1>4
  <2>15. /\ Sequential(dir') = Sequential(dir) \cup {g} /\ g \notin Sequential(dir)
    <3>1. g # f
      BY <2>4, <2>10
    <3> QED
      BY <3>1, <2>3, <2>4, <2>10, <2>13 DEF Sequential
  <2>16. Cardinality(Sequential(dir')) = K + 1
    BY <2>15, <1>4, FS_AddElement
  <2>17. Listed'
    <3>1. \A h, k \in dir' : h.content = k.content => h = k
      BY <2>3, <2>4, <2>9 DEF Inv, Listed
    <3>2. \A h \in dir' : h.version <= now'
      BY <2>3, <2>7, <2>8, <2>9, <1>1, <1>2 DEF Inv, Listed
    <3> QED
      BY <3>1, <3>2, <2>7, <1>1 DEF Listed
  <2>18. Room'
    <3>1. \A h \in Sequential(dir) : h.version \in Nat /\ h.version + Most < Epoch + K
      BY <1>4 DEF Inv, Room, Sequential
    <3>2. \A h \in Sequential(dir') : h.version + Most < Epoch + (K + 1)
      BY <3>1, <2>9, <2>15, <1>2, <1>4, <1>5
    <3> QED
      BY <3>2, <2>14, <2>16, <1>5 DEF Room, Sequential
  <2>19. TypeOK'
    <3>1. dir' \in SUBSET File
      BY <2>3, <2>9, <1>4
    <3>2. fixing' \in [todo : Seq(Migration), next : Nat]
      <4>1. NoFix \in [todo : Seq(Migration), next : Nat]
        BY DEF NoFix
      <4>2. [todo |-> Tail(todo), next |-> next + 1] \in [todo : Seq(Migration), next : Nat]
        BY <1>2, <1>3
      <4> QED
        BY <4>1, <4>2, <2>5
    <3>3. \A h \in dir' : Fair(h.version)
      BY <2>3, <2>10 DEF Inv, TypeOK
    <3> QED
      BY <3>1, <3>2, <3>3, <2>14, <1>1 DEF Inv, TypeOK, Registry, Fair
  <2>20. FixFits'
    <3> SUFFICES ASSUME fixing' # NoFix PROVE FixFits'
      BY DEF FixFits
    <3>1. fixing'.todo = Tail(todo) /\ fixing'.next = next + 1
      <4>1. fixing' = [todo |-> Tail(todo), next |-> next + 1]
        BY <2>5
      <4> QED
        BY <4>1
    <3>2. \A h \in Migrations(dir') : h = g \/ (h \in Migrations(dir) /\ h # f)
      BY <2>3 DEF Migrations
    <3>3. \A h \in Migrations(dir) : /\ h.version \in Nat
                                     /\ h # f => h.version # g.version
      <4> SUFFICES ASSUME NEW h \in Migrations(dir)
                   PROVE  h.version \in Nat /\ (h # f => h.version # g.version)
        OBVIOUS
      <4>1. h.version \in Nat
        BY <1>4 DEF Migrations
      <4>2. IsTimestamp(h) => h.version # g.version
        <5>1. IsTimestamp(h) => h.version > Epoch
          BY <1>4 DEF Migrations
        <5> QED
          BY <5>1, <4>1, <2>6, <2>9, <1>2, <1>4
      <4>3. ~IsTimestamp(h) => h.version # g.version
        BY <4>1, <2>9, <1>2
      <4> QED
        BY <4>1, <4>2, <4>3
    <3>4. ~Duplicates(Migrations(dir'))
      BY <3>2, <3>3, <1>2 DEF Duplicates
    <3>5. \A h \in Migrations(dir') : ~IsTimestamp(h) => h.version < next + 1
      BY <3>2, <3>3, <2>9, <1>2
    <3>6. next + 1 > 0 /\ (next + 1) + Most <= Epoch + (K + 1)
      BY <1>2, <1>4, <1>5
    <3>7. \A h \in Migrations(dir') : IsTimestamp(h) => h.version \in Versions(Tail(todo))
      <4> SUFFICES ASSUME NEW h \in Migrations(dir'), IsTimestamp(h)
                   PROVE  h.version \in Versions(Tail(todo))
        OBVIOUS
      <4>1. h \in Migrations(dir) /\ h # f
        BY <3>2, <2>10
      <4>2. h.version # Head(todo).version
        BY <4>1, <2>4, <1>2 DEF Duplicates
      <4> QED
        BY <4>1, <4>2, <1>2, <1>3
    <3> QED
      BY <3>1, <3>4, <3>5, <3>6, <3>7, <2>16, <1>1, <1>2, <1>3
         DEF FixFits, Migrations, Sequential, IsTimestamp, HasVersion, Duplicates
  <2> QED
    BY <2>12, <2>17, <2>18, <2>19, <2>20 DEF Inv
<1> QED
  BY <1>0, <1>8, <1>9
-----------------------------------------------------------------------------
(* The other steps *)

\* Joining adds up what is registered.
LEMMA JoinDomain == \A f, g : DOMAIN Join(f, g) = DOMAIN f \cup DOMAIN g
BY DEF Join

\* The steps that leave the directory alone.
LEMMA RegistryStep ==
    ASSUME Inv, UNCHANGED <<dir, now>>, fixing' \in {fixing, NoFix},
           fixing' # NoFix => result' = result,
           Registry(global'), DOMAIN global' \subseteq GivenVersions,
           result'.opts \in OptionLists \cup {<<>>}
    PROVE  Inv'
<1>1. NoFix \in [todo : Seq(Migration), next : Nat]
  BY DEF NoFix
<1>2. TypeOK' /\ Listed' /\ Room'
  BY <1>1 DEF Inv, TypeOK, Listed, Room, Sequential, IsTimestamp, Registry, Fair
<1>3. FixFits'
  BY DEF Inv, FixFits, Migrations, Duplicates, HasVersion, Sequential, IsTimestamp
<1> QED
  BY <1>2, <1>3 DEF Inv

\* Every step keeps the invariant.
LEMMA NextKeeps ==
    ASSUME Inv, Next
    PROVE  Inv' /\ (dir' = dir \/ (\E g : Adds(g)) \/ \E f, g : Renames(f, g))
<1>1. /\ Registry(global) /\ DOMAIN global \subseteq GivenVersions
      /\ result.opts \in OptionLists \cup {<<>>}
  BY DEF Inv, TypeOK
<1>2. NoResult.opts = <<>> /\ DOMAIN <<>> = {} /\ Registry(<<>>)
  BY FS_EmptySet DEF NoResult, Registry
<1>3. ASSUME NEW src \in GoSources, AddNamedMigration(src)
      PROVE  Inv' /\ dir' = dir
  <2> DEFINE new == Join([v \in {src.version} |-> [source |-> src]], global)
  <2>1. /\ UNCHANGED <<dir, fixing, now, result>>
        /\ global' = <<>> \/ global' = new
    BY <1>3 DEF AddNamedMigration
  <2>2. DOMAIN new = DOMAIN global \cup {src.version}
    BY JoinDomain
  <2>3. src.version \in GivenVersions /\ src.version \in Nat
    BY ArgumentsAssumption DEF GivenVersions
  <2> HIDE DEF new
  <2>4. Registry(new) /\ DOMAIN new \subseteq GivenVersions
    <3>1. IsFiniteSet(DOMAIN global \cup {src.version})
      BY <1>1, FS_AddElement DEF Registry
    <3> QED
      BY <3>1, <2>2, <2>3, <1>1 DEF Registry
  <2> QED
    BY <2>1, <2>4, <1>1, <1>2, RegistryStep
<1>4. ASSUME NEW ms \in GoLists, SetGlobalMigrations(ms)
      PROVE  Inv' /\ dir' = dir
  <2>1. /\ UNCHANGED <<dir, fixing, now, result>>
        /\ global' = Registered(global, ms).map
    BY <1>4 DEF SetGlobalMigrations
  <2>2. IsGoList(ms) /\ {m.version : m \in ToSet(ms)} \subseteq GivenVersions
    BY ArgumentsAssumption DEF GivenVersions
  <2>3. /\ Registry(global')
        /\ DOMAIN global' \subseteq DOMAIN global \cup {m.version : m \in ToSet(ms)}
    BY <2>1, <2>2, <1>1, RegisteredFacts
  <2> QED
    BY <2>1, <2>2, <2>3, <1>1, RegistryStep
<1>5. ASSUME ResetGlobalMigrations PROVE Inv' /\ dir' = dir
  BY <1>1, <1>2, <1>5, RegistryStep DEF ResetGlobalMigrations
<1>6. ASSUME NEW opts \in OptionLists, NEW custom \in BOOLEAN, NewProvider(opts, custom)
      PROVE  Inv' /\ dir' = dir
  <2>1. /\ Idle /\ UNCHANGED <<dir, fixing, now>>
        /\ global' = global \/ \E fs : global' = WithSources(fs)
        /\ result'.opts = opts
    BY <1>6 DEF NewProvider
  <2>2. \A fs : DOMAIN WithSources(fs) = DOMAIN global
    BY DEF WithSources
  <2>3. DOMAIN global' = DOMAIN global /\ fixing' = NoFix
    BY <2>1, <2>2 DEF Idle
  <2> QED
    BY <2>1, <2>3, <1>1, RegistryStep DEF Registry
<1>7. ASSUME CollectMigrations PROVE Inv' /\ dir' = dir
  <2>1. Idle /\ UNCHANGED <<dir, global, fixing, now>> /\ result'.opts = <<>>
    BY <1>7 DEF CollectMigrations, NoResult
  <2> QED
    BY <2>1, <1>1, RegistryStep DEF Idle
<1>8. ASSUME FixStops PROVE Inv' /\ dir' = dir
  BY <1>1, <1>8, RegistryStep DEF FixStops
<1>9. ASSUME Return PROVE Inv' /\ dir' = dir
  <2>1. /\ result # NoResult /\ result' = NoResult /\ UNCHANGED <<dir, global, fixing, now>>
    BY <1>9 DEF Return
  <2>2. fixing = NoFix
    BY <2>1 DEF Inv, FixFits
  <2> QED
    BY <2>1, <2>2, <1>1, <1>2, RegistryStep
<1>10. ASSUME Fix PROVE Inv' /\ dir' = dir
  BY <1>10, FixStep DEF Fix
<1> QED
  BY <1>3, <1>4, <1>5, <1>6, <1>7, <1>8, <1>9, <1>10, CreateStep, RenameStep DEF Next

\* The invariant holds at the start.
LEMMA InitInv ==
    ASSUME Init
    PROVE  Inv
<1>1. /\ dir \in SUBSET InitialFiles /\ IsFiniteSet(InitialFiles) /\ InitialFiles \subseteq File
  BY FilesAssumption DEF Init
<1>2. IsFiniteSet(dir) /\ Cardinality(dir) <= Cardinality(InitialFiles) /\ Cardinality(dir) \in Nat
  BY <1>1, FS_Subset, FS_CardinalityType
<1>3. TypeOK
  <2>1. NoFix \in [todo : Seq(Migration), next : Nat] /\ NoResult.opts = <<>>
    BY DEF NoFix, NoResult
  <2>2. Registry(<<>>) /\ DOMAIN <<>> = {}
    BY FS_EmptySet DEF Registry
  <2>3. \A f \in dir : Fair(f.version)
    BY <1>1, GivenFacts DEF GivenVersions
  <2> QED
    BY <2>1, <2>2, <2>3, <1>1, <1>2, FilesAssumption DEF TypeOK, Init
<1>4. Listed
  <2>1. \A f, g \in dir : f.content = g.content => f = g
    BY <1>1, FilesAssumption
  <2> QED
    BY <2>1, <1>1, FilesAssumption DEF Init, Listed
<1>5. Room
  <2>1. Cardinality(dir) <= Most
    BY <1>2, MostFacts, FilesAssumption, FS_CardinalityType
  <2>2. /\ Cardinality(Sequential(dir)) \in Nat /\ Epoch \in Nat
        /\ \A f \in dir : f.version \in Nat
        /\ \A f \in dir : ~IsTimestamp(f) <=> f.version < Epoch
    BY <1>3, DirFacts
  <2>3. ASSUME NEW f \in Sequential(dir)
        PROVE  f.version + Most < Epoch + Cardinality(Sequential(dir))
    <3>1. /\ f \in dir /\ f.version \in GivenVersions
          /\ f.version \in Nat /\ f.version < Epoch
      BY <1>1, <2>2 DEF Sequential, GivenVersions
    <3>2. f.version + Most < Epoch /\ Most \in Nat
      BY <3>1, MostFacts
    <3> QED
      BY <3>1, <3>2, <2>2
  <2> QED
    BY <2>1, <2>3 DEF Room
<1>6. FixFits
  BY DEF Init, FixFits
<1> QED
  BY <1>3, <1>4, <1>5, <1>6 DEF Inv

\* The invariant in every state.
LEMMA Invariance == Spec => []Inv
<1>1. Inv /\ UNCHANGED vars => Inv'
  BY DEF Inv, vars, TypeOK, Listed, Room, FixFits, Migrations, Duplicates, HasVersion,
         Sequential, IsTimestamp, Registry, Fair
<1>2. Inv /\ [Next]_vars => Inv'
  BY <1>1, NextKeeps
<1> QED
  BY <1>2, InitInv, PTL DEF Spec

-----------------------------------------------------------------------------
(* What Create and Fix may do to the directory *)

\* What ToolsDoNotClash and FixKeepsOrder say of a step.
KeepsFiles == /\ {f.content : f \in dir} \subseteq {f.content : f \in dir'}
              /\ \A f, g \in Migrations(dir') : f # g /\ f.version = g.version =>
                     \/ {f, g} \subseteq dir
                     \/ fixing = NoFix /\ now' = now /\ f.version = now

KeepsOrder == \A f, g \in Migrations(dir), h, k \in Migrations(dir') :
                  h.content = f.content /\ k.content = g.content /\ f.version < g.version
                      => h.version < k.version

\* A new file has a version of its own, or that of the last second.
LEMMA AddsIsSafe ==
    ASSUME Inv, NEW g, Adds(g)
    PROVE  KeepsFiles /\ KeepsOrder
<1>1. dir' = dir \cup {g}
  BY DEF Adds
<1>2. \A f \in Migrations(dir') : f = g \/ f \in Migrations(dir)
  BY <1>1 DEF Migrations
<1>3. \A f \in Migrations(dir) : f \in dir
  BY DEF Migrations
<1>4. ASSUME NEW f \in Migrations(dir'), NEW h \in Migrations(dir'), f # h, f.version = h.version
      PROVE  {f, h} \subseteq dir \/ (fixing = NoFix /\ now' = now /\ f.version = now)
  BY <1>2, <1>3, <1>4 DEF Adds
<1>5. KeepsFiles
  BY <1>1, <1>4 DEF KeepsFiles
<1>6. \A f \in Migrations(dir), k \in Migrations(dir') : k.content = f.content => k = f
  BY <1>2, <1>3 DEF Adds, Inv, Listed
<1>7. KeepsOrder
  BY <1>6 DEF KeepsOrder
<1> QED
  BY <1>5, <1>7

\* A rename overwrites nothing and keeps the order.
LEMMA RenamesIsSafe ==
    ASSUME Inv, NEW f, NEW g, Renames(f, g)
    PROVE  KeepsFiles /\ KeepsOrder
<1>1. /\ Epoch \in Nat /\ \A h \in dir : h.version \in Nat
      /\ \A h \in dir : IsTimestamp(h) <=> h.version > Epoch
  BY DirFacts DEF Inv
<1>2. /\ dir' = (dir \ {f}) \cup {g} /\ f \in dir /\ f \in Migrations(dir)
      /\ g.content = f.content /\ g.version \in Nat /\ ~IsTimestamp(g) /\ IsTimestamp(f)
      /\ Fair(g.version)
      /\ \A h \in Migrations(dir) : IF IsTimestamp(h) THEN h = f \/ f.version < h.version
                                    ELSE h.version < g.version
  BY DEF Renames, Migrations, File
<1>3. \A h \in Migrations(dir') : h = g \/ (h \in Migrations(dir) /\ h # f)
  BY <1>2 DEF Migrations
<1>4. \A h \in Migrations(dir) : /\ h \in dir /\ h.version \in Nat
                                 /\ IsTimestamp(h) <=> h.version > Epoch
  BY <1>1 DEF Migrations
<1>5. g.version < Epoch /\ f.version > Epoch
  BY <1>1, <1>2, FairFacts
<1>6. \A h \in Migrations(dir) : h.version # g.version
  BY <1>1, <1>2, <1>4, <1>5
<1>7. KeepsFiles
  <2>1. ASSUME NEW a \in Migrations(dir'), NEW b \in Migrations(dir'), a # b,
               a.version = b.version
        PROVE  {a, b} \subseteq dir
    BY <2>1, <1>3, <1>4, <1>6
  <2>2. \A h \in dir : h = f \/ h \in dir'
    BY <1>2
  <2>3. g \in dir' /\ g.content = f.content
    BY <1>2
  <2>4. {h.content : h \in dir} \subseteq {h.content : h \in dir'}
    BY <2>2, <2>3
  <2> QED
    BY <2>1, <2>4 DEF KeepsFiles
<1>8. \A a \in Migrations(dir), k \in Migrations(dir') :
          k.content = a.content => k = IF a = f THEN g ELSE a
  <2> SUFFICES ASSUME NEW a \in Migrations(dir), NEW k \in Migrations(dir'),
                      k.content = a.content
               PROVE  k = IF a = f THEN g ELSE a
    OBVIOUS
  <2>1. \A x, y \in dir : x.content = y.content => x = y
    BY DEF Inv, Listed
  <2> QED
    BY <2>1, <1>2, <1>3, <1>4
<1>9. ASSUME NEW a \in Migrations(dir), NEW b \in Migrations(dir), a.version < b.version
      PROVE  (IF a = f THEN g ELSE a).version < (IF b = f THEN g ELSE b).version
  <2>1. CASE a = f
    <3>1. b # f /\ b.version > Epoch
      BY <2>1, <1>1, <1>4, <1>5, <1>9
    <3> QED
      BY <3>1, <2>1, <1>1, <1>2, <1>4, <1>5
  <2>2. CASE a # f /\ b = f
    <3>1. ~IsTimestamp(a)
      BY <2>2, <1>2, <1>4, <1>9
    <3> QED
      BY <3>1, <2>2, <1>2
  <2>3. CASE a # f /\ b # f
    BY <2>3, <1>9
  <2> QED
    BY <2>1, <2>2, <2>3
<1>10. KeepsOrder
  BY <1>8, <1>9 DEF KeepsOrder
<1> QED
  BY <1>7, <1>10

\* No other step touches the directory.
LEMMA DirectoryStep ==
    ASSUME Inv, [Next]_vars
    PROVE  KeepsFiles /\ KeepsOrder
<1>1. CASE dir' = dir
  <2>1. \A f \in Migrations(dir), h \in Migrations(dir') : h.content = f.content => h = f
    BY <1>1 DEF Migrations, Inv, Listed
  <2>2. \A f \in Migrations(dir') : f \in dir
    BY <1>1 DEF Migrations
  <2> QED
    BY <1>1, <2>1, <2>2 DEF KeepsFiles, KeepsOrder
<1>2. dir' = dir \/ (\E g : Adds(g)) \/ \E f, g : Renames(f, g)
  BY NextKeeps DEF vars
<1> QED
  BY <1>1, <1>2, AddsIsSafe, RenamesIsSafe

\* For directories and registries of every size: Create and Fix, also one that was
\* interrupted and started again, lose no file, and give two migrations the same
\* version only if both had it or if Create is called twice in a second.
THEOREM ToolsDoNotClashCorrect == Spec => ToolsDoNotClash
<1>1. Inv /\ [Next]_vars =>
          [/\ {f.content : f \in dir} \subseteq {f.content : f \in dir'}
           /\ \A f, g \in Migrations(dir') : f # g /\ f.version = g.version =>
                  \/ {f, g} \subseteq dir
                  \/ fixing = NoFix /\ now' = now /\ f.version = now]_vars
  BY DirectoryStep DEF KeepsFiles
<1> QED
  BY <1>1, Invariance, PTL DEF Spec, ToolsDoNotClash

\* Fix keeps the migrations in their order after every rename.
THEOREM FixKeepsOrderCorrect == Spec => FixKeepsOrder
<1>1. Inv /\ [Next]_vars =>
          [\A f, g \in Migrations(dir), h, k \in Migrations(dir') :
               h.content = f.content /\ k.content = g.content /\ f.version < g.version
                   => h.version < k.version]_vars
  BY DirectoryStep DEF KeepsOrder
<1> QED
  BY <1>1, Invariance, PTL DEF Spec, FixKeepsOrder
-----------------------------------------------------------------------------
(* The options, one after the other *)

ApplyNext(c, o) == IF c.ok THEN apply(c, o) ELSE c

\* The configurations that NewProvider goes through.
LEMMA ConfiguredSteps ==
    ASSUME NEW opts, Len(opts) \in Nat
    PROVE  \E after : /\ after[0] = config
                      /\ \A n \in 1..Len(opts) : after[n] = ApplyNext(after[n - 1], opts[n])
                      /\ Configured(opts) = after[Len(opts)]
<1> DEFINE Is(a, n) == a = [i \in 0..n |-> IF i = 0 THEN config ELSE ApplyNext(a[i - 1], opts[i])]
           Bad == {n \in Nat : ~\E a : Is(a, n)}
<1>1. Bad = {}
  <2> SUFFICES ASSUME Bad # {} PROVE FALSE
    OBVIOUS
  <2>1. PICK m \in Bad : \A n \in Bad : m <= n
    BY LeastExists
  <2>2. m # 0
    <3>1. Is([i \in 0..0 |-> config], 0)
      OBVIOUS
    <3> QED
      BY <3>1, <2>1
  <2>3. m \in Nat /\ m - 1 \in Nat /\ ~(m <= m - 1)
    BY <2>1, <2>2
  <2>4. PICK a : Is(a, m - 1)
    BY <2>1, <2>3
  <2> DEFINE b == [i \in 0..m |-> IF i = m THEN ApplyNext(a[m - 1], opts[m]) ELSE a[i]]
  <2>5. /\ \A i \in 0..m : i # m => i \in 0..(m - 1)
        /\ \A i \in 0..m : i # 0 => i - 1 \in 0..m /\ i - 1 # m /\ i - 1 \in 0..(m - 1)
    BY <2>3
  <2>6. ASSUME NEW i \in 0..m
        PROVE  b[i] = IF i = 0 THEN config ELSE ApplyNext(b[i - 1], opts[i])
    <3>1. CASE i = m
      BY <3>1, <2>2, <2>5
    <3>2. CASE i # m /\ i = 0
      BY <3>2, <2>4, <2>5
    <3>3. CASE i # m /\ i # 0
      <4>1. b[i] = a[i] /\ b[i - 1] = a[i - 1]
        BY <3>3, <2>5
      <4> QED
        BY <4>1, <3>3, <2>4, <2>5
    <3> QED
      BY <3>1, <3>2, <3>3
  <2>7. Is(b, m)
    BY <2>6
  <2> QED
    BY <2>1, <2>7
<1> DEFINE after == CHOOSE a : Is(a, Len(opts))
<1>2. Is(after, Len(opts))
  BY <1>1
<1>3. Configured(opts) = after[Len(opts)]
  BY DEF Configured, ApplyNext
<1> HIDE DEF after
<1>4. after[0] = config /\ \A n \in 1..Len(opts) : after[n] = ApplyNext(after[n - 1], opts[n])
  BY <1>2
<1> QED
  BY <1>3, <1>4

IsConfig(c) ==
    /\ c = [ok |-> c.ok, locker |-> c.locker, store |-> c.store,
            excludePaths |-> c.excludePaths, excludeVersions |-> c.excludeVersions,
            registered |-> c.registered, last |-> c.last]
    /\ c.ok \in BOOLEAN /\ c.store \in BOOLEAN
    /\ c.last = [k \in LastWins |-> c.last[k]]
    /\ Registry(c.registered)

\* An option of which the last wins sets its own value alone.
LEMMA SetFields ==
    ASSUME NEW c, IsConfig(c), NEW kind \in LastWins, NEW args
    PROVE  LET d == Set(c, kind, args)
           IN  /\ IsConfig(d) /\ d.ok = c.ok /\ d.locker = c.locker /\ d.store = c.store
               /\ d.excludePaths = c.excludePaths /\ d.excludeVersions = c.excludeVersions
               /\ d.registered = c.registered
               /\ d.last[kind] = args
               /\ \A k \in LastWins : k # kind => d.last[k] = c.last[k]
<1>1. PICK l : l = [c.last EXCEPT ![kind] = args]
  OBVIOUS
<1>2. /\ l = [k \in LastWins |-> l[k]] /\ l[kind] = args
      /\ \A k \in LastWins : k # kind => l[k] = c.last[k]
  BY <1>1 DEF IsConfig
<1>3. PICK d : d = [c EXCEPT !.last = l]
  OBVIOUS
<1>4. d = Set(c, kind, args)
  BY <1>1, <1>3 DEF Set, IsConfig
<1>5. /\ d.ok = c.ok /\ d.locker = c.locker /\ d.store = c.store
      /\ d.excludePaths = c.excludePaths /\ d.excludeVersions = c.excludeVersions
      /\ d.registered = c.registered /\ d.last = l
      /\ d = [ok |-> d.ok, locker |-> d.locker, store |-> d.store,
              excludePaths |-> d.excludePaths, excludeVersions |-> d.excludeVersions,
              registered |-> d.registered, last |-> d.last]
  BY <1>3 DEF IsConfig
<1>6. IsConfig(d)
  BY <1>2, <1>5 DEF IsConfig
<1> QED
  BY <1>2, <1>4, <1>5, <1>6

\* What one option does to a configuration, field by field.
LEMMA ApplyFields ==
    ASSUME NEW c, IsConfig(c), NEW o, IsOption(o)
    PROVE  LET d == apply(c, o)
           IN  /\ IsConfig(d)
               /\ o.with \notin {"session", "table"} => d.locker = c.locker
               /\ o.with # "store" => d.store = c.store
               /\ o.with # "excludeNames" => d.excludePaths = c.excludePaths
               /\ o.with # "excludeVersions" => d.excludeVersions = c.excludeVersions
               /\ o.with # "goMigrations" => d.registered = c.registered
               /\ \A k \in LastWins : k # o.with => d.last[k] = c.last[k]
               /\ o.with \in LastWins /\ d.ok => d.last[o.with] = o.args
               /\ o.with \in Flags /\ c.ok => d.ok
               /\ o.with = "tableName" /\ c.ok => (d.ok <=> o.args # <<>>)
<1> DEFINE d == apply(c, o)
<1>1. /\ IsConfig(Refuse(c)) /\ Refuse(c) = [c EXCEPT !.ok = FALSE] /\ ~Refuse(c).ok
      /\ Refuse(c).last = c.last
  <2>1. PICK e : e = Refuse(c)
    OBVIOUS
  <2>2. e = [c EXCEPT !.ok = FALSE]
    BY <2>1 DEF Refuse
  <2>3. IsConfig(e) /\ ~e.ok /\ e.last = c.last
    BY <2>2 DEF IsConfig
  <2> QED
    BY <2>1, <2>2, <2>3
<1>2. CASE o.with \in {"session", "table"}
  <2>1. d = WithLocker(c, o.with, o.args)
    BY <1>2 DEF apply, Flags
  <2>2. o.with \notin LastWins
    BY <1>2 DEF LastWins, Flags
  <2> QED
    BY <2>1, <2>2, <1>1, <1>2 DEF WithLocker, IsConfig, Flags
<1> DEFINE Same(e) == /\ e.locker = c.locker /\ e.store = c.store
                      /\ e.excludePaths = c.excludePaths
                      /\ e.excludeVersions = c.excludeVersions
                      /\ e.registered = c.registered
<1>3. Same(Refuse(c))
  BY <1>1 DEF IsConfig
<1>4. ASSUME NEW k \in LastWins
      PROVE  LET e == Set(c, k, o.args)
             IN  /\ IsConfig(e) /\ Same(e) /\ e.ok = c.ok /\ e.last[k] = o.args
                 /\ \A j \in LastWins : j # k => e.last[j] = c.last[j]
  BY SetFields
<1>5. CASE o.with \in {"logger", "slog"}
  <2>1. d = WithLogger(c, o.with, o.args)
    BY <1>5 DEF apply, Flags
  <2>2. d = Refuse(c) \/ d = Set(c, o.with, o.args)
    BY <2>1 DEF WithLogger
  <2>3. o.with \in LastWins /\ o.with \notin Flags
    BY <1>5 DEF LastWins, Flags
  <2>4. PICK w : w = o.with
    OBVIOUS
  <2> HIDE DEF d
  <2>5. CASE d = Refuse(c)
    BY <2>3, <2>5, <1>1, <1>3, <1>5 DEF d
  <2>6. CASE d = Set(c, o.with, o.args)
    BY <2>3, <2>6, <1>4, <1>5 DEF d
  <2> QED
    BY <2>2, <2>5, <2>6
<1>6. CASE o.with = "store"
  <2>1. d = WithStore(c, o.args)
    BY <1>6 DEF apply, Flags
  <2>2. o.with \notin LastWins
    BY <1>6 DEF LastWins, Flags
  <2> QED
    BY <2>1, <2>2, <1>1, <1>6 DEF WithStore, IsConfig, Flags
<1>7. CASE o.with = "tableName"
  <2>1. d = WithTableName(c, o.args)
    BY <1>7 DEF apply, Flags
  <2>2. d = IF o.args = <<>> THEN Refuse(c) ELSE Set(c, "tableName", o.args)
    BY <2>1 DEF WithTableName
  <2>3. "tableName" \in LastWins /\ o.with \notin Flags
    BY <1>7 DEF LastWins, Flags
  <2> HIDE DEF d
  <2>5. CASE o.args = <<>>
    <3>1. d = Refuse(c)
      BY <2>2, <2>5
    <3> QED
      BY <3>1, <2>3, <2>5, <1>1, <1>3, <1>7 DEF d
  <2>6. CASE o.args # <<>>
    <3>1. d = Set(c, "tableName", o.args)
      BY <2>2, <2>6
    <3> QED
      BY <3>1, <2>3, <2>6, <1>4, <1>7 DEF d
  <2> QED
    BY <2>5, <2>6
<1>8. CASE o.with = "excludeNames"
  <2>1. d = WithExcludeNames(c, o.args)
    BY <1>8 DEF apply, Flags
  <2>2. o.with \notin LastWins
    BY <1>8 DEF LastWins, Flags
  <2> QED
    BY <2>1, <2>2, <1>1, <1>8 DEF WithExcludeNames, IsConfig, Flags
<1>9. CASE o.with = "excludeVersions"
  <2>1. d = WithExcludeVersions(c, o.args)
    BY <1>9 DEF apply, Flags
  <2>2. o.with \notin LastWins
    BY <1>9 DEF LastWins, Flags
  <2> QED
    BY <2>1, <2>2, <1>1, <1>9 DEF WithExcludeVersions, IsConfig, Flags
<1>10. CASE o.with = "goMigrations"
  <2>1. d = WithGoMigrations(c, o.args)
    BY <1>10 DEF apply, Flags
  <2>2. PICK r : r = Registered(c.registered, o.args)
    OBVIOUS
  <2>3. Registry(r.map)
    BY <2>2, <1>10, RegisteredFacts DEF IsConfig, IsOption
  <2>4. d = IF r.ok THEN [c EXCEPT !.registered = r.map] ELSE Refuse(c)
    BY <2>1, <2>2 DEF WithGoMigrations
  <2>5. o.with \notin LastWins
    BY <1>10 DEF LastWins, Flags
  <2> QED
    BY <2>3, <2>4, <2>5, <1>1, <1>10 DEF IsConfig, Flags
<1>11. CASE o.with \in Flags
  <2>1. d = Set(c, o.with, o.args)
    BY <1>11 DEF apply, Flags
  <2>2. /\ o.with \in LastWins
        /\ o.with \notin {"session", "table", "store", "excludeNames", "excludeVersions",
                          "goMigrations", "tableName"}
    BY <1>11 DEF LastWins, Flags
  <2> HIDE DEF d
  <2> QED
    BY <2>1, <2>2, <1>4 DEF d
<1> QED
  BY <1>2, <1>5, <1>6, <1>7, <1>8, <1>9, <1>10, <1>11 DEF IsOption, OptionKinds, LastWins

\* What an accepted or refused list of options amounts to is a configuration.
LEMMA ConfiguredTyped ==
    ASSUME NEW opts, opts \in Seq(ToSet(opts)), \A o \in ToSet(opts) : IsOption(o)
    PROVE  IsConfig(Configured(opts))
<1>1. /\ Len(opts) \in Nat /\ DOMAIN opts = 1..Len(opts)
      /\ \A n \in 1..Len(opts) : opts[n] \in ToSet(opts)
  BY LenProperties
<1>2. PICK after : /\ after[0] = config
                   /\ \A n \in 1..Len(opts) : after[n] = ApplyNext(after[n - 1], opts[n])
                   /\ Configured(opts) = after[Len(opts)]
  BY <1>1, ConfiguredSteps
<1>3. IsConfig(config)
  BY FS_EmptySet DEF IsConfig, config, Registry
<1> DEFINE Bad == {n \in 0..Len(opts) : ~IsConfig(after[n])}
<1>4. Bad = {}
  <2> SUFFICES ASSUME Bad # {} PROVE FALSE
    OBVIOUS
  <2>1. Bad \in SUBSET Nat
    BY <1>1
  <2>2. PICK m \in Bad : \A n \in Bad : m <= n
    BY <2>1, LeastExists
  <2>3. m # 0 /\ ~IsConfig(after[m])
    BY <2>2, <1>2, <1>3
  <2>4. m \in 1..Len(opts) /\ m - 1 \in 0..Len(opts) /\ ~(m <= m - 1)
    BY <2>2, <2>3, <1>1
  <2>5. IsConfig(after[m - 1]) /\ IsOption(opts[m])
    BY <2>2, <2>4, <1>1
  <2>6. after[m] = ApplyNext(after[m - 1], opts[m])
    BY <2>4, <1>2
  <2> HIDE DEF Bad
  <2>7. IsConfig(apply(after[m - 1], opts[m]))
    BY <2>5, ApplyFields
  <2> QED
    BY <2>3, <2>5, <2>6, <2>7 DEF ApplyNext
<1> QED
  BY <1>1, <1>2, <1>4

\* The lists of options that a result can have.
LEMMA OptionListFacts ==
    ASSUME NEW opts \in OptionLists \cup {<<>>}
    PROVE  opts \in Seq(ToSet(opts)) /\ \A o \in ToSet(opts) : IsOption(o)
<1>1. ToSet(<<>>) = {} /\ <<>> \in Seq(ToSet(<<>>))
  BY DEF ToSet
<1>2. CASE opts = <<>>
  BY <1>1, <1>2
<1>3. CASE opts \in OptionLists
  BY <1>3, ArgumentsAssumption
<1> QED
  BY <1>2, <1>3

\* Without options there is nothing but the defaults.
LEMMA NoOptions == Configured(<<>>) = config
<1>1. Len(<<>>) = 0
  OBVIOUS
<1> QED
  BY <1>1, ConfiguredSteps
-----------------------------------------------------------------------------
(* The list of NewProvider *)

\* fs.Glob tells names apart.
LEMMA PositionFacts ==
    ASSUME NEW f \in File
    PROVE  /\ Position(f) \in Nat /\ Position(f) \in DOMAIN LexOrder
           /\ LexOrder[Position(f)] = <<f.version, f.padded>>
<1>1. f.version \in 0..MaxVersion /\ f.padded \in BOOLEAN
  BY DEF File
<1>2. <<f.version, f.padded>> \in ToSet(LexOrder)
  BY <1>1, GlobAssumption
<1>3. Position(f) \in DOMAIN LexOrder /\ LexOrder[Position(f)] = <<f.version, f.padded>>
  BY <1>2 DEF Position, ToSet
<1>4. DOMAIN LexOrder = 1..Len(LexOrder)
  BY GlobAssumption, LenProperties
<1> QED
  BY <1>3, <1>4

\* Names as Create and Fix write them are in the order of their versions.
LEMMA WrittenOrder ==
    ASSUME NEW f \in File, NEW g \in File, Written(f), Written(g), Position(f) < Position(g)
    PROVE  f.version < g.version
<1> DEFINE Sorts(e) == IF e[2] THEN e[1] < PadLimit ELSE e[1] \in Times /\ e[1] > Epoch
<1>1. \A i, j \in DOMAIN LexOrder :
          i < j /\ Sorts(LexOrder[i]) /\ Sorts(LexOrder[j]) => LexOrder[i][1] < LexOrder[j][1]
  BY GlobAssumption
<1>2. /\ Position(f) \in DOMAIN LexOrder /\ LexOrder[Position(f)] = <<f.version, f.padded>>
      /\ Position(g) \in DOMAIN LexOrder /\ LexOrder[Position(g)] = <<g.version, g.padded>>
  BY PositionFacts
<1>3. Sorts(<<f.version, f.padded>>) /\ Sorts(<<g.version, g.padded>>)
  BY DEF Written, IsTimestamp
<1> HIDE DEF Sorts
<1>4. <<f.version, f.padded>>[1] < <<g.version, g.padded>>[1]
  BY <1>1, <1>2, <1>3
<1> QED
  BY <1>4

\* The SQL files in the order of their names.
LEMMA SQLListFacts ==
    ASSUME NEW fs \in SUBSET File, IsFiniteSet(fs), ~Duplicates(fs)
    PROVE  LET t == SQLList(fs)
               names == ByName(OfType(fs, "sql"))
           IN  /\ t \in Seq(Migration) /\ DOMAIN t = DOMAIN names /\ DOMAIN t \subseteq Nat
               /\ ToSet(t) = {SQLMigration(f) : f \in OfType(fs, "sql")}
               /\ \A i \in DOMAIN t : /\ names[i] \in OfType(fs, "sql")
                                      /\ t[i] = SQLMigration(names[i])
               /\ \A i, j \in DOMAIN t : i < j => Position(names[i]) < Position(names[j])
               /\ \A i, j \in DOMAIN t : i # j => t[i].version # t[j].version
<1> DEFINE Q == OfType(fs, "sql")
           key == [f \in Q |-> Position(f)]
           names == ByName(Q)
           t == SQLList(fs)
           n == Cardinality(Q)
<1>1. Q \in SUBSET fs
  BY DEF OfType
<1>2. IsFiniteSet(Q) /\ n \in Nat
  BY <1>1, FS_Subset, FS_CardinalityType
<1>3. key \in [Q -> Nat] /\ \A x \in Q : key[x] = Position(x)
  BY <1>1, PositionFacts
<1>4. \A x, y \in Q : key[x] = key[y] => x = y
  <2> SUFFICES ASSUME NEW x \in Q, NEW y \in Q, key[x] = key[y] PROVE x = y
    OBVIOUS
  <2>1. x \in File /\ y \in File /\ x \in fs /\ y \in fs /\ Position(x) = Position(y)
    BY <1>1, <1>3
  <2>2. <<x.version, x.padded>> = <<y.version, y.padded>>
    BY <2>1, PositionFacts
  <2> QED
    BY <2>1, <2>2 DEF Duplicates
<1>5. names = SortedBy(Q, key)
  BY DEF ByName
<1>6. t = [i \in DOMAIN names |-> SQLMigration(names[i])]
  BY DEF SQLList
<1> HIDE DEF Q, key, names, t, n
<1>7. /\ names \in Seq(Q) /\ Len(names) = Cardinality(Q) /\ ToSet(names) = Q
      /\ \A i, j \in 1..Cardinality(Q) : i < j => key[names[i]] < key[names[j]]
  BY <1>2, <1>3, <1>4, <1>5, SortedByProperties
<1>8. DOMAIN names = 1..n /\ \A i \in 1..n : names[i] \in Q
  BY <1>7, LenProperties DEF n
<1>9. \A f \in Q : SQLMigration(f) \in Migration /\ SQLMigration(f).version = f.version
  <2>1. \A f \in Q : f.version \in Nat
    BY <1>1 DEF File
  <2> QED
    BY <2>1 DEF SQLMigration, Migration
<1>10. t \in Seq(Migration) /\ DOMAIN t = 1..n
  <2>1. t \in [1..n -> Migration]
    BY <1>6, <1>8, <1>9
  <2> QED
    BY <2>1, <1>2, SeqDef
<1>11. ToSet(t) = {SQLMigration(f) : f \in Q}
  BY <1>6, <1>7, <1>8, <1>10 DEF ToSet
<1>12. \A i, j \in 1..n : i < j => Position(names[i]) < Position(names[j])
  BY <1>3, <1>7, <1>8 DEF n
<1>13. ASSUME NEW i \in 1..n, NEW j \in 1..n, i # j PROVE t[i].version # t[j].version
  <2>1. i \in Nat /\ j \in Nat /\ (i < j \/ j < i)
    BY <1>2, <1>13
  <2>2. Position(names[i]) \in Nat /\ Position(names[j]) \in Nat
    BY <1>3, <1>8
  <2>3. names[i] # names[j]
    BY <2>1, <2>2, <1>12
  <2>4. names[i].version # names[j].version
    BY <2>3, <1>1, <1>8 DEF Duplicates
  <2> QED
    BY <2>4, <1>6, <1>8, <1>9
<1>14. \A i \in 1..n : names[i] \in Q /\ t[i] = SQLMigration(names[i])
  BY <1>6, <1>8
<1>15. 1..n \subseteq Nat
  BY <1>2
<1> QED
  BY <1>8, <1>10, <1>11, <1>12, <1>13, <1>14, <1>15 DEF Q, names, t

\* merge, where it does not fail.
LEMMA MergedFacts ==
    ASSUME NEW fs \in SUBSET File, IsFiniteSet(fs), ~Duplicates(fs),
           \A f \in fs : f.ext # "_test.go",
           NEW registered, Registry(registered), ~MergeFails(fs, registered)
    PROVE  LET t == Merged(fs, registered)
           IN  /\ t \in Seq(Migration)
               /\ \A i, j \in DOMAIN t : i # j => t[i].version # t[j].version
               /\ Versions(t) = {f.version : f \in fs} \cup DOMAIN registered
               /\ \A f \in fs : \E m \in ToSet(t) : m.version = f.version /\ m.type = f.ext
               /\ \/ InVersionOrder(t)
                  \/ /\ \A m \in ToSet(t) : m.type = "sql"
                     /\ \E f, g \in OfType(fs, "sql") :
                            Position(f) < Position(g) /\ g.version < f.version
<1> DEFINE Q == OfType(fs, "sql")
           G == {GoMigration(v) : v \in DOMAIN registered}
           s == SQLList(fs)
           names == ByName(Q)
           t == Merged(fs, registered)
<1>1. /\ s \in Seq(Migration) /\ DOMAIN s = DOMAIN names /\ DOMAIN s \subseteq Nat
      /\ ToSet(s) = {SQLMigration(f) : f \in Q}
      /\ \A i \in DOMAIN s : names[i] \in Q /\ s[i] = SQLMigration(names[i])
      /\ \A i, j \in DOMAIN s : i < j => Position(names[i]) < Position(names[j])
      /\ \A i, j \in DOMAIN s : i # j => s[i].version # s[j].version
  BY SQLListFacts
<1>2. /\ \A f \in fs : f.version \in Nat /\ (f \in Q \/ f \in OfType(fs, "go"))
      /\ Q \subseteq fs /\ OfType(fs, "go") \subseteq fs
      /\ \A f \in Q : f.ext = "sql"
      /\ \A f \in OfType(fs, "go") : f.ext = "go"
  BY DEF OfType, File
<1>3. /\ \A f \in OfType(fs, "go") : f.version \in DOMAIN registered
      /\ \A f \in Q : f.version \notin DOMAIN registered
  BY DEF MergeFails, AllUnregistered
<1>4. \A f : SQLMigration(f).version = f.version /\ SQLMigration(f).type = "sql"
  BY DEF SQLMigration
<1>5. \A v : GoMigration(v).version = v /\ GoMigration(v).type = "go"
  BY DEF GoMigration
<1>6. CASE OfType(fs, "go") = {} /\ registered = <<>>
  <2>1. t = s /\ DOMAIN registered = {}
    BY <1>6 DEF Merged
  <2>2. Versions(s) = {f.version : f \in fs}
    BY <1>1, <1>2, <1>4, <1>6 DEF Versions
  <2>3. \A f \in fs : \E m \in ToSet(s) : m.version = f.version /\ m.type = f.ext
    BY <1>1, <1>2, <1>4, <1>6
  <2>4. \A m \in ToSet(s) : m.type = "sql"
    BY <1>1, <1>4
  <2>5. ASSUME ~InVersionOrder(s)
        PROVE  \E f, g \in Q : Position(f) < Position(g) /\ g.version < f.version
    <3>1. PICK i \in DOMAIN s, j \in DOMAIN s : i < j /\ ~(s[i].version < s[j].version)
      BY <2>5 DEF InVersionOrder
    <3>2. i # j
      BY <3>1, <1>1
    <3>3. /\ names[i] \in Q /\ names[j] \in Q /\ Position(names[i]) < Position(names[j])
          /\ s[i].version = names[i].version /\ s[j].version = names[j].version
          /\ s[i].version # s[j].version
      BY <3>1, <3>2, <1>1, <1>4
    <3>4. names[i].version \in Nat /\ names[j].version \in Nat
      BY <3>3, <1>2
    <3>5. names[j].version < names[i].version
      BY <3>1, <3>3, <3>4
    <3> QED
      BY <3>3, <3>5
  <2> QED
    BY <2>1, <2>2, <2>3, <2>4, <2>5, <1>1
<1>7. CASE ~(OfType(fs, "go") = {} /\ registered = <<>>)
  <2> DEFINE S == ToSet(s) \cup G
  <2>1. t = ByVersion(S)
    BY <1>7 DEF Merged
  <2>2. IsFiniteSet(G)
    <3> DEFINE F == [v \in DOMAIN registered |-> GoMigration(v)]
    <3>1. F = [v \in DOMAIN registered |-> F[v]] /\ {F[v] : v \in DOMAIN registered} = G
      OBVIOUS
    <3> HIDE DEF F, G
    <3>2. IsFiniteSet({F[v] : v \in DOMAIN registered})
      BY <3>1, ImageFinite DEF Registry
    <3> QED
      BY <3>1, <3>2
  <2>3. IsFiniteSet(ToSet(s))
    <3>1. DOMAIN s = 1..Len(s) /\ Len(s) \in Nat
      BY <1>1, LenProperties
    <3>2. IsFiniteSet(DOMAIN s)
      BY <3>1, FS_Interval
    <3>4. s = [i \in DOMAIN s |-> s[i]]
      BY <1>1, LenProperties
    <3>3. ToSet(s) = {s[i] : i \in DOMAIN s}
      BY DEF ToSet
    <3> QED
      BY <3>2, <3>3, <3>4, ImageFinite
  <2>4. \A v \in DOMAIN registered : GoMigration(v) \in Migration
    BY DEF GoMigration, Migration, Registry
  <2>5. ToSet(s) \subseteq Migration
    BY <1>1, ElementsTyped
  <2>6. S \in SUBSET Migration /\ IsFiniteSet(S)
    BY <2>2, <2>3, <2>4, <2>5, FS_Union
  <2>7. \A m, k \in S : m.version = k.version => m = k
    <3>1. \A m \in ToSet(s) : \E f \in Q : m = SQLMigration(f) /\ m.version = f.version
      BY <1>1, <1>4
    <3>2. \A m \in G : m.version \in DOMAIN registered /\ m = GoMigration(m.version)
      BY <1>5
    <3>3. \A m \in ToSet(s) : m.version \notin DOMAIN registered
      BY <3>1, <1>3
    <3>4. \A f, g \in Q : f.version = g.version => SQLMigration(f) = SQLMigration(g)
      BY DEF SQLMigration
    <3> HIDE DEF G, s
    <3> QED
      BY <3>1, <3>2, <3>3, <3>4
  <2>8. {m.version : m \in S} = {f.version : f \in fs} \cup DOMAIN registered
    BY <1>1, <1>2, <1>3, <1>4, <1>5
  <2>9. \A f \in fs : \E m \in S : m.version = f.version /\ m.type = f.ext
    BY <1>1, <1>2, <1>3, <1>4, <1>5
  <2> HIDE DEF S, t
  <2>10. /\ t \in Seq(Migration) /\ ToSet(t) = S /\ InVersionOrder(t)
         /\ Versions(t) = {m.version : m \in S}
    BY <2>1, <2>6, <2>7, ByVersionFacts
  <2>11. DOMAIN t = 1..Len(t) /\ \A i \in DOMAIN t : t[i].version \in Nat
    <3>1. DOMAIN t = 1..Len(t) /\ \A i \in DOMAIN t : t[i] \in Migration
      BY <2>10, LenProperties
    <3> QED
      BY <3>1 DEF Migration
  <2>12. ASSUME NEW i \in DOMAIN t, NEW j \in DOMAIN t, i # j PROVE t[i].version # t[j].version
    <3>1. i < j \/ j < i
      BY <2>11, <2>12
    <3> QED
      BY <3>1, <2>10, <2>11 DEF InVersionOrder
  <2> QED
    BY <2>8, <2>9, <2>10, <2>12 DEF t
<1> QED
  BY <1>6, <1>7

\* A Provider that is built.
LEMMA BuiltFacts ==
    ASSUME Inv, NEW opts \in OptionLists, NEW custom \in BOOLEAN, NewProvider(opts, custom),
           result'.ok
    PROVE  LET c == Configured(opts)
               fs == Sources(c)
               R == DOMAIN c.registered \cup (IF disableGlobalRegistry(c) THEN {} ELSE DOMAIN global)
               t == result'.list
           IN  /\ t \in Seq(Migration) /\ t # <<>>
               /\ \A i, j \in DOMAIN t : i # j => t[i].version # t[j].version
               /\ Versions(t) = {f.version : f \in fs} \cup R
               /\ \A f \in fs : \E m \in ToSet(t) : m.version = f.version /\ m.type = f.ext
               /\ \/ InVersionOrder(t)
                  \/ /\ \A m \in ToSet(t) : m.type = "sql"
                     /\ \E f, g \in OfType(fs, "sql") :
                            Position(f) < Position(g) /\ g.version < f.version
<1> DEFINE c == Configured(opts)
           fs == Sources(c)
           own == c.registered
           registered == IF disableGlobalRegistry(c) THEN own ELSE Join(own, global)
           clash == ~disableGlobalRegistry(c) /\ DOMAIN own \cap DOMAIN global # {}
           merges == ConfigOK(c, custom) /\ ~Duplicates(fs) /\ ~clash
           list == Merged(fs, registered)
           ok == merges /\ ~MergeFails(fs, registered) /\ list # <<>>
           R == DOMAIN own \cup (IF disableGlobalRegistry(c) THEN {} ELSE DOMAIN global)
<1>1. result' = [call |-> "NewProvider", ok |-> ok, opts |-> opts, custom |-> custom,
                 list |-> IF ok THEN list ELSE <<>>]
  BY DEF NewProvider
<1>2. ok /\ result'.list = list
  BY <1>1
<1>3. IsConfig(c)
  BY OptionListFacts, ConfiguredTyped
<1>4. Registry(own) /\ Registry(global)
  BY <1>3 DEF IsConfig, Inv, TypeOK
<1>5. DOMAIN registered = R
  BY JoinDomain
<1>6. Registry(registered)
  <2>1. IsFiniteSet(R) /\ R \subseteq Nat
    BY <1>4, FS_Union DEF Registry
  <2> QED
    BY <2>1, <1>5 DEF Registry
<1>7. fs \in SUBSET dir /\ \A f \in fs : f.ext # "_test.go"
  BY DEF Sources
<1>8. fs \in SUBSET File /\ IsFiniteSet(fs)
  BY <1>7, FS_Subset DEF Inv, TypeOK
<1>9. ~Duplicates(fs) /\ ~MergeFails(fs, registered) /\ list # <<>>
  BY <1>2
<1> HIDE DEF c, fs, registered
<1>10. /\ list \in Seq(Migration)
       /\ \A i, j \in DOMAIN list : i # j => list[i].version # list[j].version
       /\ Versions(list) = {f.version : f \in fs} \cup DOMAIN registered
       /\ \A f \in fs : \E m \in ToSet(list) : m.version = f.version /\ m.type = f.ext
       /\ \/ InVersionOrder(list)
          \/ /\ \A m \in ToSet(list) : m.type = "sql"
             /\ \E f, g \in OfType(fs, "sql") :
                    Position(f) < Position(g) /\ g.version < f.version
  BY <1>6, <1>7, <1>8, <1>9, MergedFacts
<1> HIDE DEF list
<1> QED
  BY <1>2, <1>5, <1>9, <1>10 DEF c, fs

\* The result of a call stays until the caller has seen it, and nothing else
\* happens meanwhile.
LEMMA BuiltStep ==
    ASSUME Inv, [Next]_vars, Built'
    PROVE  \/ Built /\ UNCHANGED vars
           \/ \E opts \in OptionLists, custom \in BOOLEAN :
                  NewProvider(opts, custom) /\ result'.ok
<1>1. ~(NoResult.call = "NewProvider")
  BY DEF NoResult
<1>2. CASE UNCHANGED vars
  BY <1>2 DEF vars, Built
<1>3. ASSUME result' = NoResult PROVE FALSE
  BY <1>1, <1>3 DEF Built
<1>4. \A src \in GoSources : ~AddNamedMigration(src)
  BY <1>3 DEF AddNamedMigration, Idle
<1>5. \A ms \in GoLists : ~SetGlobalMigrations(ms)
  BY <1>3 DEF SetGlobalMigrations, Idle
<1>6. ~ResetGlobalMigrations /\ ~Fix /\ ~Return
  BY <1>3 DEF ResetGlobalMigrations, Fix, Return, Idle
<1>7. ~CollectMigrations
  <2>1. CollectMigrations => result'.call = "CollectMigrations"
    BY DEF CollectMigrations, NoResult
  <2> QED
    BY <2>1 DEF Built
<1>8. \A sequential \in BOOLEAN, ext \in {"sql", "go"} : ~Create(sequential, ext)
  BY <1>3 DEF Create, Idle
<1>9. ~RenameNext
  <2> SUFFICES ASSUME RenameNext PROVE FALSE
    OBVIOUS
  <2>1. fixing.todo # <<>> /\ result' = result
    BY DEF RenameNext
  <2>2. fixing # NoFix
    BY <2>1 DEF NoFix
  <2> QED
    BY <2>1, <2>2, <1>3 DEF Inv, FixFits
<1>10. ~FixStops
  BY <1>3 DEF FixStops, Inv, FixFits
<1>11. CASE Next
  BY <1>4, <1>5, <1>6, <1>7, <1>8, <1>9, <1>10, <1>11 DEF Next, Built
<1> QED
  BY <1>2, <1>11

\* What every Provider that is built has.
LEMMA CompleteStep ==
    ASSUME Inv, NEW opts \in OptionLists, NEW custom \in BOOLEAN, NewProvider(opts, custom),
           result'.ok
    PROVE  ListIsComplete' /\ ListInOrder'
<1> DEFINE c == Configured(opts)
           fs == Sources(c)
           R == DOMAIN c.registered \cup (IF disableGlobalRegistry(c) THEN {} ELSE DOMAIN global)
           t == result'.list
<1>1. /\ t \in Seq(Migration) /\ t # <<>>
      /\ \A i, j \in DOMAIN t : i # j => t[i].version # t[j].version
      /\ Versions(t) = {f.version : f \in fs} \cup R
      /\ \A f \in fs : \E m \in ToSet(t) : m.version = f.version /\ m.type = f.ext
      /\ \/ InVersionOrder(t)
         \/ /\ \A m \in ToSet(t) : m.type = "sql"
            /\ \E f, g \in OfType(fs, "sql") :
                   Position(f) < Position(g) /\ g.version < f.version
  BY BuiltFacts
<1>2. /\ result'.opts = opts /\ dir' = dir
      /\ global' = global \/ \E gs : global' = WithSources(gs)
  BY DEF NewProvider
<1>3. DOMAIN global' = DOMAIN global
  BY <1>2 DEF WithSources
<1>4. AllRegistered' = R
  BY <1>2, <1>3 DEF AllRegistered, Settings
<1>5. /\ {f \in dir' : /\ f.ext # "_test.go" /\ HasVersion(f)
                       /\ Base(f) \notin Settings'.excludePaths
                       /\ f.version \notin Settings'.excludeVersions} = fs
      /\ Sources(Settings)' = fs
  BY <1>2 DEF Sources, Settings
<1>6. Len(t) > 0
  BY <1>1, LenProperties, EmptySeq
<1> HIDE DEF c, fs, R
<1>7. ListIsComplete'
  BY <1>1, <1>4, <1>5, <1>6 DEF ListIsComplete, Versions, HasVersion
<1>8. OfType(fs, "sql") \subseteq File
  BY DEF OfType, fs, Sources, Inv, TypeOK
<1>9. ASSUME \A f \in OfType(fs, "sql") : Written(f) PROVE InVersionOrder(t)
  <2> SUFFICES ASSUME NEW f \in OfType(fs, "sql"), NEW g \in OfType(fs, "sql"),
                      Position(f) < Position(g), g.version < f.version
               PROVE  FALSE
    BY <1>1
  <2>1. f \in File /\ g \in File /\ f.version \in Nat /\ g.version \in Nat
    BY <1>8 DEF File
  <2>2. f.version < g.version
    BY <2>1, <1>9, WrittenOrder
  <2> QED
    BY <2>1, <2>2
<1>10. (\E m \in ToSet(t) : m.type = "go") => InVersionOrder(t)
  BY <1>1
<1> HIDE DEF t
<1>11. ListInOrder'
  BY <1>5, <1>9, <1>10 DEF ListInOrder, InVersionOrder, t, OfType, Written, IsTimestamp
<1> QED
  BY <1>7, <1>11

\* Where CollectMigrations would accept the directory too.
LEMMA AgreeStep ==
    ASSUME Inv, NEW opts \in OptionLists, NEW custom \in BOOLEAN, NewProvider(opts, custom),
           result'.ok
    PROVE  APIsAgree'
<1> SUFFICES ASSUME result'.opts = <<>>, CollectOK'
             PROVE  LET missing == Versions(result'.list) \ Versions(Collected')
                    IN  /\ Versions(Collected') \subseteq Versions(result'.list)
                        /\ missing \subseteq DOMAIN global' \ {f.version : f \in Migrations(dir')}
                        /\ missing # {} => \E f \in OfType(dir', "go") : HasVersion(f)
  BY DEF APIsAgree, Migrations, Versions
<1>1. /\ result'.opts = opts /\ dir' = dir
      /\ global' = global \/ \E gs : global' = WithSources(gs)
  BY DEF NewProvider
<1>2. DOMAIN global' = DOMAIN global
  BY <1>1 DEF WithSources
<1>3. Configured(opts) = config
  BY <1>1, NoOptions
<1>4. Sources(config) = Migrations(dir)
  BY DEF Sources, Migrations, config
<1>5. DOMAIN config.registered = {} /\ ~disableGlobalRegistry(config)
  <2>1. config.registered = <<>> /\ config.last = [k \in LastWins |-> <<>>]
    BY DEF config
  <2>2. "noGlobal" \in LastWins
    BY DEF LastWins, Flags
  <2>3. config.last["noGlobal"] = <<>> /\ <<>> # <<TRUE>>
    BY <2>1, <2>2
  <2>4. DOMAIN <<>> = {}
    OBVIOUS
  <2>5. ~disableGlobalRegistry(config)
    BY <2>3 DEF disableGlobalRegistry
  <2> QED
    BY <2>1, <2>4, <2>5
<1>6. Versions(result'.list) = {f.version : f \in Migrations(dir)} \cup DOMAIN global
  BY <1>3, <1>4, <1>5, BuiltFacts
<1>7. CollectGo' = CollectGo
  BY <1>1, <1>2 DEF CollectGo, OfType, HasVersion, GoMigration, Unregistered
<1>8. Collected' = Collected
  BY <1>1, <1>7 DEF Collected, OfType, SQLMigration, sortAndConnectMigrations, ByVersion
<1>9. ~CollectPanics
  BY <1>1, <1>7 DEF CollectOK, CollectPanics, OfType, Duplicates, HasVersion
<1>10. \A f \in OfType(dir, "sql") : HasVersion(f)
  BY <1>1 DEF CollectOK, CollectFails, OfType, HasVersion
<1>11. /\ Versions(Collected) = {f.version : f \in OfType(dir, "sql")}
                                \cup {m.version : m \in CollectGo}
       /\ \A f \in Migrations(dir) : f.version \in Versions(Collected)
       /\ \A v \in Versions(Collected) : \/ v \in DOMAIN global
                                         \/ \E f \in Migrations(dir) : f.version = v
  BY <1>9, <1>10, CollectedFacts DEF Inv
<1>12. (\A f \in OfType(dir, "go") : ~HasVersion(f)) =>
          \A v \in DOMAIN global : \E m \in CollectGo : m.version = v
  BY CollectGoFacts DEF Inv
<1>13. Versions(Collected) \subseteq Versions(result'.list)
  BY <1>6, <1>11
<1>14. Versions(result'.list) \ Versions(Collected)
           \subseteq DOMAIN global \ {f.version : f \in Migrations(dir)}
  BY <1>6, <1>11
<1>15. (\A f \in OfType(dir, "go") : ~HasVersion(f)) =>
          Versions(result'.list) \subseteq Versions(Collected)
  BY <1>6, <1>11, <1>12
<1> QED
  BY <1>1, <1>2, <1>8, <1>13, <1>14, <1>15

\* A step that changes nothing.
LEMMA SameResult ==
    ASSUME UNCHANGED vars
    PROVE  /\ ListIsComplete <=> ListIsComplete'
           /\ ListInOrder <=> ListInOrder'
           /\ APIsAgree <=> APIsAgree'
<1>1. /\ dir' = dir /\ global' = global /\ result' = result
  BY DEF vars
<1>2. Collected' = Collected /\ (CollectOK' <=> CollectOK)
  BY <1>1 DEF Collected, CollectGo, CollectOK, CollectFails, CollectPanics
<1> QED
  BY <1>1, <1>2 DEF ListIsComplete, ListInOrder, APIsAgree, Built, Settings, AllRegistered,
                    Excluded, Sources

ListInv == ListIsComplete /\ ListInOrder /\ APIsAgree

\* The three properties of lists together.
LEMMA ListInvariance == Spec => []ListInv
<1>1. ASSUME Init PROVE ListInv
  <2>1. ~Built
    BY <1>1 DEF Init, Built, NoResult
  <2> QED
    BY <2>1 DEF ListInv, ListIsComplete, ListInOrder, APIsAgree
<1>2. ASSUME Inv, ListInv, [Next]_vars PROVE ListInv'
  <2>1. CASE ~Built'
    BY <2>1 DEF ListInv, ListIsComplete, ListInOrder, APIsAgree
  <2>2. CASE Built /\ UNCHANGED vars
    BY <1>2, <2>2, SameResult DEF ListInv
  <2>3. CASE \E opts \in OptionLists, custom \in BOOLEAN :
                 NewProvider(opts, custom) /\ result'.ok
    BY <1>2, <2>3, CompleteStep, AgreeStep DEF ListInv
  <2> QED
    BY <1>2, <2>1, <2>2, <2>3, BuiltStep
<1> QED
  BY <1>1, <1>2, Invariance, PTL DEF Spec

\* What a Provider has to run is complete and unambiguous, for directories,
\* registries and lists of options of every size.
THEOREM ListIsCompleteCorrect == Spec => []ListIsComplete
<1>1. ListInv => ListIsComplete
  BY DEF ListInv
<1> QED
  BY <1>1, ListInvariance, PTL

\* A list with Go migrations, or of SQL files named as Create and Fix name them, is
\* in the order of the versions.
THEOREM ListInOrderCorrect == Spec => []ListInOrder
<1>1. ListInv => ListInOrder
  BY DEF ListInv
<1> QED
  BY <1>1, ListInvariance, PTL

\* NewProvider and CollectMigrations see the same migrations, but for Go migrations
\* that were registered without a file.
THEOREM APIsAgreeCorrect == Spec => []APIsAgree
<1>1. ListInv => APIsAgree
  BY DEF ListInv
<1> QED
  BY <1>1, ListInvariance, PTL
-----------------------------------------------------------------------------
(* The order of options *)

\* The options of some kinds among those at the positions I of the list a.
Of(a, I, kinds) == {i \in I : a[i].with \in kinds}

Once(J) == \A i, j \in J : i = j

\* None of the options at J is nil or empty.
Given(a, J) == \A i \in J : a[i].args # <<>>

Lockers == {"session", "table"}
Loggers == {"logger", "slog"}

Args(a, J) == UNION {ToSet(a[i].args) : i \in J}

\* The arguments of the options at J are all different.
Different(a, J) == /\ \A i \in J : IsInjective(a[i].args)
                   /\ \A i, j \in J : i # j => ToSet(a[i].args) \cap ToSet(a[j].args) = {}

SameVersion(ms, p, ns, q) == ms[p].version = ns[q].version

\* When a list of options is accepted, and what it then amounts to, without regard
\* to the order: one line for each kind of option.
AcceptsLocker(a, I)   == Once(Of(a, I, Lockers)) /\ Given(a, Of(a, I, Lockers))
AcceptsLogger(a, I)   == /\ \A i, j \in Of(a, I, Loggers) : a[i].with = a[j].with
                         /\ Given(a, Of(a, I, Loggers))
AcceptsStore(a, I)    == Once(Of(a, I, {"store"})) /\ Given(a, Of(a, I, {"store"}))
AcceptsTable(a, I)    == Given(a, Of(a, I, {"tableName"}))
AcceptsNames(a, I)    == Different(a, Of(a, I, {"excludeNames"}))
AcceptsVersions(a, I) == /\ Different(a, Of(a, I, {"excludeVersions"}))
                         /\ 0 \notin Args(a, Of(a, I, {"excludeVersions"}))
AcceptsGo(a, I) ==
    LET J == Of(a, I, {"goMigrations"})
    IN  \A i \in J : \A p \in DOMAIN a[i].args :
            /\ checkGoMigration(a[i].args[p])
            /\ \A j \in J : \A q \in DOMAIN a[j].args :
                   SameVersion(a[i].args, p, a[j].args, q) => i = j /\ p = q

MakesLocker(a, I, c) == /\ Of(a, I, Lockers) = {} => c.locker = "none"
                        /\ \A i \in Of(a, I, Lockers) : c.locker = a[i].with
MakesStore(a, I, c)    == c.store = (Of(a, I, {"store"}) # {})
MakesNames(a, I, c)    == c.excludePaths = Args(a, Of(a, I, {"excludeNames"}))
MakesVersions(a, I, c) == c.excludeVersions = Args(a, Of(a, I, {"excludeVersions"}))
MakesLast(a, I, c) ==
    \A k \in LastWins : IF Of(a, I, {k}) = {} THEN c.last[k] = <<>>
                        ELSE \E i \in Of(a, I, {k}) : c.last[k] = a[i].args
MakesGo(a, I, c) ==
    LET J == Of(a, I, {"goMigrations"})
    IN  /\ c.registered = [v \in DOMAIN c.registered |-> c.registered[v]]
        /\ DOMAIN c.registered = UNION {{m.version : m \in ToSet(a[i].args)} : i \in J}
        /\ \A i \in J : \A p \in DOMAIN a[i].args :
               c.registered[a[i].args[p].version] = [source |-> a[i].args[p].source]

Acceptable(a, I) == /\ AcceptsLocker(a, I) /\ AcceptsLogger(a, I) /\ AcceptsStore(a, I)
                    /\ AcceptsTable(a, I) /\ AcceptsNames(a, I) /\ AcceptsVersions(a, I)
                    /\ AcceptsGo(a, I)

Makes(a, I, c) == /\ MakesLocker(a, I, c) /\ MakesStore(a, I, c) /\ MakesLast(a, I, c)
                  /\ MakesNames(a, I, c) /\ MakesVersions(a, I, c) /\ MakesGo(a, I, c)

\* Nothing but the options and the choice of positions matters.
LEMMA Reordered ==
    ASSUME NEW I, NEW a, NEW b, NEW p \in [I -> I], \A i \in I : p[p[i]] = i,
           \A i \in I : b[i] = a[p[i]], NEW c
    PROVE  /\ Acceptable(a, I) => Acceptable(b, I)
           /\ Makes(a, I, c) => Makes(b, I, c)
<1>1. ASSUME NEW K
      PROVE  /\ \A i \in Of(b, I, K) : p[i] \in Of(a, I, K) /\ b[i] = a[p[i]]
             /\ \A i \in Of(a, I, K) : p[i] \in Of(b, I, K) /\ a[i] = b[p[i]]
             /\ \A i, j \in Of(b, I, K) : p[i] = p[j] => i = j
  BY DEF Of
<1>2. ASSUME NEW K PROVE /\ Once(Of(a, I, K)) => Once(Of(b, I, K))
                         /\ Given(a, Of(a, I, K)) => Given(b, Of(b, I, K))
                         /\ Of(a, I, K) = {} <=> Of(b, I, K) = {}
  BY <1>1 DEF Once, Given
<1>3. ASSUME NEW K PROVE /\ Args(a, Of(a, I, K)) = Args(b, Of(b, I, K))
                         /\ Different(a, Of(a, I, K)) => Different(b, Of(b, I, K))
  <2> DEFINE J == Of(a, I, K)
             L == Of(b, I, K)
  <2>1. /\ \A i \in L : p[i] \in J /\ b[i] = a[p[i]]
        /\ \A i \in J : p[i] \in L /\ a[i] = b[p[i]]
        /\ \A i, j \in L : p[i] = p[j] => i = j
    BY <1>1
  <2> HIDE DEF J, L
  <2>2. ASSUME NEW x \in Args(a, J) PROVE x \in Args(b, L)
    <3>1. PICK i \in J : x \in ToSet(a[i].args)
      BY DEF Args
    <3> QED
      BY <3>1, <2>1 DEF Args
  <2>3. ASSUME NEW x \in Args(b, L) PROVE x \in Args(a, J)
    <3>1. PICK i \in L : x \in ToSet(b[i].args)
      BY DEF Args
    <3> QED
      BY <3>1, <2>1 DEF Args
  <2>4. ASSUME Different(a, J) PROVE Different(b, L)
    <3>1. ASSUME NEW i \in L PROVE IsInjective(b[i].args)
      BY <2>1, <2>4 DEF Different
    <3>2. ASSUME NEW i \in L, NEW j \in L, i # j
          PROVE  ToSet(b[i].args) \cap ToSet(b[j].args) = {}
      <4>1. p[i] \in J /\ p[j] \in J /\ p[i] # p[j] /\ b[i] = a[p[i]] /\ b[j] = a[p[j]]
        BY <2>1, <3>2
      <4> QED
        BY <4>1, <2>4 DEF Different
    <3> QED
      BY <3>1, <3>2 DEF Different
  <2> QED
    BY <2>2, <2>3, <2>4 DEF J, L
<1>4. AcceptsLogger(a, I) => AcceptsLogger(b, I)
  BY <1>1, <1>2 DEF AcceptsLogger
<1>5. AcceptsGo(a, I) => AcceptsGo(b, I)
  BY <1>1 DEF AcceptsGo, SameVersion
<1>6. Acceptable(a, I) => Acceptable(b, I)
  BY <1>2, <1>3, <1>4, <1>5
     DEF Acceptable, AcceptsLocker, AcceptsStore, AcceptsTable, AcceptsNames, AcceptsVersions
<1>7. MakesLocker(a, I, c) => MakesLocker(b, I, c)
  BY <1>1, <1>2 DEF MakesLocker
<1>8. MakesLast(a, I, c) => MakesLast(b, I, c)
  <2> SUFFICES ASSUME MakesLast(a, I, c), NEW k \in LastWins
               PROVE  IF Of(b, I, {k}) = {} THEN c.last[k] = <<>>
                      ELSE \E i \in Of(b, I, {k}) : c.last[k] = b[i].args
    BY DEF MakesLast
  <2>1. CASE Of(b, I, {k}) = {}
    BY <2>1, <1>2 DEF MakesLast
  <2>2. CASE Of(b, I, {k}) # {}
    <3>1. PICK i \in Of(a, I, {k}) : c.last[k] = a[i].args
      BY <2>2, <1>2 DEF MakesLast
    <3>2. p[i] \in Of(b, I, {k}) /\ a[i] = b[p[i]]
      BY <1>1
    <3> QED
      BY <2>2, <3>1, <3>2
  <2> QED
    BY <2>1, <2>2
<1>9. ASSUME MakesGo(a, I, c) PROVE MakesGo(b, I, c)
  <2> DEFINE J == Of(a, I, {"goMigrations"})
             L == Of(b, I, {"goMigrations"})
             G == UNION {{m.version : m \in ToSet(a[i].args)} : i \in J}
             H == UNION {{m.version : m \in ToSet(b[i].args)} : i \in L}
  <2>1. /\ \A i \in L : p[i] \in J /\ b[i] = a[p[i]]
        /\ \A i \in J : p[i] \in L /\ a[i] = b[p[i]]
    BY <1>1
  <2>2. /\ c.registered = [v \in DOMAIN c.registered |-> c.registered[v]]
        /\ DOMAIN c.registered = G
        /\ \A i \in J : \A q \in DOMAIN a[i].args :
               c.registered[a[i].args[q].version] = [source |-> a[i].args[q].source]
    BY <1>9 DEF MakesGo
  <2>3. G = H
    <3> HIDE DEF J, L
    <3>1. ASSUME NEW x \in G PROVE x \in H
      <4>1. PICK i \in J : x \in {m.version : m \in ToSet(a[i].args)}
        OBVIOUS
      <4> QED
        BY <4>1, <2>1
    <3>2. ASSUME NEW x \in H PROVE x \in G
      <4>1. PICK i \in L : x \in {m.version : m \in ToSet(b[i].args)}
        OBVIOUS
      <4> QED
        BY <4>1, <2>1
    <3> QED
      BY <3>1, <3>2
  <2>4. ASSUME NEW i \in L, NEW q \in DOMAIN b[i].args
        PROVE  c.registered[b[i].args[q].version] = [source |-> b[i].args[q].source]
    <3> HIDE DEF J, L, G, H
    <3>1. PICK k \in J : b[i] = a[k]
      BY <2>1
    <3> QED
      BY <3>1, <2>2
  <2> QED
    BY <2>2, <2>3, <2>4 DEF MakesGo
<1>10. Makes(a, I, c) => Makes(b, I, c)
  BY <1>2, <1>3, <1>7, <1>8, <1>9
     DEF Makes, MakesStore, MakesNames, MakesVersions
<1> QED
  BY <1>6, <1>10

\* Two configurations of the options a are the same, but for the last of a kind if
\* those of the kind differ.
Agree(a, I, c, d) ==
    /\ c = [d EXCEPT !.last = c.last]
    /\ \A k \in LastWins :
           (\A i, j \in Of(a, I, {k}) : a[i].args = a[j].args) => c.last[k] = d.last[k]

\* The options decide the configuration.
LEMMA MakesOne ==
    ASSUME NEW I, NEW a, NEW c, NEW d, IsConfig(c), IsConfig(d), c.ok, d.ok,
           Makes(a, I, c), Makes(a, I, d)
    PROVE  Agree(a, I, c, d)
<1>1. c.locker = d.locker
  BY DEF Makes, MakesLocker
<1>2. ASSUME NEW k \in LastWins, \A i, j \in Of(a, I, {k}) : a[i].args = a[j].args
      PROVE  c.last[k] = d.last[k]
  BY <1>2 DEF Makes, MakesLast
<1>3. c.store = d.store
  BY DEF Makes, MakesStore
<1>4. c.excludePaths = d.excludePaths /\ c.excludeVersions = d.excludeVersions
  BY DEF Makes, MakesNames, MakesVersions
<1>5. c.registered = d.registered
  <2>1. DOMAIN c.registered = DOMAIN d.registered
    BY DEF Makes, MakesGo
  <2>2. ASSUME NEW v \in DOMAIN c.registered PROVE c.registered[v] = d.registered[v]
    <3> DEFINE J == Of(a, I, {"goMigrations"})
    <3>1. PICK i \in J : v \in {m.version : m \in ToSet(a[i].args)}
      BY DEF Makes, MakesGo
    <3>2. PICK q \in DOMAIN a[i].args : v = a[i].args[q].version
      BY <3>1 DEF ToSet
    <3>3. PICK ms : ms = a[i].args
      OBVIOUS
    <3>4. c.registered[ms[q].version] = [source |-> ms[q].source]
      BY <3>2, <3>3 DEF Makes, MakesGo
    <3>5. d.registered[ms[q].version] = [source |-> ms[q].source]
      BY <3>2, <3>3 DEF Makes, MakesGo
    <3> QED
      BY <3>2, <3>3, <3>4, <3>5
  <2>3. /\ c.registered = [v \in DOMAIN c.registered |-> c.registered[v]]
        /\ d.registered = [v \in DOMAIN d.registered |-> d.registered[v]]
    BY DEF Makes, MakesGo
  <2> QED
    BY <2>1, <2>2, <2>3
<1>6. c.ok = d.ok
  BY DEF IsConfig
<1>7. c = [d EXCEPT !.last = c.last]
  BY <1>1, <1>3, <1>4, <1>5, <1>6 DEF IsConfig
<1> QED
  BY <1>2, <1>7 DEF Agree

\* A list of Go migrations is registered as a whole if each is valid and its version
\* is neither in the registry nor twice in the list.
LEMMA RegisteredExact ==
    ASSUME NEW g, NEW ms, IsGoList(ms)
    PROVE  LET r == Registered(g, ms)
           IN  /\ r.ok <=> \A i \in DOMAIN ms :
                      /\ checkGoMigration(ms[i]) /\ ms[i].version \notin DOMAIN g
                      /\ \A j \in DOMAIN ms : SameVersion(ms, i, ms, j) => i = j
               /\ r.ok => /\ r.map = [v \in DOMAIN r.map |-> r.map[v]]
                          /\ DOMAIN r.map = DOMAIN g \cup {m.version : m \in ToSet(ms)}
                          /\ \A i \in DOMAIN ms :
                                 r.map[ms[i].version] = [source |-> ms[i].source]
                          /\ \A v \in DOMAIN g \ {m.version : m \in ToSet(ms)} :
                                 r.map[v] = g[v]
<1> DEFINE r == Registered(g, ms)
           refused == {i \in DOMAIN ms : \/ ~Accepts(g, ms[i])
                                         \/ \E j \in 1..(i - 1) : ms[j].version = ms[i].version}
           done == {i \in DOMAIN ms : \A j \in refused : i < j}
           index(v) == CHOOSE i \in done : ms[i].version = v
           new == [v \in {ms[i].version : i \in done} |-> [source |-> ms[index(v)].source]]
           Good(i) == /\ checkGoMigration(ms[i]) /\ ms[i].version \notin DOMAIN g
                      /\ \A j \in DOMAIN ms : SameVersion(ms, i, ms, j) => i = j
<1>1. DOMAIN ms = 1..Len(ms) /\ Len(ms) \in Nat
  BY LenProperties DEF IsGoList
<1>2. r.ok = (refused = {}) /\ r.map = Join(new, g)
  BY DEF Registered
<1>3. ASSUME refused = {}, NEW i \in DOMAIN ms PROVE Good(i)
  <2>1. /\ Accepts(g, ms[i])
        /\ \A k \in DOMAIN ms : \A j \in 1..(k - 1) : ms[j].version # ms[k].version
    BY <1>3
  <2>2. ASSUME NEW j \in DOMAIN ms, ms[i].version = ms[j].version, i # j PROVE FALSE
    <3>1. i \in 1..(j - 1) \/ j \in 1..(i - 1)
      BY <1>1, <2>2
    <3> QED
      BY <2>1, <2>2, <3>1
  <2> QED
    BY <2>1, <2>2 DEF Accepts, SameVersion
<1>4. ASSUME \A i \in DOMAIN ms : Good(i) PROVE refused = {}
  <2> SUFFICES ASSUME NEW i \in DOMAIN ms,
                      \/ ~Accepts(g, ms[i])
                      \/ \E j \in 1..(i - 1) : ms[j].version = ms[i].version
               PROVE  FALSE
    OBVIOUS
  <2>1. Accepts(g, ms[i])
    BY <1>4 DEF Accepts
  <2>2. PICK j \in 1..(i - 1) : ms[j].version = ms[i].version
    BY <2>1
  <2>3. j \in DOMAIN ms /\ i # j
    BY <1>1
  <2> QED
    BY <1>4, <2>2, <2>3 DEF SameVersion
<1>5. ASSUME r.ok
      PROVE  /\ r.map = [v \in DOMAIN r.map |-> r.map[v]]
             /\ DOMAIN r.map = DOMAIN g \cup {m.version : m \in ToSet(ms)}
             /\ \A i \in DOMAIN ms : r.map[ms[i].version] = [source |-> ms[i].source]
             /\ \A v \in DOMAIN g \ {m.version : m \in ToSet(ms)} : r.map[v] = g[v]
  <2>1. refused = {} /\ done = DOMAIN ms
    BY <1>2, <1>5
  <2>2. \A i \in DOMAIN ms : Good(i)
    BY <2>1, <1>3
  <2>3. {ms[i].version : i \in done} = {m.version : m \in ToSet(ms)}
    BY <2>1 DEF ToSet
  <2>4. ASSUME NEW i \in DOMAIN ms PROVE index(ms[i].version) = i
    <3> DEFINE k == index(ms[i].version)
    <3>1. k \in DOMAIN ms /\ ms[k].version = ms[i].version
      BY <2>1
    <3> HIDE DEF k
    <3> QED
      BY <3>1, <2>2 DEF k, SameVersion
  <2>5. DOMAIN new = {m.version : m \in ToSet(ms)}
    BY <2>3
  <2>6. ASSUME NEW i \in DOMAIN ms PROVE new[ms[i].version] = [source |-> ms[i].source]
    BY <2>1, <2>4
  <2> HIDE DEF new, refused, done
  <2>7. /\ DOMAIN Join(new, g) = DOMAIN new \cup DOMAIN g
        /\ Join(new, g) = [v \in DOMAIN Join(new, g) |-> Join(new, g)[v]]
        /\ \A v \in DOMAIN new : Join(new, g)[v] = new[v]
        /\ \A v \in DOMAIN g \ DOMAIN new : Join(new, g)[v] = g[v]
    BY DEF Join
  <2>8. \A i \in DOMAIN ms : ms[i].version \in DOMAIN new
    BY <2>5 DEF ToSet
  <2> QED
    BY <1>2, <2>5, <2>6, <2>7, <2>8
<1> HIDE DEF r, refused, done, new
<1>6. r.ok <=> \A i \in DOMAIN ms : Good(i)
  BY <1>2, <1>3, <1>4
<1> QED
  BY <1>5, <1>6 DEF r

\* One more position.
LEMMA OfStep ==
    ASSUME NEW a, NEW I, NEW m, m \notin I, NEW K
    PROVE  /\ m \notin Of(a, I, K)
           /\ a[m].with \in K => Of(a, I \cup {m}, K) = Of(a, I, K) \cup {m}
           /\ a[m].with \notin K => Of(a, I \cup {m}, K) = Of(a, I, K)
BY DEF Of

\* An option that is given once.
LEMMA OnceStep ==
    ASSUME NEW J, NEW m, m \notin J
    PROVE  Once(J \cup {m}) <=> J = {}
BY DEF Once

\* The arguments of one option more.
LEMMA ArgsStep ==
    ASSUME NEW a, NEW J, NEW m, m \notin J
    PROVE  /\ Args(a, J \cup {m}) = Args(a, J) \cup ToSet(a[m].args)
           /\ Different(a, J \cup {m}) <=> Different(a, J) /\ Fresh(a[m].args, Args(a, J))
<1>1. Args(a, J \cup {m}) = Args(a, J) \cup ToSet(a[m].args)
  BY DEF Args
<1>2. ASSUME Different(a, J \cup {m}) PROVE Different(a, J) /\ Fresh(a[m].args, Args(a, J))
  <2>1. ASSUME NEW x \in ToSet(a[m].args), x \in Args(a, J) PROVE FALSE
    <3>1. PICK i \in J : x \in ToSet(a[i].args)
      BY <2>1 DEF Args
    <3> QED
      BY <3>1, <2>1, <1>2 DEF Different
  <2> QED
    BY <2>1, <1>2 DEF Different, Fresh
<1>3. ASSUME Different(a, J), Fresh(a[m].args, Args(a, J)) PROVE Different(a, J \cup {m})
  <2>1. \A i \in J : ToSet(a[i].args) \cap ToSet(a[m].args) = {}
    BY <1>3 DEF Fresh, Args
  <2> QED
    BY <2>1, <1>3 DEF Different, Fresh
<1> QED
  BY <1>1, <1>2, <1>3

\* An option of another kind changes nothing.
LEMMA OtherKinds ==
    ASSUME NEW a, NEW I, NEW m, m \notin I, NEW c, NEW d,
           NEW J, J = I \cup {m}, NEW w, w = a[m].with
    PROVE  /\ w \notin Lockers => /\ AcceptsLocker(a, J) <=> AcceptsLocker(a, I)
                                  /\ MakesLocker(a, I, c) /\ d.locker = c.locker
                                        => MakesLocker(a, J, d)
           /\ w \notin Loggers => (AcceptsLogger(a, J) <=> AcceptsLogger(a, I))
           /\ w # "store" => /\ AcceptsStore(a, J) <=> AcceptsStore(a, I)
                             /\ MakesStore(a, I, c) /\ d.store = c.store
                                   => MakesStore(a, J, d)
           /\ w # "tableName" => (AcceptsTable(a, J) <=> AcceptsTable(a, I))
           /\ w # "excludeNames" =>
                 /\ AcceptsNames(a, J) <=> AcceptsNames(a, I)
                 /\ MakesNames(a, I, c) /\ d.excludePaths = c.excludePaths
                       => MakesNames(a, J, d)
           /\ w # "excludeVersions" =>
                 /\ AcceptsVersions(a, J) <=> AcceptsVersions(a, I)
                 /\ MakesVersions(a, I, c) /\ d.excludeVersions = c.excludeVersions
                       => MakesVersions(a, J, d)
           /\ w # "goMigrations" =>
                 /\ AcceptsGo(a, J) <=> AcceptsGo(a, I)
                 /\ MakesGo(a, I, c) /\ d.registered = c.registered => MakesGo(a, J, d)
<1>1. ASSUME NEW K, w \notin K PROVE Of(a, J, K) = Of(a, I, K)
  BY <1>1 DEF Of
<1>2. \A k : w # k => Of(a, J, {k}) = Of(a, I, {k})
  <2> SUFFICES ASSUME NEW k, w # k PROVE Of(a, J, {k}) = Of(a, I, {k})
    OBVIOUS
  <2>1. w \notin {k}
    OBVIOUS
  <2> QED
    BY <2>1, <1>1
<1>3. w \notin Lockers => /\ AcceptsLocker(a, J) <=> AcceptsLocker(a, I)
                          /\ MakesLocker(a, I, c) /\ d.locker = c.locker => MakesLocker(a, J, d)
  BY <1>1 DEF AcceptsLocker, MakesLocker
<1>4. w \notin Loggers => (AcceptsLogger(a, J) <=> AcceptsLogger(a, I))
  BY <1>1 DEF AcceptsLogger
<1>5. w # "store" => /\ AcceptsStore(a, J) <=> AcceptsStore(a, I)
                     /\ MakesStore(a, I, c) /\ d.store = c.store => MakesStore(a, J, d)
  BY <1>2 DEF AcceptsStore, MakesStore
<1>6. w # "tableName" => (AcceptsTable(a, J) <=> AcceptsTable(a, I))
  BY <1>2 DEF AcceptsTable
<1>7. w # "excludeNames" =>
         /\ AcceptsNames(a, J) <=> AcceptsNames(a, I)
         /\ MakesNames(a, I, c) /\ d.excludePaths = c.excludePaths => MakesNames(a, J, d)
  BY <1>2 DEF AcceptsNames, MakesNames
<1>8. w # "excludeVersions" =>
         /\ AcceptsVersions(a, J) <=> AcceptsVersions(a, I)
         /\ MakesVersions(a, I, c) /\ d.excludeVersions = c.excludeVersions
               => MakesVersions(a, J, d)
  BY <1>2 DEF AcceptsVersions, MakesVersions
<1>9. w # "goMigrations" =>
         /\ AcceptsGo(a, J) <=> AcceptsGo(a, I)
         /\ MakesGo(a, I, c) /\ d.registered = c.registered => MakesGo(a, J, d)
  <2> SUFFICES ASSUME w # "goMigrations"
               PROVE  /\ AcceptsGo(a, J) <=> AcceptsGo(a, I)
                      /\ MakesGo(a, I, c) /\ d.registered = c.registered => MakesGo(a, J, d)
    OBVIOUS
  <2>1. Of(a, J, {"goMigrations"}) = Of(a, I, {"goMigrations"})
    BY <1>2
  <2>2. AcceptsGo(a, J) <=> AcceptsGo(a, I)
    BY <2>1, Zenon DEF AcceptsGo
  <2>3. ASSUME MakesGo(a, I, c), d.registered = c.registered PROVE MakesGo(a, J, d)
    <3> DEFINE L == Of(a, I, {"goMigrations"})
    <3>1. PICK g : g = c.registered
      OBVIOUS
    <3>2. /\ g = [v \in DOMAIN g |-> g[v]]
          /\ DOMAIN g = UNION {{x.version : x \in ToSet(a[i].args)} : i \in L}
          /\ \A i \in L : \A q \in DOMAIN a[i].args :
                g[a[i].args[q].version] = [source |-> a[i].args[q].source]
      BY <2>3, <3>1, Zenon DEF MakesGo
    <3>3. Of(a, J, {"goMigrations"}) = L
      BY <2>1 DEF L
    <3>4. d.registered = g
      BY <2>3, <3>1
    <3> HIDE DEF L
    <3> QED
      BY <3>2, <3>3, <3>4, Zenon DEF MakesGo
  <2> QED
    BY <2>2, <2>3
<1> QED
  BY <1>3, <1>4, <1>5, <1>6, <1>7, <1>8, <1>9, Zenon

\* Of an option of which the last wins the new one is it.
LEMMA LastStep ==
    ASSUME NEW a, NEW I, NEW m, m \notin I, NEW c, NEW d, NEW w, w = a[m].with,
           MakesLast(a, I, c),
           w \in LastWins => d.last[w] = a[m].args,
           \A k \in LastWins : k # w => d.last[k] = c.last[k]
    PROVE  MakesLast(a, I \cup {m}, d)
<1> SUFFICES ASSUME NEW k \in LastWins
             PROVE  LET K == Of(a, I \cup {m}, {k})
                    IN  IF K = {} THEN d.last[k] = <<>>
                        ELSE \E i \in K : d.last[k] = a[i].args
  BY DEF MakesLast
<1>1. CASE k = w
  <2>1. m \in Of(a, I \cup {m}, {k})
    BY <1>1 DEF Of
  <2> QED
    BY <2>1, <1>1
<1>2. CASE k # w
  <2>1. Of(a, I \cup {m}, {k}) = Of(a, I, {k})
    BY <1>2 DEF Of
  <2>2. d.last[k] = c.last[k]
    BY <1>2
  <2> QED
    BY <2>1, <2>2 DEF MakesLast
<1> QED
  BY <1>1, <1>2

\* One kind of locker, and only once.
LEMMA LockerOption ==
    ASSUME NEW a, NEW I, NEW m, m \notin I, NEW c, IsConfig(c), c.ok, a[m].with \in Lockers,
           AcceptsLocker(a, I), MakesLocker(a, I, c)
    PROVE  LET d == apply(c, a[m])
           IN  /\ d.ok <=> AcceptsLocker(a, I \cup {m})
               /\ d.ok => MakesLocker(a, I \cup {m}, d)
<1> DEFINE J == Of(a, I, Lockers)
<1>1. Of(a, I \cup {m}, Lockers) = J \cup {m} /\ m \notin J
  BY OfStep
<1>2. Once(J \cup {m}) <=> J = {}
  BY <1>1, OnceStep
<1>3. c.locker = "none" <=> J = {}
  BY DEF MakesLocker, Of, Lockers
<1>4. apply(c, a[m]) = WithLocker(c, a[m].with, a[m].args)
  BY DEF apply, Lockers, Flags
<1>5. PICK d : d = WithLocker(c, a[m].with, a[m].args)
  OBVIOUS
<1>6. /\ d.ok <=> c.locker = "none" /\ a[m].args # <<>>
      /\ d.ok => d.locker = a[m].with
  BY <1>5 DEF WithLocker, Refuse, IsConfig
<1>7. d.ok <=> AcceptsLocker(a, I \cup {m})
  BY <1>1, <1>2, <1>3, <1>6 DEF AcceptsLocker, Given
<1>8. d.ok => MakesLocker(a, I \cup {m}, d)
  BY <1>1, <1>3, <1>6 DEF MakesLocker
<1> QED
  BY <1>4, <1>5, <1>7, <1>8

\* WithLogger and WithSlog exclude each other.
LEMMA LoggerOption ==
    ASSUME NEW a, NEW I, NEW m, m \notin I, NEW c, IsConfig(c), c.ok, a[m].with \in Loggers,
           AcceptsLogger(a, I), MakesLast(a, I, c)
    PROVE  apply(c, a[m]).ok <=> AcceptsLogger(a, I \cup {m})
<1> DEFINE J == Of(a, I, Loggers)
<1>1. Of(a, I \cup {m}, Loggers) = J \cup {m} /\ m \notin J
  BY OfStep
<1>2. PICK w : w = a[m].with
  OBVIOUS
<1>3. PICK other : other = IF w = "logger" THEN "slog" ELSE "logger"
  OBVIOUS
<1>4. w \in Loggers /\ other \in Loggers /\ other # w /\ \A k \in Loggers : k = w \/ k = other
  BY <1>2, <1>3 DEF Loggers
<1>5. other \in LastWins /\ w \in LastWins
  BY <1>4 DEF Loggers, LastWins
<1>6. c.last[other] = <<>> <=> Of(a, I, {other}) = {}
  <2>1. \A i \in Of(a, I, {other}) : a[i].args # <<>>
    BY <1>4 DEF AcceptsLogger, Given, Of
  <2> QED
    BY <2>1, <1>5 DEF MakesLast
<1>7. Of(a, I, {other}) = {} <=> \A i \in J : a[i].with = w
  BY <1>4 DEF Of
<1>8. PICK d : d = WithLogger(c, w, a[m].args)
  OBVIOUS
<1>9. apply(c, a[m]) = d
  BY <1>2, <1>8 DEF apply, Loggers, Flags
<1>10. d = IF a[m].args # <<>> /\ c.last[other] = <<>> THEN Set(c, w, a[m].args) ELSE Refuse(c)
  BY <1>3, <1>8 DEF WithLogger
<1>11. Set(c, w, a[m].args).ok = c.ok
  BY <1>5, SetFields
<1>12. ~Refuse(c).ok
  BY DEF Refuse, IsConfig
<1>13. d.ok <=> a[m].args # <<>> /\ c.last[other] = <<>>
  BY <1>10, <1>11, <1>12
<1>14. AcceptsLogger(a, I \cup {m}) <=> a[m].args # <<>> /\ \A i \in J : a[i].with = w
  BY <1>1, <1>2 DEF AcceptsLogger, Given
<1> QED
  BY <1>6, <1>7, <1>9, <1>13, <1>14

\* WithStore may be given once.
LEMMA StoreOption ==
    ASSUME NEW a, NEW I, NEW m, m \notin I, NEW c, IsConfig(c), c.ok, a[m].with = "store",
           AcceptsStore(a, I), MakesStore(a, I, c)
    PROVE  LET d == apply(c, a[m])
           IN  /\ d.ok <=> AcceptsStore(a, I \cup {m})
               /\ d.ok => MakesStore(a, I \cup {m}, d)
<1> DEFINE J == Of(a, I, {"store"})
<1>1. Of(a, I \cup {m}, {"store"}) = J \cup {m} /\ m \notin J
  BY DEF Of
<1>2. Once(J \cup {m}) <=> J = {}
  BY <1>1, OnceStep
<1>3. c.store <=> J # {}
  BY DEF MakesStore
<1>4. apply(c, a[m]) = WithStore(c, a[m].args)
  BY DEF apply, Flags
<1>5. PICK d : d = WithStore(c, a[m].args)
  OBVIOUS
<1>6. /\ d.ok <=> ~c.store /\ a[m].args # <<>>
      /\ d.ok => d.store = TRUE
  BY <1>5 DEF WithStore, Refuse, IsConfig
<1>7. d.ok <=> AcceptsStore(a, I \cup {m})
  BY <1>1, <1>2, <1>3, <1>6 DEF AcceptsStore, Given
<1>8. d.ok => MakesStore(a, I \cup {m}, d)
  BY <1>1, <1>6 DEF MakesStore
<1> QED
  BY <1>4, <1>5, <1>7, <1>8

\* WithTableName refuses an empty name alone.
LEMMA TableOption ==
    ASSUME NEW a, NEW I, NEW m, m \notin I, NEW c, IsConfig(c), c.ok, IsOption(a[m]),
           a[m].with = "tableName", AcceptsTable(a, I)
    PROVE  apply(c, a[m]).ok <=> AcceptsTable(a, I \cup {m})
<1>1. apply(c, a[m]).ok <=> a[m].args # <<>>
  BY ApplyFields
<1>2. Of(a, I \cup {m}, {"tableName"}) = Of(a, I, {"tableName"}) \cup {m}
  BY DEF Of
<1> QED
  BY <1>1, <1>2 DEF AcceptsTable, Given

\* WithExcludeNames refuses a name that was given before.
LEMMA NamesOption ==
    ASSUME NEW a, NEW I, NEW m, m \notin I, NEW c, IsConfig(c), c.ok,
           a[m].with = "excludeNames", AcceptsNames(a, I), MakesNames(a, I, c)
    PROVE  LET d == apply(c, a[m])
           IN  /\ d.ok <=> AcceptsNames(a, I \cup {m})
               /\ d.ok => MakesNames(a, I \cup {m}, d)
<1> DEFINE J == Of(a, I, {"excludeNames"})
<1>1. Of(a, I \cup {m}, {"excludeNames"}) = J \cup {m} /\ m \notin J
  BY DEF Of
<1>2. apply(c, a[m]) = WithExcludeNames(c, a[m].args)
  BY DEF apply, Flags
<1>3. PICK d : d = WithExcludeNames(c, a[m].args)
  OBVIOUS
<1>4. /\ d.ok <=> Fresh(a[m].args, c.excludePaths)
      /\ d.ok => d.excludePaths = c.excludePaths \cup ToSet(a[m].args)
  BY <1>3 DEF WithExcludeNames, Refuse, IsConfig
<1>5. c.excludePaths = Args(a, J) /\ Different(a, J)
  BY DEF MakesNames, AcceptsNames
<1>6. /\ Args(a, J \cup {m}) = Args(a, J) \cup ToSet(a[m].args)
      /\ Different(a, J \cup {m}) <=> Different(a, J) /\ Fresh(a[m].args, Args(a, J))
  BY <1>1, ArgsStep
<1> HIDE DEF J
<1> QED
  BY <1>1, <1>2, <1>3, <1>4, <1>5, <1>6 DEF MakesNames, AcceptsNames

\* WithExcludeVersions refuses one too, and version 0.
LEMMA VersionsOption ==
    ASSUME NEW a, NEW I, NEW m, m \notin I, NEW c, IsConfig(c), c.ok,
           a[m].with = "excludeVersions", AcceptsVersions(a, I), MakesVersions(a, I, c)
    PROVE  LET d == apply(c, a[m])
           IN  /\ d.ok <=> AcceptsVersions(a, I \cup {m})
               /\ d.ok => MakesVersions(a, I \cup {m}, d)
<1> DEFINE J == Of(a, I, {"excludeVersions"})
<1>1. Of(a, I \cup {m}, {"excludeVersions"}) = J \cup {m} /\ m \notin J
  BY DEF Of
<1>2. apply(c, a[m]) = WithExcludeVersions(c, a[m].args)
  BY DEF apply, Flags
<1>3. PICK d : d = WithExcludeVersions(c, a[m].args)
  OBVIOUS
<1>4. /\ d.ok <=> Fresh(a[m].args, c.excludeVersions) /\ 0 \notin ToSet(a[m].args)
      /\ d.ok => d.excludeVersions = c.excludeVersions \cup ToSet(a[m].args)
  BY <1>3 DEF WithExcludeVersions, Refuse, IsConfig
<1>5. c.excludeVersions = Args(a, J) /\ Different(a, J) /\ 0 \notin Args(a, J)
  BY DEF MakesVersions, AcceptsVersions
<1>6. /\ Args(a, J \cup {m}) = Args(a, J) \cup ToSet(a[m].args)
      /\ Different(a, J \cup {m}) <=> Different(a, J) /\ Fresh(a[m].args, Args(a, J))
  BY <1>1, ArgsStep
<1> HIDE DEF J
<1> QED
  BY <1>1, <1>2, <1>3, <1>4, <1>5, <1>6 DEF MakesVersions, AcceptsVersions

\* WithGoMigrations takes all of its migrations, or fails.
LEMMA GoOption ==
    ASSUME NEW a, NEW I, NEW m, m \notin I, NEW c, IsConfig(c), c.ok, IsOption(a[m]),
           a[m].with = "goMigrations", AcceptsGo(a, I), MakesGo(a, I, c)
    PROVE  LET d == apply(c, a[m])
           IN  /\ d.ok <=> AcceptsGo(a, I \cup {m})
               /\ d.ok => MakesGo(a, I \cup {m}, d)
<1> DEFINE J == Of(a, I, {"goMigrations"})
<1>1. Of(a, I \cup {m}, {"goMigrations"}) = J \cup {m} /\ m \notin J
  BY DEF Of
<1>2. PICK ms : ms = a[m].args
  OBVIOUS
<1>3. PICK g : g = c.registered
  OBVIOUS
<1>4. PICK r : r = Registered(g, ms)
  OBVIOUS
<1>5. PICK d : d = apply(c, a[m])
  OBVIOUS
<1>6. d = IF r.ok THEN [c EXCEPT !.registered = r.map] ELSE Refuse(c)
  BY <1>2, <1>3, <1>4, <1>5 DEF apply, WithGoMigrations, Flags
<1>7. d.ok <=> r.ok
  BY <1>6 DEF Refuse, IsConfig
<1>8. IsGoList(ms)
  BY <1>2 DEF IsOption
<1>9. /\ r.ok <=> \A q \in DOMAIN ms :
            /\ checkGoMigration(ms[q]) /\ ms[q].version \notin DOMAIN g
            /\ \A p \in DOMAIN ms : SameVersion(ms, q, ms, p) => q = p
      /\ r.ok => /\ r.map = [v \in DOMAIN r.map |-> r.map[v]]
                 /\ DOMAIN r.map = DOMAIN g \cup {x.version : x \in ToSet(ms)}
                 /\ \A q \in DOMAIN ms : r.map[ms[q].version] = [source |-> ms[q].source]
                 /\ \A v \in DOMAIN g \ {x.version : x \in ToSet(ms)} : r.map[v] = g[v]
  BY <1>4, <1>8, RegisteredExact
<1>10. /\ DOMAIN g = UNION {{x.version : x \in ToSet(a[i].args)} : i \in J}
       /\ \A i \in J : \A q \in DOMAIN a[i].args :
             g[a[i].args[q].version] = [source |-> a[i].args[q].source]
  BY <1>3, Zenon DEF MakesGo
<1>11. \A i \in J : \A p \in DOMAIN a[i].args :
          /\ checkGoMigration(a[i].args[p])
          /\ \A j \in J : \A q \in DOMAIN a[j].args :
                SameVersion(a[i].args, p, a[j].args, q) => i = j /\ p = q
  BY Zenon DEF AcceptsGo
<1> HIDE DEF J
<1>12. \A v : v \in DOMAIN g <=> \E j \in J : \E q \in DOMAIN a[j].args : a[j].args[q].version = v
  BY <1>10 DEF ToSet
<1>13. ASSUME r.ok PROVE AcceptsGo(a, I \cup {m})
  <2> SUFFICES ASSUME NEW i \in J \cup {m}, NEW p \in DOMAIN a[i].args
               PROVE  /\ checkGoMigration(a[i].args[p])
                      /\ \A j \in J \cup {m} : \A q \in DOMAIN a[j].args :
                            SameVersion(a[i].args, p, a[j].args, q) => i = j /\ p = q
    BY <1>1, Zenon DEF AcceptsGo
  <2>1. checkGoMigration(a[i].args[p])
    BY <1>2, <1>9, <1>11, <1>13
  <2>2. ASSUME NEW j \in J \cup {m}, NEW q \in DOMAIN a[j].args,
               SameVersion(a[i].args, p, a[j].args, q)
        PROVE  i = j /\ p = q
    <3>1. CASE i \in J /\ j \in J
      BY <3>1, <2>2, <1>11
    <3>2. CASE i = m /\ j = m
      BY <3>2, <2>2, <1>2, <1>9, <1>13
    <3>3. CASE i \in J /\ j = m
      <4>1. ms[q].version \in DOMAIN g /\ q \in DOMAIN ms
        BY <3>3, <2>2, <1>2, <1>12 DEF SameVersion
      <4> QED
        BY <4>1, <1>9, <1>13
    <3>4. CASE i = m /\ j \in J
      <4>1. ms[p].version \in DOMAIN g /\ p \in DOMAIN ms
        BY <3>4, <2>2, <1>2, <1>12 DEF SameVersion
      <4> QED
        BY <4>1, <1>9, <1>13
    <3> QED
      BY <3>1, <3>2, <3>3, <3>4
  <2> QED
    BY <2>1, <2>2
<1>14. ASSUME AcceptsGo(a, I \cup {m}) PROVE r.ok
  <2>1. \A i \in J \cup {m} : \A p \in DOMAIN a[i].args :
           /\ checkGoMigration(a[i].args[p])
           /\ \A j \in J \cup {m} : \A q \in DOMAIN a[j].args :
                 SameVersion(a[i].args, p, a[j].args, q) => i = j /\ p = q
    BY <1>14, <1>1, Zenon DEF AcceptsGo
  <2>2. ASSUME NEW q \in DOMAIN ms
        PROVE  /\ checkGoMigration(ms[q]) /\ ms[q].version \notin DOMAIN g
               /\ \A p \in DOMAIN ms : SameVersion(ms, q, ms, p) => q = p
    <3>1. checkGoMigration(ms[q])
      BY <2>1, <1>2
    <3>2. \A p \in DOMAIN ms : SameVersion(ms, q, ms, p) => q = p
      BY <2>1, <1>2
    <3>3. ASSUME ms[q].version \in DOMAIN g PROVE FALSE
      <4>1. PICK j \in J : \E p \in DOMAIN a[j].args : a[j].args[p].version = ms[q].version
        BY <3>3, <1>12
      <4>2. PICK p \in DOMAIN a[j].args : a[j].args[p].version = ms[q].version
        BY <4>1
      <4>3. SameVersion(a[m].args, q, a[j].args, p)
        BY <4>2, <1>2 DEF SameVersion
      <4>4. m = j
        BY <4>3, <2>1, <1>2
      <4> QED
        BY <4>4, <1>1
    <3> QED
      BY <3>1, <3>2, <3>3
  <2> QED
    BY <2>2, <1>9
<1>15. ASSUME r.ok PROVE MakesGo(a, I \cup {m}, d)
  <2>1. d.registered = r.map
    BY <1>6, <1>15 DEF IsConfig
  <2>2. \A v \in DOMAIN g : v \notin {x.version : x \in ToSet(ms)}
    BY <1>9, <1>15 DEF ToSet
  <2>3. DOMAIN r.map = UNION {{x.version : x \in ToSet(a[i].args)} : i \in J \cup {m}}
    BY <1>2, <1>9, <1>10, <1>15
  <2>4. ASSUME NEW i \in J \cup {m}, NEW q \in DOMAIN a[i].args
        PROVE  r.map[a[i].args[q].version] = [source |-> a[i].args[q].source]
    <3>1. CASE i = m
      BY <3>1, <1>2, <1>9, <1>15
    <3>2. CASE i \in J
      <4>1. PICK v : v = a[i].args[q].version
        OBVIOUS
      <4>2. v \in DOMAIN g /\ g[v] = [source |-> a[i].args[q].source]
        BY <3>2, <4>1, <1>10, <1>12
      <4>3. r.map[v] = g[v]
        BY <4>2, <2>2, <1>9, <1>15
      <4> QED
        BY <4>1, <4>2, <4>3
    <3> QED
      BY <3>1, <3>2
  <2>5. r.map = [v \in DOMAIN r.map |-> r.map[v]]
    BY <1>9, <1>15
  <2>6. PICK h : h = d.registered
    OBVIOUS
  <2>7. /\ h = [v \in DOMAIN h |-> h[v]]
        /\ DOMAIN h = UNION {{x.version : x \in ToSet(a[i].args)} : i \in J \cup {m}}
        /\ \A i \in J \cup {m} : \A q \in DOMAIN a[i].args :
              h[a[i].args[q].version] = [source |-> a[i].args[q].source]
    <3>1. h = r.map
      BY <2>1, <2>6
    <3> QED
      BY <3>1, <2>3, <2>4, <2>5, Zenon
  <2> QED
    BY <2>6, <2>7, <1>1, Zenon DEF MakesGo
<1> QED
  BY <1>5, <1>7, <1>13, <1>14, <1>15

\* A list that is not accepted is not accepted with one more option either.
LEMMA NeverAgain ==
    ASSUME NEW a, NEW I, NEW J, I \subseteq J, Acceptable(a, J)
    PROVE  Acceptable(a, I)
<1>1. \A K : Of(a, I, K) \subseteq Of(a, J, K)
  BY DEF Of
<1>2. \A S, T : S \subseteq T /\ Different(a, T) => Different(a, S)
  BY DEF Different
<1>3. AcceptsLocker(a, I) /\ AcceptsStore(a, I) /\ AcceptsTable(a, I)
  BY <1>1 DEF Acceptable, AcceptsLocker, AcceptsStore, AcceptsTable, Once, Given
<1>4. AcceptsLogger(a, I)
  BY <1>1 DEF Acceptable, AcceptsLogger, Given
<1>5. AcceptsNames(a, I)
  BY <1>1, <1>2 DEF Acceptable, AcceptsNames
<1>6. AcceptsVersions(a, I)
  <2>1. \A S, T : S \subseteq T => Args(a, S) \subseteq Args(a, T)
    BY DEF Args
  <2> QED
    BY <2>1, <1>1, <1>2 DEF Acceptable, AcceptsVersions
<1>7. AcceptsGo(a, I)
  BY <1>1 DEF Acceptable, AcceptsGo
<1> QED
  BY <1>3, <1>4, <1>5, <1>6, <1>7 DEF Acceptable

\* One more option, whatever its kind.
LEMMA OptionStep ==
    ASSUME NEW a, NEW I, NEW m, m \notin I, NEW c, IsConfig(c), c.ok, IsOption(a[m]),
           Acceptable(a, I), Makes(a, I, c)
    PROVE  LET d == apply(c, a[m])
           IN  /\ d.ok <=> Acceptable(a, I \cup {m})
               /\ d.ok => Makes(a, I \cup {m}, d)
<1>1. PICK d : d = apply(c, a[m])
  OBVIOUS
<1>2. PICK J : J = I \cup {m}
  OBVIOUS
<1>3. PICK w : w = a[m].with
  OBVIOUS
<1>4. /\ w \notin Lockers => d.locker = c.locker
      /\ w # "store" => d.store = c.store
      /\ w # "excludeNames" => d.excludePaths = c.excludePaths
      /\ w # "excludeVersions" => d.excludeVersions = c.excludeVersions
      /\ w # "goMigrations" => d.registered = c.registered
      /\ \A k \in LastWins : k # w => d.last[k] = c.last[k]
      /\ w \in LastWins /\ d.ok => d.last[w] = a[m].args
      /\ w \in Flags => d.ok
  BY <1>1, <1>3, ApplyFields DEF Lockers
<1>5. /\ AcceptsLocker(a, I) /\ AcceptsLogger(a, I) /\ AcceptsStore(a, I)
      /\ AcceptsTable(a, I)
      /\ AcceptsNames(a, I) /\ AcceptsVersions(a, I) /\ AcceptsGo(a, I)
      /\ MakesLocker(a, I, c) /\ MakesStore(a, I, c) /\ MakesLast(a, I, c)
      /\ MakesNames(a, I, c) /\ MakesVersions(a, I, c) /\ MakesGo(a, I, c)
  BY DEF Acceptable, Makes
<1>6. /\ w \notin Lockers => AcceptsLocker(a, J) /\ MakesLocker(a, J, d)
      /\ w \notin Loggers => AcceptsLogger(a, J)
      /\ w # "store" => AcceptsStore(a, J) /\ MakesStore(a, J, d)
      /\ w # "tableName" => AcceptsTable(a, J)
      /\ w # "excludeNames" => AcceptsNames(a, J) /\ MakesNames(a, J, d)
      /\ w # "excludeVersions" => AcceptsVersions(a, J) /\ MakesVersions(a, J, d)
      /\ w # "goMigrations" => AcceptsGo(a, J) /\ MakesGo(a, J, d)
  BY <1>2, <1>3, <1>4, <1>5, OtherKinds
<1>7. /\ w \in Lockers => /\ d.ok <=> AcceptsLocker(a, J)
                          /\ d.ok => MakesLocker(a, J, d)
      /\ w \in Loggers => (d.ok <=> AcceptsLogger(a, J))
      /\ w = "store" => /\ d.ok <=> AcceptsStore(a, J)
                        /\ d.ok => MakesStore(a, J, d)
      /\ w = "tableName" => (d.ok <=> AcceptsTable(a, J))
  BY <1>1, <1>2, <1>3, <1>5, LockerOption, LoggerOption, StoreOption, TableOption, Zenon
<1>8. /\ w = "excludeNames" => /\ d.ok <=> AcceptsNames(a, J)
                               /\ d.ok => MakesNames(a, J, d)
      /\ w = "excludeVersions" => /\ d.ok <=> AcceptsVersions(a, J)
                                  /\ d.ok => MakesVersions(a, J, d)
      /\ w = "goMigrations" => /\ d.ok <=> AcceptsGo(a, J)
                               /\ d.ok => MakesGo(a, J, d)
  BY <1>1, <1>2, <1>3, <1>5, NamesOption, VersionsOption, GoOption, Zenon
<1>9. d.ok => MakesLast(a, J, d)
  BY <1>2, <1>3, <1>4, <1>5, LastStep
<1>10. w \in Lockers \cup Loggers \cup Flags \cup
            {"store", "tableName", "excludeNames", "excludeVersions", "goMigrations"}
  BY <1>3 DEF IsOption, OptionKinds, LastWins, Lockers, Loggers
<1>11. /\ d.ok <=> Acceptable(a, J)
       /\ d.ok => Makes(a, J, d)
  BY <1>4, <1>6, <1>7, <1>8, <1>9, <1>10 DEF Acceptable, Makes, Lockers, Loggers, Flags
<1> QED
  BY <1>1, <1>2, <1>11

\* A list of options is accepted, and what it then amounts to, without regard to
\* their order.
LEMMA ConfiguredExact ==
    ASSUME NEW opts, opts \in Seq(ToSet(opts)), \A o \in ToSet(opts) : IsOption(o)
    PROVE  LET I == 1..Len(opts)
           IN  /\ Configured(opts).ok <=> Acceptable(opts, I)
               /\ Configured(opts).ok => Makes(opts, I, Configured(opts))
<1> DEFINE N == Len(opts)
<1>1. N \in Nat /\ DOMAIN opts = 1..N /\ \A n \in 1..N : IsOption(opts[n])
  BY LenProperties DEF ToSet
<1>2. PICK after : /\ after[0] = config
                   /\ \A n \in 1..N : after[n] = ApplyNext(after[n - 1], opts[n])
                   /\ Configured(opts) = after[N]
  BY <1>1, ConfiguredSteps
<1> DEFINE Right(n) == /\ IsConfig(after[n])
                       /\ after[n].ok <=> Acceptable(opts, 1..n)
                       /\ after[n].ok => Makes(opts, 1..n, after[n])
           Wrong == {n \in 0..N : ~Right(n)}
<1>3. Right(0)
  <2>1. IsConfig(config) /\ config.ok
    BY FS_EmptySet DEF IsConfig, config, Registry
  <2>2. \A K : Of(opts, {}, K) = {}
    BY DEF Of
  <2>3. Args(opts, {}) = {} /\ Different(opts, {}) /\ Once({}) /\ Given(opts, {})
    BY DEF Args, Different, Once, Given
  <2>4. AcceptsLogger(opts, {}) /\ AcceptsGo(opts, {})
    BY <2>2, <2>3 DEF AcceptsLogger, AcceptsGo
  <2>5. Acceptable(opts, {})
    BY <2>2, <2>3, <2>4
       DEF Acceptable, AcceptsLocker, AcceptsStore, AcceptsTable, AcceptsNames,
           AcceptsVersions
  <2>6. MakesGo(opts, {}, config)
    <3>1. PICK g : g = config.registered
      OBVIOUS
    <3>2. g = [v \in DOMAIN g |-> g[v]] /\ DOMAIN g = {}
      BY <3>1 DEF config
    <3>3. UNION {{x.version : x \in ToSet(opts[i].args)} : i \in {}} = {}
      OBVIOUS
    <3> QED
      BY <3>1, <3>2, <3>3, <2>2, Zenon DEF MakesGo
  <2>9. MakesLast(opts, {}, config)
    BY <2>2 DEF MakesLast, config
  <2>7. Makes(opts, {}, config)
    BY <2>2, <2>3, <2>6, <2>9 DEF Makes, MakesLocker, MakesStore, MakesNames, MakesVersions,
       config
  <2>8. 1..0 = {}
    OBVIOUS
  <2> QED
    BY <2>1, <2>5, <2>7, <2>8, <1>2
<1>4. ASSUME NEW n \in 1..N, Right(n - 1) PROVE Right(n)
  <2>1. /\ IsOption(opts[n]) /\ n \notin 1..(n - 1) /\ 1..n = (1..(n - 1)) \cup {n}
        /\ after[n] = ApplyNext(after[n - 1], opts[n])
    BY <1>1, <1>2
  <2>2. PICK c : c = after[n - 1]
    OBVIOUS
  <2>3. PICK I : I = 1..(n - 1)
    OBVIOUS
  <2>4. /\ IsConfig(c) /\ (c.ok <=> Acceptable(opts, I)) /\ (c.ok => Makes(opts, I, c))
    BY <1>4, <2>2, <2>3
  <2>5. CASE c.ok
    <3>1. after[n] = apply(c, opts[n])
      BY <2>1, <2>2, <2>5 DEF ApplyNext
    <3>2. IsConfig(apply(c, opts[n]))
      BY <2>1, <2>4, ApplyFields
    <3>3. /\ apply(c, opts[n]).ok <=> Acceptable(opts, I \cup {n})
          /\ apply(c, opts[n]).ok => Makes(opts, I \cup {n}, apply(c, opts[n]))
      BY <2>1, <2>3, <2>4, <2>5, OptionStep
    <3> QED
      BY <3>1, <3>2, <3>3, <2>1, <2>3
  <2>6. CASE ~c.ok
    <3>1. after[n] = c
      BY <2>1, <2>2, <2>6 DEF ApplyNext
    <3>2. I \subseteq 1..n
      BY <2>1, <2>3
    <3>3. ~Acceptable(opts, 1..n)
      BY <3>2, <2>4, <2>6, NeverAgain
    <3> QED
      BY <3>1, <3>3, <2>4, <2>6
  <2> QED
    BY <2>5, <2>6
<1> HIDE DEF Right
<1>5. Wrong = {}
  <2> SUFFICES ASSUME Wrong # {} PROVE FALSE
    OBVIOUS
  <2>1. PICK m \in Wrong : \A n \in Wrong : m <= n
    <3>1. Wrong \in SUBSET Nat
      BY <1>1
    <3> QED
      BY <3>1, LeastExists
  <2>2. m \in 1..N /\ m - 1 \in 0..N /\ ~(m <= m - 1)
    BY <2>1, <1>1, <1>3
  <2>3. Right(m - 1) /\ ~Right(m)
    BY <2>1, <2>2
  <2> QED
    BY <2>2, <2>3, <1>4
<1>6. Right(N)
  BY <1>1, <1>5
<1> QED
  BY <1>2, <1>6 DEF Right

\* The options from the last to the first.
LEMMA ReverseFacts ==
    ASSUME NEW opts, opts \in Seq(ToSet(opts))
    PROVE  LET back == Reverse(opts)
               N == Len(opts)
           IN  /\ back \in Seq(ToSet(back)) /\ Len(back) = N /\ ToSet(back) = ToSet(opts)
               /\ \A i \in 1..N : back[i] = opts[N + 1 - i] /\ opts[i] = back[N + 1 - i]
<1> DEFINE N == Len(opts)
           back == Reverse(opts)
<1>1. N \in Nat /\ DOMAIN opts = 1..N /\ \A i \in 1..N : opts[i] \in ToSet(opts)
  BY LenProperties DEF ToSet
<1>2. back = [i \in 1..N |-> opts[(N - i) + 1]]
  BY DEF Reverse
<1>3. \A i \in 1..N : N + 1 - i \in 1..N /\ (N - i) + 1 = N + 1 - i /\ N + 1 - (N + 1 - i) = i
  BY <1>1
<1>4. back \in Seq(ToSet(opts)) /\ Len(back) = N /\ DOMAIN back = 1..N
  <2>1. back \in [1..N -> ToSet(opts)]
    BY <1>1, <1>2, <1>3
  <2> QED
    BY <2>1, <1>1, SeqDef, LenProperties
<1>5. \A i \in 1..N : back[i] = opts[N + 1 - i] /\ opts[i] = back[N + 1 - i]
  BY <1>2, <1>3
<1> HIDE DEF N, back
<1>6. ToSet(back) = ToSet(opts)
  <2>1. ToSet(back) = {back[i] : i \in 1..N} /\ ToSet(opts) = {opts[i] : i \in 1..N}
    BY <1>1, <1>4 DEF ToSet
  <2>2. \A i \in 1..N : \E j \in 1..N : back[i] = opts[j]
    BY <1>3, <1>5
  <2>3. \A i \in 1..N : \E j \in 1..N : opts[i] = back[j]
    BY <1>3, <1>5
  <2> QED
    BY <2>1, <2>2, <2>3
<1> QED
  BY <1>4, <1>5, <1>6 DEF N, back

\* The options of a kind do not disagree.
Settled(opts, k) == \A o, p \in ToSet(opts) : o.with = k /\ p.with = k => o.args = p.args

\* A list of options and its reverse.
LEMMA ReversedOptions ==
    ASSUME NEW opts, opts \in Seq(ToSet(opts)), \A o \in ToSet(opts) : IsOption(o)
    PROVE  /\ Configured(opts).ok <=> Configured(Reverse(opts)).ok
           /\ Configured(opts).ok => LET c == Configured(opts)
                                         d == Configured(Reverse(opts))
                                     IN  /\ c = [d EXCEPT !.last = c.last]
                                         /\ \A k \in LastWins :
                                                Settled(opts, k) => c.last[k] = d.last[k]
                                         /\ c.last["tableName"] = <<>>
                                                <=> d.last["tableName"] = <<>>
<1>1. PICK back : back = Reverse(opts)
  OBVIOUS
<1>2. PICK N : N = Len(opts)
  OBVIOUS
<1>3. N \in Nat
  BY <1>2, LenProperties
<1>4. /\ back \in Seq(ToSet(back)) /\ Len(back) = N /\ ToSet(back) = ToSet(opts)
      /\ \A i \in 1..N : back[i] = opts[N + 1 - i] /\ opts[i] = back[N + 1 - i]
  BY <1>1, <1>2, ReverseFacts
<1>5. PICK I : I = 1..N
  OBVIOUS
<1>6. PICK c : c = Configured(opts)
  OBVIOUS
<1>7. PICK d : d = Configured(back)
  OBVIOUS
<1>8. IsConfig(c) /\ (c.ok <=> Acceptable(opts, I)) /\ (c.ok => Makes(opts, I, c))
  BY <1>2, <1>5, <1>6, ConfiguredTyped, ConfiguredExact
<1>9. IsConfig(d) /\ (d.ok <=> Acceptable(back, I)) /\ (d.ok => Makes(back, I, d))
  BY <1>4, <1>5, <1>7, ConfiguredTyped, ConfiguredExact
<1> DEFINE p == [i \in I |-> N + 1 - i]
<1>10. p \in [I -> I] /\ \A i \in I : p[p[i]] = i /\ p[i] = N + 1 - i
  BY <1>3, <1>5
<1>11. \A i \in I : back[i] = opts[p[i]] /\ opts[i] = back[p[i]]
  BY <1>4, <1>5, <1>10
<1> HIDE DEF p
<1>12. /\ Acceptable(opts, I) => Acceptable(back, I)
       /\ Acceptable(back, I) => Acceptable(opts, I)
       /\ Makes(opts, I, c) => Makes(back, I, c)
  BY <1>10, <1>11, Reordered
<1>13. ASSUME c.ok
       PROVE  /\ c = [d EXCEPT !.last = c.last]
              /\ \A k \in LastWins : Settled(opts, k) => c.last[k] = d.last[k]
              /\ c.last["tableName"] = <<>> <=> d.last["tableName"] = <<>>
  <2>1. Agree(back, I, c, d)
    <3>1. d.ok /\ Makes(back, I, c) /\ Makes(back, I, d)
      BY <1>8, <1>9, <1>12, <1>13
    <3>2. IsConfig(c) /\ IsConfig(d)
      BY <1>8, <1>9
    <3> QED
      BY <3>1, <3>2, <1>13, MakesOne
  <2>2. \A i \in I : back[i] \in ToSet(opts)
    <3>1. DOMAIN back = I
      BY <1>4, <1>5, LenProperties
    <3> QED
      BY <3>1, <1>4 DEF ToSet
  <2>3. ASSUME NEW k \in LastWins, Settled(opts, k)
        PROVE  \A i, j \in Of(back, I, {k}) : back[i].args = back[j].args
    BY <2>2, <2>3 DEF Settled, Of
  <2>4. /\ MakesLast(back, I, c) /\ MakesLast(back, I, d) /\ AcceptsTable(back, I)
    BY <1>8, <1>9, <1>12, <1>13 DEF Makes, Acceptable
  <2>5. "tableName" \in LastWins
    BY DEF LastWins
  <2>6. c.last["tableName"] = <<>> <=> d.last["tableName"] = <<>>
    BY <2>4, <2>5 DEF MakesLast, AcceptsTable, Given
  <2> QED
    BY <2>1, <2>3, <2>6 DEF Agree
<1> QED
  BY <1>1, <1>6, <1>7, <1>8, <1>9, <1>12, <1>13

\* The order in which options are given does not decide whether NewProvider accepts
\* them, however many there are, and decides what they amount to only where options
\* of a kind of which the last wins disagree.
THEOREM OptionsCommuteCorrect == Spec => []OptionsCommute
<1>1. ASSUME Inv PROVE OptionsCommute
  <2>1. result.opts \in OptionLists \cup {<<>>}
    BY <1>1 DEF Inv, TypeOK
  <2>2. PICK opts : opts = result.opts
    OBVIOUS
  <2>3. PICK c : c = Configured(opts)
    OBVIOUS
  <2>4. PICK d : d = Configured(Reverse(opts))
    OBVIOUS
  <2>5. /\ c.ok <=> d.ok
        /\ c.ok => /\ c = [d EXCEPT !.last = c.last]
                   /\ \A k \in LastWins : Settled(opts, k) => c.last[k] = d.last[k]
                   /\ c.last["tableName"] = <<>> <=> d.last["tableName"] = <<>>
    BY <2>1, <2>2, <2>3, <2>4, OptionListFacts, ReversedOptions
  <2>6. IsConfig(d)
    <3>1. /\ Reverse(opts) \in Seq(ToSet(Reverse(opts)))
          /\ \A o \in ToSet(Reverse(opts)) : IsOption(o)
      BY <2>1, <2>2, OptionListFacts, ReverseFacts
    <3> QED
      BY <3>1, <2>4, ConfiguredTyped
  <2>7. c.ok => c.store = d.store
    BY <2>5, <2>6 DEF IsConfig
  <2>8. ConfigOK(c, result.custom) <=> ConfigOK(d, result.custom)
    BY <2>5, <2>7 DEF ConfigOK
  <2>9. \A k \in LastWins :
           k \notin {x \in LastWins : \E o, p \in ToSet(opts) :
                                          o.with = x /\ p.with = x /\ o.args # p.args}
               => Settled(opts, k)
    BY DEF Settled
  <2> QED
    BY <2>2, <2>3, <2>4, <2>5, <2>8, <2>9 DEF OptionsCommute, Settings
<1> QED
  BY <1>1, Invariance, PTL
=============================================================================
