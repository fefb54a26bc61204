------------------------------ MODULE Collect ------------------------------
(***************************************************************************)
(* Where migrations come from: the files of a directory, the global        *)
(* registry of Go migrations and the options of NewProvider; the list that *)
(* NewProvider and the package-level CollectMigrations make of them; and   *)
(* Create and Fix, which add and rename files.                             *)
(*                                                                         *)
(* A file is a record of the parts of its name - the version (0 if there   *)
(* is none), whether it is padded with zeros, the rest of the name and the *)
(* extension - and its content, which tells files apart whatever they are  *)
(* called.  A Go migration has a version and a source, NoSource or the     *)
(* version and extension of a file name.                                   *)
(***************************************************************************)
EXTENDS VersionLists

CONSTANTS InitialFiles,  \* the directory starts with some of these
          Names,         \* the parts of file names after the version
          NewNames,      \* those that Create is given
          Contents,      \* the contents of files
          NewContents,   \* those of files that Create writes
          LexOrder,      \* the version parts of names in the order of fs.Glob
          Times,         \* the numbers that time.Parse accepts
          Epoch,         \* time.Unix(0, 0) as such a number
          PadLimit,      \* padded numbers below it begin with a zero
          PathVersions,  \* numbers that occur in the path of the directory
          Today,         \* where the clock starts
          MaxVersion,    \* bound: where the clock ends
          MaxFiles,      \* bound: files in the directory
          GoSources,     \* file names that AddNamedMigrationContext is given
          GoLists,       \* arguments of SetGlobalMigrations
          OptionLists,   \* options of NewProvider
          NoSource       \* the source of a Go migration that has none

File == [version : 0..MaxVersion, ext : {"sql", "go", "_test.go"},
         padded : BOOLEAN, name : Names, content : Contents]

\* filepath.Base: the name of a file.
Base(f) == [version |-> f.version, padded |-> f.padded, name |-> f.name, ext |-> f.ext]

\* Names and contents differ, and the clock is past the epoch and the files.
ASSUME FilesAssumption ==
    /\ Epoch \in Nat \ {0} /\ Today \in Nat /\ MaxVersion \in Nat /\ MaxFiles \in Nat
    /\ Times \subseteq Nat /\ Today \in Times /\ Epoch < Today /\ Today <= MaxVersion
    /\ IsFiniteSet(InitialFiles) /\ InitialFiles \subseteq File
    /\ \A f, g \in InitialFiles : f.content = g.content \/ Base(f) = Base(g) => f = g
    /\ \A f \in InitialFiles : f.version <= Today
    /\ NewNames \subseteq Names /\ NewContents \subseteq Contents

\* Timestamps and zero-padded numbers sort as their names do: names with a leading
\* zero come first, and all timestamps have 14 digits.
ASSUME GlobAssumption ==
    /\ LexOrder \in Seq((0..MaxVersion) \X BOOLEAN)
    /\ \A v \in 0..MaxVersion, p \in BOOLEAN : <<v, p>> \in ToSet(LexOrder)
    /\ PadLimit \in Nat
    /\ LET Sorts(e) == IF e[2] THEN e[1] < PadLimit ELSE e[1] \in Times /\ e[1] > Epoch
       IN  \A i, j \in DOMAIN LexOrder :
               i < j /\ Sorts(LexOrder[i]) /\ Sorts(LexOrder[j]) => LexOrder[i][1] < LexOrder[j][1]

IsGoList(ms) == /\ ms \in Seq(ToSet(ms))
                /\ \A m \in ToSet(ms) : m.version \in Nat

\* Options that set one value, which a later one of the same kind replaces.
Flags    == {"verbose", "noGlobal", "allowOutofOrder", "disableVersioning", "isolateDDL"}
LastWins == {"logger", "slog", "tableName"} \cup Flags

OptionKinds == {"session", "table", "store", "excludeNames", "excludeVersions", "goMigrations"}
               \cup LastWins

\* An option and its arguments; those of a nil or an empty one are <<>>.
IsOption(o) == /\ o.with \in OptionKinds
               /\ o.args \in Seq(ToSet(o.args))
               /\ o.with \in Flags => o.args \in {<<TRUE>>, <<FALSE>>}
               /\ o.with = "goMigrations" => IsGoList(o.args)

ASSUME ArgumentsAssumption ==
    /\ \A src \in GoSources : src.version \in Nat
    /\ \A ms \in GoLists : IsGoList(ms)
    /\ \A opts \in OptionLists : /\ opts \in Seq(ToSet(opts))
                                 /\ \A o \in ToSet(opts) : IsOption(o)

\* Versions that are in use without Create and Fix.
GivenVersions == {0} \cup {f.version : f \in InitialFiles} \cup {src.version : src \in GoSources}
                 \cup UNION {{m.version : m \in ToSet(ms)} : ms \in GoLists}

\* The assumption of versioned and timestamped: they are timestamps, or so far below
\* the epoch that all files can be numbered.
ASSUME SequentialAssumption ==
    \A v \in GivenVersions, n \in {MaxFiles, Cardinality(InitialFiles)} :
        (v \in Times /\ v > Epoch) \/ v + n < Epoch

VARIABLES dir,     \* the migrations directory
          global,  \* registeredGoMigrations, by version
          fixing,  \* the renames that Fix has still to do
          now,     \* when Create last looked at the clock, in whole seconds
          result   \* what the call that has just ended returned

vars == <<dir, global, fixing, now, result>>

NoResult == [call |-> "none", ok |-> FALSE, opts |-> <<>>, custom |-> FALSE, list |-> <<>>]
NoFix == [todo |-> <<>>, next |-> 0]

\* Calls do not overlap.  Whoever reads the directory in the middle of Fix sees
\* what it leaves when it is stopped there.
Idle == result = NoResult /\ fixing = NoFix

\* NumericComponent: the version of a file name, and whether it has one.
HasVersion(f) == f.version > 0

\* fs.Glob lists files by name.
Position(f) == CHOOSE i \in DOMAIN LexOrder : LexOrder[i] = <<f.version, f.padded>>

SQLMigration(f) == [version |-> f.version, type |-> "sql", registered |-> FALSE]
GoMigration(v)  == [version |-> v, type |-> "go", registered |-> TRUE]
Unregistered(f) == [version |-> f.version, type |-> "go", registered |-> FALSE]

\* sort.Slice, sort.Sort and fs.Glob; none of them is given two equal keys.
ByVersion(ms) == SortedBy(ms, [m \in ms |-> m.version])
ByName(fs)    == SortedBy(fs, [f \in fs |-> Position(f)])
Duplicates(S) == \E x, y \in S : x # y /\ x.version = y.version

-----------------------------------------------------------------------------
(* The registry *)

\* Two maps in one.
Join(f, g) == [x \in DOMAIN f \cup DOMAIN g |-> IF x \in DOMAIN f THEN f[x] ELSE g[x]]

\* A Go migration made by NewGoMigration whose functions and mode fit together
\* and whose source, if it has one, has its version.
checkGoMigration(m) ==
    /\ m.funcsOK /\ m.version >= 1
    /\ m.source # NoSource => m.source.ext = "go" /\ m.source.version = m.version

Accepts(registry, m) == m.version \notin DOMAIN registry /\ checkGoMigration(m)

\* AddNamedMigrationContext and its siblings, from the init functions of a
\* program.  register ignores the error of NumericComponent, whose version is
\* then 0.  A conflict is a panic: the program ends.
AddNamedMigration(src) ==
    /\ Idle
    /\ global' = IF src.version \in DOMAIN global THEN <<>>
                 ELSE Join([v \in {src.version} |-> [source |-> src]], global)
    /\ UNCHANGED <<dir, fixing, now, result>>

\* The migrations before the first that is refused stay registered.
Registered(registry, ms) ==
    LET refused == {i \in DOMAIN ms : \/ ~Accepts(registry, ms[i])
                                      \/ \E j \in 1..(i - 1) : ms[j].version = ms[i].version}
        done == {i \in DOMAIN ms : \A j \in refused : i < j}
        index(v) == CHOOSE i \in done : ms[i].version = v
    IN  [ok  |-> refused = {},
         map |-> Join([v \in {ms[i].version : i \in done} |-> [source |-> ms[index(v)].source]],
                      registry)]

SetGlobalMigrations(ms) ==
    /\ Idle
    /\ global' = Registered(global, ms).map
    /\ UNCHANGED <<dir, fixing, now, result>>

ResetGlobalMigrations ==
    /\ Idle
    /\ global # <<>>
    /\ global' = <<>>
    /\ UNCHANGED <<dir, fixing, now, result>>

-----------------------------------------------------------------------------
(* The options of NewProvider, applied in the order they are given *)

\* last: the arguments of the last option of a kind; <<>> if there was none.
config == [ok |-> TRUE, locker |-> "none", store |-> FALSE, excludePaths |-> {},
           excludeVersions |-> {}, registered |-> <<>>, last |-> [k \in LastWins |-> <<>>]]

disableGlobalRegistry(c) == c.last["noGlobal"] = <<TRUE>>

Refuse(c) == [c EXCEPT !.ok = FALSE]

Fresh(args, S) == IsInjective(args) /\ ToSet(args) \cap S = {}

Set(c, kind, args) == [c EXCEPT !.last = [@ EXCEPT ![kind] = args]]

\* Both ways: only one kind of locker, and only once.
WithLocker(c, kind, args) ==
    IF c.locker = "none" /\ args # <<>> THEN [c EXCEPT !.locker = kind] ELSE Refuse(c)

\* Fault: WithSlog does not look for a logger.
WithLoggerUnchecked(c, kind, args) ==
    IF args = <<>> \/ (kind = "logger" /\ c.last["slog"] # <<>>)
    THEN Refuse(c) ELSE Set(c, kind, args)

\* Of the same kind the last is used.
WithLogger(c, kind, args) ==
    LET other == IF kind = "logger" THEN "slog" ELSE "logger"
    IN  IF args # <<>> /\ c.last[other] = <<>> THEN Set(c, kind, args) ELSE Refuse(c)

WithStore(c, args) ==
    IF c.store \/ args = <<>> THEN Refuse(c) ELSE [c EXCEPT !.store = TRUE]

WithTableName(c, args) == IF args = <<>> THEN Refuse(c) ELSE Set(c, "tableName", args)

WithExcludeNames(c, names) ==
    IF Fresh(names, c.excludePaths)
    THEN [c EXCEPT !.excludePaths = @ \cup ToSet(names)] ELSE Refuse(c)

WithExcludeVersions(c, versions) ==
    IF Fresh(versions, c.excludeVersions) /\ 0 \notin ToSet(versions)
    THEN [c EXCEPT !.excludeVersions = @ \cup ToSet(versions)] ELSE Refuse(c)

WithGoMigrations(c, ms) ==
    LET r == Registered(c.registered, ms)
    IN  IF r.ok THEN [c EXCEPT !.registered = r.map] ELSE Refuse(c)

apply(c, o) ==
    CASE o.with \in {"session", "table"} -> WithLocker(c, o.with, o.args)
      [] o.with \in {"logger", "slog"}   -> WithLogger(c, o.with, o.args)
      [] o.with = "store"           -> WithStore(c, o.args)
      [] o.with = "tableName"       -> WithTableName(c, o.args)
      [] o.with = "excludeNames"    -> WithExcludeNames(c, o.args)
      [] o.with = "excludeVersions" -> WithExcludeVersions(c, o.args)
      [] o.with = "goMigrations"    -> WithGoMigrations(c, o.args)
      [] o.with \in Flags           -> Set(c, o.with, o.args)

\* The first option that is refused ends NewProvider.
Configured(opts) ==
    LET after[n \in 0..Len(opts)] ==
            IF n = 0 THEN config
            ELSE LET c == after[n - 1] IN IF c.ok THEN apply(c, opts[n]) ELSE c
    IN  after[Len(opts)]

\* A custom dialect needs a store, and only a custom dialect may have one.
ConfigOK(c, custom) == /\ c.ok /\ (custom <=> c.store)
                       /\ ~(c.last["tableName"] # <<>> /\ c.store)

-----------------------------------------------------------------------------
(* newProvider *)

\* collectFilesystemSources: the files with a version, but for the excluded.
Sources(c) == {f \in dir : /\ f.ext # "_test.go" /\ HasVersion(f)
                           /\ Base(f) \notin c.excludePaths
                           /\ f.version \notin c.excludeVersions}

OfType(fs, ext) == {f \in fs : f.ext = ext}

SQLList(fs) == LET s == ByName(OfType(fs, "sql"))
               IN  [i \in DOMAIN s |-> SQLMigration(s[i])]

\* Fault: the registered migrations are put after the SQL migrations.
MergedUnsorted(fs, registered) ==
    SQLList(fs) \o ByVersion({GoMigration(v) : v \in DOMAIN registered})

\* Fault: a registered Go migration that has no file is left out.
MergedWithFiles(fs, registered) ==
    ByVersion(ToSet(SQLList(fs)) \cup
                  {GoMigration(v) : v \in DOMAIN registered \cap
                                          {f.version : f \in OfType(fs, "go")}})

\* merge, without its errors: sorted, but not if there is nothing from Go.
Merged(fs, registered) ==
    IF OfType(fs, "go") = {} /\ registered = <<>> THEN SQLList(fs)
    ELSE ByVersion(ToSet(SQLList(fs)) \cup {GoMigration(v) : v \in DOMAIN registered})

AllUnregistered(fs, registered) ==
    {f \in OfType(fs, "go") : f.version \notin DOMAIN registered}

\* merge: a versioned Go file is not registered, or a version is used twice.
MergeFails(fs, registered) ==
    \/ AllUnregistered(fs, registered) # {}
    \/ \E f \in OfType(fs, "sql") : f.version \in DOMAIN registered

\* The objects of the registry are shared with the Provider: merge gives those
\* that have a file its name, even if it fails.
WithSources(fs) ==
    [v \in DOMAIN global |->
        IF \E f \in OfType(fs, "go") : f.version = v
        THEN [source |-> [ext |-> "go", version |-> v]] ELSE global[v]]

NewProvider(opts, custom) ==
    LET c == Configured(opts)
        fs == Sources(c)
        own == c.registered
        registered == IF disableGlobalRegistry(c) THEN own ELSE Join(own, global)
        clash == ~disableGlobalRegistry(c) /\ DOMAIN own \cap DOMAIN global # {}
        merges == ConfigOK(c, custom) /\ ~Duplicates(fs) /\ ~clash
        list == Merged(fs, registered)
        ok == merges /\ ~MergeFails(fs, registered) /\ list # <<>>
    IN  /\ Idle
        /\ result' = [call |-> "NewProvider", ok |-> ok, opts |-> opts, custom |-> custom,
                      list |-> IF ok THEN list ELSE <<>>]
        /\ global' = IF merges /\ ~disableGlobalRegistry(c) THEN WithSources(fs) ELSE global
        /\ UNCHANGED <<dir, fixing, now>>

-----------------------------------------------------------------------------
(* collectMigrationsFS, for all versions *)

\* Fault: registered migrations without files are left out.
CollectGoFiles ==
    {IF f.version \in DOMAIN global THEN GoMigration(f.version) ELSE Unregistered(f)
        : f \in {f \in OfType(dir, "go") : HasVersion(f)}}

\* collectGoMigrations: the Go files, registered or not; the registered
\* migrations only if there is no such file.
CollectGo ==
    LET files == {f \in OfType(dir, "go") : HasVersion(f)}
    IN  IF files # {}
        THEN {IF f.version \in DOMAIN global THEN GoMigration(f.version) ELSE Unregistered(f)
                 : f \in files}
        ELSE {GoMigration(v) : v \in DOMAIN global}

\* The error returns: a SQL file or a registered source without a version.
CollectFails ==
    \/ \E f \in OfType(dir, "sql") : ~HasVersion(f)
    \/ \E v \in DOMAIN global : global[v].source = NoSource \/ ~HasVersion(global[v].source)

\* Sorting panics on duplicate versions: of two files, or of a SQL file and a
\* Go migration.
CollectPanics ==
    \/ Duplicates({f \in OfType(dir, "sql") \cup OfType(dir, "go") : HasVersion(f)})
    \/ \E f \in OfType(dir, "sql"), m \in CollectGo : f.version = m.version

sortAndConnectMigrations(ms) == ByVersion(ms)

Collected ==
    sortAndConnectMigrations({SQLMigration(f) : f \in OfType(dir, "sql")} \cup CollectGo)

CollectOK == ~CollectFails /\ ~CollectPanics

CollectMigrations ==
    LET ok == CollectOK /\ Collected # <<>>
    IN  /\ Idle
        /\ result' = [NoResult EXCEPT !.call = "CollectMigrations", !.ok = ok,
                                      !.list = IF ok THEN Collected ELSE <<>>]
        /\ UNCHANGED <<dir, global, fixing, now>>

-----------------------------------------------------------------------------
(* Create and Fix *)

\* time.Parse accepts the version, and the time is after the epoch.
IsTimestamp(m) == m.version \in Times /\ m.version > Epoch

\* The epoch itself is neither.
versioned(ms)   == Part(ms, {i \in DOMAIN ms : ms[i].version \notin Times \/ ms[i].version < Epoch})
timestamped(ms) == Part(ms, {i \in DOMAIN ms : IsTimestamp(ms[i])})

\* Fault: the number of migrations is taken for the last version.
CountedVersion(ms) == Len(versioned(ms)) + 1

\* One more than the last version that is not a timestamp, else 1.
NextVersion(ms) == IF versioned(ms) = <<>> THEN 1 ELSE Last(versioned(ms)).version + 1

\* os.Create and os.Rename: a file that has the name already is gone.
Put(d, g) == {f \in d : Base(f) # Base(g)} \cup {g}

Unused(d) == NewContents \ {f.content : f \in d}

\* CreateWithTemplate: a version that is not sequential is the time in whole seconds,
\* which two calls may share.  os.Stat refuses a name that is there already.
Create(sequential, ext) ==
    /\ Idle
    /\ Cardinality(dir) < MaxFiles /\ Unused(dir) # {}
    /\ IF sequential THEN CollectOK /\ UNCHANGED now
                     ELSE \E t \in Times : now <= t /\ t <= MaxVersion /\ now' = t
    /\ \E n \in NewNames :
           LET g == [version |-> IF sequential THEN NextVersion(Collected) ELSE now',
                     padded |-> sequential, name |-> n, ext |-> ext,
                     content |-> CHOOSE t \in Unused(dir) : TRUE]
           IN  /\ Base(g) \notin {Base(f) : f \in dir}
               /\ dir' = Put(dir, g)
    /\ UNCHANGED <<global, fixing, result>>

\* Fix collects the migrations; from then on it renames one file after the other.
Fix ==
    /\ Idle
    /\ CollectOK /\ timestamped(Collected) # <<>>
    /\ fixing' = [todo |-> timestamped(Collected), next |-> NextVersion(Collected)]
    /\ UNCHANGED <<dir, global, now, result>>

\* Fault: the newest timestamp is renamed first.
RenameNewest ==
    /\ fixing.todo # <<>>
    /\ dir' = {IF f.version = Last(fixing.todo).version
               THEN [f EXCEPT !.version = fixing.next, !.padded = TRUE] ELSE f : f \in dir}
    /\ fixing' = IF Len(fixing.todo) = 1 THEN NoFix
                 ELSE [todo |-> Front(fixing.todo), next |-> fixing.next + 1]
    /\ UNCHANGED <<global, now, result>>

\* os.Rename fails, which ends Fix, if the migration has no file here or if the
\* path of the directory holds the version: strings.Replace replaces that.
RenameNext ==
    /\ fixing.todo # <<>>
    /\ LET old == {f \in dir : /\ f.version = Head(fixing.todo).version /\ f.ext # "_test.go"
                               /\ f.version \notin PathVersions}
       IN  \/ /\ old = {}
              /\ fixing' = NoFix
              /\ UNCHANGED dir
           \/ \E f \in old :
              /\ dir' = Put(dir \ {f}, [f EXCEPT !.version = fixing.next, !.padded = TRUE])
              /\ fixing' = IF Len(fixing.todo) = 1 THEN NoFix
                           ELSE [todo |-> Tail(fixing.todo), next |-> fixing.next + 1]
    /\ UNCHANGED <<global, now, result>>

\* A rename fails, or the process ends between two of them.
FixStops ==
    /\ fixing # NoFix
    /\ fixing' = NoFix
    /\ UNCHANGED <<dir, global, now, result>>

\* The caller looks at the result.
Return ==
    /\ result # NoResult
    /\ result' = NoResult
    /\ UNCHANGED <<dir, global, fixing, now>>

-----------------------------------------------------------------------------
Init == /\ dir \in SUBSET InitialFiles
        /\ global = <<>>
        /\ fixing = NoFix
        /\ now = Today
        /\ result = NoResult

Next == \/ \E src \in GoSources : AddNamedMigration(src)
        \/ \E ms \in GoLists : SetGlobalMigrations(ms)
        \/ ResetGlobalMigrations
        \/ \E opts \in OptionLists, custom \in BOOLEAN : NewProvider(opts, custom)
        \/ CollectMigrations
        \/ \E sequential \in BOOLEAN, ext \in {"sql", "go"} : Create(sequential, ext)
        \/ Fix \/ RenameNext \/ FixStops \/ Return

Spec == Init /\ [][Next]_vars

-----------------------------------------------------------------------------
(* Properties *)

Built == result.call = "NewProvider" /\ result.ok

Settings == Configured(result.opts)

Versions(ms) == {m.version : m \in ToSet(ms)}

AllRegistered == DOMAIN Settings.registered
                 \cup (IF disableGlobalRegistry(Settings) THEN {} ELSE DOMAIN global)

\* The versions that WithExcludeVersions or, by the name of a file, WithExcludeNames
\* takes out.
Excluded == Settings.excludeVersions
            \cup {f.version : f \in {f \in dir : Base(f) \in Settings.excludePaths}}

\* What a Provider has to run is complete and unambiguous: every versioned file and
\* every registered Go migration that is not excluded is in its list once, no file
\* that is excluded and nothing else is, and the list is never empty.  Of registered
\* migrations that are excluded nothing is said: the code keeps them.
ListIsComplete ==
    Built =>
        LET files == {f \in dir : /\ f.ext # "_test.go" /\ HasVersion(f)
                                  /\ Base(f) \notin Settings.excludePaths
                                  /\ f.version \notin Settings.excludeVersions}
            found == {f.version : f \in files}
        IN  /\ Len(result.list) > 0
            /\ \A i, j \in DOMAIN result.list :
                   i # j => result.list[i].version # result.list[j].version
            /\ found \cup (AllRegistered \ Excluded) \subseteq Versions(result.list)
            /\ Versions(result.list) \subseteq found \cup AllRegistered
            /\ \A f \in files : \E m \in ToSet(result.list) :
                   m.version = f.version /\ m.type = f.ext

InVersionOrder(ms) == \A i, j \in DOMAIN ms : i < j => ms[i].version < ms[j].version

\* Names as Create and Fix write them: a number with a leading zero or a timestamp.
Written(f) == IF f.padded THEN f.version < PadLimit ELSE IsTimestamp(f)

\* The list of a Provider is in the order of the versions, which the run of up relies
\* on when versioning is disabled, if it has a Go migration or if its SQL files have
\* names as Create and Fix write them.  Of SQL files with other names alone (2_a.sql
\* and 10_b.sql) it is not: merge returns before it sorts.
ListInOrder ==
    /\ Built
    /\ \/ \E m \in ToSet(result.list) : m.type = "go"
       \/ \A f \in OfType(Sources(Settings), "sql") : Written(f)
    => InVersionOrder(result.list)

\* The order in which options are given never decides whether NewProvider accepts
\* them, and decides what they amount to only where two options of a kind of which
\* the last wins disagree.
OptionsCommute ==
    LET opts == result.opts
        reversed == Configured(Reverse(opts))
        disputed == {k \in LastWins : \E o, p \in ToSet(opts) :
                                         o.with = k /\ p.with = k /\ o.args # p.args}
    IN  /\ ConfigOK(Settings, result.custom) <=> ConfigOK(reversed, result.custom)
        /\ Settings.ok =>
               /\ Settings = [reversed EXCEPT !.last = Settings.last]
               /\ \A k \in LastWins \ disputed : Settings.last[k] = reversed.last[k]

Migrations(d) == {f \in d : f.ext # "_test.go" /\ HasVersion(f)}

\* Where both APIs accept the directory they see the same migrations, but for Go
\* migrations that are registered and have no file: CollectMigrations leaves them
\* out as soon as there is a versioned Go file.
APIsAgree ==
    Built /\ result.opts = <<>> /\ CollectOK =>
        LET missing == Versions(result.list) \ Versions(Collected)
        IN  /\ Versions(Collected) \subseteq Versions(result.list)
            /\ missing \subseteq DOMAIN global \ {f.version : f \in Migrations(dir)}
            /\ missing # {} => \E f \in OfType(dir, "go") : HasVersion(f)

\* Create and Fix, also one that was interrupted and started again, lose no file,
\* and two migrations have the same version only if they had it before or if the
\* clock has not moved on since Create last made a version of the time.
ToolsDoNotClash ==
    [][/\ {f.content : f \in dir} \subseteq {f.content : f \in dir'}
       /\ \A f, g \in Migrations(dir') : f # g /\ f.version = g.version =>
              \/ {f, g} \subseteq dir
              \/ fixing = NoFix /\ now' = now /\ f.version = now]_vars

\* Fix replaces timestamps one file at a time; after each step, and wherever it
\* is interrupted, the migrations are still in the order they had.
FixKeepsOrder ==
    [][\A f, g \in Migrations(dir), h, k \in Migrations(dir') :
           h.content = f.content /\ k.content = g.content /\ f.version < g.version
               => h.version < k.version]_vars
=============================================================================
