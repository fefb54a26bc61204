# A verification project for goose

goose applies and rolls back database migrations. This directory holds TLA+
models of the parts of it where processes, goroutines, the database and time
meet, and of the state machines that decide what is run, TLC configurations that
check them on small instances, and theorems that TLAPS checks for every value of
the constants.

## The system

| component | state | operations | modelled in |
|---|---|---|---|
| Provider calls (`provider.go`, `provider_run.go`) | version table, schema, `p.mu`, `versionTableOnce` | Up, UpByOne, UpTo, Down, DownTo, ApplyVersion, Status, HasPending, GetVersions, GetDBVersion | `Provider` |
| Version resolution (`internal/gooseutil/resolve.go`, `down`) | none | UpVersions, the walk over the history | `Resolve` |
| Provider resources (`initialize` and its cleanup) | `p.mu`, connection pool, lock, `l.mu` | one call from initialize to cleanup | `ProviderPool` |
| Session locker (`lock/postgres.go`) | advisory lock of a PostgreSQL session | SessionLock, SessionUnlock | `ProviderPool` |
| Table locker (`lock/internal/table`, `lock/internal/store`) | lock row with lease, `l.mu`, heartbeat, retry budgets | Lock, Unlock, heartbeat, stale lock clean-up | `TableLocker` |
| Lock interfaces (`lock/locker.go`) | who holds the lock | Lock, Unlock | `MutexLock` |
| Version store (`database/`, `internal/dialects`) | rows of the version table | Insert, Delete, GetMigration, ListMigrations, TableExists | inside `Provider` |
| Provider construction (`provider_options.go`, `provider_collect.go`, `newProvider`) | options, list of migrations | NewProvider: apply options, collect, merge, sort | `Collect` |
| Go migration registry (`globals.go`, `register.go`) | registered Go migrations | AddNamedMigrationContext, SetGlobalMigrations, ResetGlobalMigrations | `Collect`, `Legacy` |
| File tools (`create.go`, `fix.go`) | the directory of migrations | Create, Fix | `Collect` |
| SQL parser (`internal/sqlparser`) | parser state, buffer, statements | ParseAllFromFS, ParseSQLMigration | `SQLParser` |
| Legacy API (`up.go`, `down.go`, `redo.go`, `reset.go`, `migrate.go`, `migration.go`, ...) | version table, `noVersioning` of registered Go migrations | Up, UpByOne, UpTo, Down, DownTo, Redo, Reset, Status, Version | `Legacy` |
| Docker helper (`pkg/dockermanage`) | containers of a daemon | Start, Stop, Remove, WaitReady, StopManaged, RemoveManaged | `Containers` |
| statistics, command line, test support | none | | not modelled |

How they interact: a Provider call runs `initialize`, which takes `p.mu`, a
dedicated connection and, if a locker is configured, the lock. It makes sure
that the version table exists (once per Provider), lists the recorded versions,
resolves what to run, prepares (parses) all of it and runs the migrations one
by one, each together with its version row if it uses a transaction. The
deferred cleanup releases `p.mu`, then the lock, then the connection. Up,
UpByOne and UpTo ask HasPending first, in an `initialize` of its own without
the lock. What there is to run was decided earlier: by the options, files and
registered Go migrations when the Provider was built, and by the parser when a
migration is prepared. The session locker keeps its lock on the call's connection;
the table locker keeps a row with a lease that a heartbeat goroutine renews
through the pool.

What is hard: processes that race for the lock, for the version table and for
the history; statements whose result is lost; crashes between a migration and
its row; leases that run out while their holder works; and waiting for mutexes
and pool connections in the wrong order; options, files and registrations that
contradict each other; annotations in an order nobody thought of; calls that
fail half way and leave files, registrations or containers behind. `PROJECT.json`
lists these hazards at their lines.

## Modules

* `MutexLock` — what the Provider expects of a lock: at most one holder.
* `TableLocker` — processes with a Locker each, goroutines that share one.
  Each SQL statement on the lock row is one step; the mutex, the bounded
  retries, the heartbeat and the caller's context are modelled around it. The
  lease is kept relative to the database's clock (`ttl`), so the clock needs no
  bound. `Tick` is one tick of that clock. `Lease` is what `int(d.Seconds())`
  makes of the configured duration. `RetriesAtStart` leaves open whether a
  shared `retry.Backoff` starts afresh at each `retry.Do`.
* `VersionLists` — sorted lists, and what is kept of a list. The i-th element of a
  sorted list is the one with i - 1 elements below it: unlike a fold over a set,
  that can be proved about.
* `Resolve` — pure operators: `UpVersions`, `DownVersions`.
* `Provider` — calls of Providers in several processes on top of the abstract
  lock. `rows` is the version table in insertion order; `schema` says what is
  left of each migration; `twice` records migrations that ran on top of
  themselves. A transaction is one step that happens, is rolled back, or
  happens and loses its result; outside a transaction the statements and the
  row are two steps. `up`, `down` and `apply` compute what the function of that
  name hands to `runMigrations`. `once` is what became of the one attempt of a
  Provider to make sure of the version table.
* `ProviderPool` — the same calls seen as users of resources: `p.mu`, `l.mu`,
  the connections of the pool and the advisory lock on their sessions. What a
  migration does is reduced to whether it needs a second connection. A dedicated
  connection may break at any time (`broken`): the lock of its session is gone at
  once, and the call notices at its next statement on that connection (`unseen`:
  it has not noticed yet). SessionLock and SessionUnlock may also return an error
  on a session that lives on, after their statement took effect or not; `errors`
  counts these.
* `Legacy` — the package-level functions, which use neither `p.mu` nor a lock.
  Calls that run migrations do not overlap in the model, because the API leaves
  that to its callers; Status and Version, which may create the version table,
  do. `noVersioning` is the flag of the registered `*Migration` objects, which
  outlive a call. `Kind` says what a version is in each direction; `UseTx` is one
  flag for both, and `Skipped` the direction that `run` does not find because of it.
  `start` is the version table when a call began; `Promise` says what a successful
  call makes of it.
* `SQLParser` — both passes of ParseAllFromFS over one file, line by line. A line
  is its kind: an annotation, SQL that ends a statement or does not, or does only
  after substitution, a comment, white space or nothing. A statement is the set of
  its lines. `Scan` is the body of the loop, split where the code has its switches.
  The reference is defined from the whole file, without states: its statements
  (`Statements`), whether it may go on to a file without mistakes (`Viable`) and
  whether it is one (`WellFormed`).
* `Collect` — the directory, the global registry and the options of NewProvider;
  NewProvider and CollectMigrations, which read them; Create and Fix, which change
  the directory. A file has the parts of its name (version, padded with zeros or
  not, the rest, extension) and a content, which tells it apart whatever its name.
  `LexOrder` is the order of `fs.Glob`; `Times` are the numbers that `time.Parse`
  accepts. Fix is one step per renamed file and may stop between two. `now` is the
  clock in whole seconds, seen only by Create: it need not move on between two
  calls. `Configured` applies the options one after the other, as NewProvider does,
  with their values; of options of one kind that set a value the last wins
  (`LastWins`).
* `Containers` — callers of one Docker daemon. Every request is a step that
  succeeds, fails, or takes effect and loses its answer, the last also because its
  context was cancelled. `faults` records what befell a container: `unanswered`
  (its creation), `refused` (a removal with a context that is not cancelled),
  `orphaned` (its process died) and `interrupted` (the context was cancelled while
  `dockerpostgres.Start` had it).
* `TableLockerProofs`, `VersionListsProofs`, `ProviderProofs`,
  `ProviderPoolProofs`, `LegacyProofs`, `SQLParserProofs`, `CollectProofs`,
  `ContainersProofs` — see Proofs.
* `TableLockerMC`, `ProviderMC`, `ProviderPoolMC`, `LegacyMC`, `SQLParserMC`,
  `CollectMC`, `ContainersMC` — instances for TLC.

Definitions whose comment begins with "Fault:" are not part of a model: each is
a plausible mistake in one definition, with which the named property fails.

`Provider` assumes the lock of `MutexLock`. `TableLocker` implements it
(`ImplementsMutex`), and so does the session locker on pooled connections
(`ImplementsMutex` of `ProviderPool`); both refinements are checked and proved. In
`ProviderPool` the table lock itself is assumed exclusive, as shown in
`TableLocker`.

## Runs that pass

Bounds: two processes, two or three goroutines, two or three migrations are the
smallest instances in which processes race, goroutines share an object, and a
release knows a migration the other does not. Retries are bounded by 1 to 3: one
retry already separates the first attempt, a repeated one and giving up. Seven
lines hold a block and a statement in Up and a statement in Down; of the
lines that neither delimit nor are SQL two are enough to stand before and inside
a statement. Of the five files of `Collect` two have versions that sort differently
as names, two have one version, one has a timestamp and one no version; Create adds
to directories of less than three, which holds two Creates in one second, and Fix
with two renames; options are given alone and in pairs that have something to do
with each other, the same one twice included. One error of the session locker at a
time (`MaxErrors`) leaves a lock in the pool or takes one that nobody knows of.

The lease of `TableLockerSafe` is one and a half seconds, of which the database
is told one.

| run | what it shows |
|---|---|
| `TableLockerSafe` | If the lease spans the heartbeats that may fail in a row, two processes with three goroutines never hold the lock together, through faults, lost results and crashes; the lock is a `MutexLock`. Every Lock returns, and the row of a dead process is taken over by whoever keeps trying. |
| `TableLockerHostile` | Heartbeats fail longer than the lease and contexts are cancelled: mutex discipline, no heartbeat after Unlock, no live lease taken away. Mutual exclusion is not claimed here: the code has no fencing. |
| `ProviderLocked` | Two releases, with lock, failures and crashes: version table and schema agree, nothing twice, history ordered, success means complete and nothing beyond the target, results are recorded, every call returns. |
| `ProviderShared` | Two goroutines that share a Provider without a locker, with isolateDDL (migration and row are two steps), out-of-order migrations and ApplyVersion, a dialect without TableExists, and a migration that does not parse. A call that goes on after ensureVersionTable finds a usable version table, unless the one attempt of its Provider failed. |
| `Pool` | Four setups in one run: a session locker with one and with two connections, a table locker with one connection more than goroutines, no locker with isolateDDL. The session locker is a `MutexLock`; a session has the advisory lock for the call that was given it and at most once more for every error of SessionLock or SessionUnlock; a call whose lock ended with its session returns an error; no path leaves a mutex or connection behind; every call returns. |
| `LegacyService` | Two releases of a service, one with a migration merged late, and a tool without versioning, with failures and crashes: rows and schema agree (not of a Go migration with RunTx in one direction and RunDB in the other, see below), version 0 stays and no version is recorded twice, successful calls keep their promise, and DownTo's loop ends. |
| `Parser` | Every file of up to seven lines is split as the reference says and accepted exactly if it is well formed, and a mistake is refused at the line that makes it, files with an empty block excepted; there the damage is bounded. Nothing is said of a comment behind white space after the last statement of a section (`Stranded`, see below). The two passes, whose states differ, agree on transaction, section and block, so that taking UseTx from one of them is sound. |
| `Collect` | A Provider that is built has every versioned file and every registered migration that is not excluded once, no excluded file and nothing else. Its list is in the order of versions if there is a Go migration or if the names are as Create and Fix write them. The order of options decides nothing but which of two that disagree is the last. Both APIs see the same migrations, but for registered ones that have no file. Create and Fix, also one that was interrupted, lose no file, keep the order, and give a version twice only if two Creates fall into one second. |
| `Containers` | Two callers, two containers: once the creation is answered, Manager.Start, cancelled or failed at any request, leaves no container that nobody knows, unless the daemon refuses the removal or the process dies; StopManaged and RemoveManaged deal with all they found. |

`InStep` compares the version table with the schema. Outside a transaction a
failure or a crash between a migration and its row puts them out of step, which
no code could avoid; the history variable `disturbed` names the migrations to
which that happened, and the property is about all others.

Fairness. Goroutines are scheduled and statements end (weak fairness of every
step). `sync.Mutex` hands a starving waiter the mutex and `database/sql` hands
connections to waiters, hence strong fairness where a step waits for either.
A holder calls Unlock, because cleanup is deferred. Nothing is assumed of
crashes, failures or cancellations, nor of who wins the lock: a Lock that loses
every race ends with an error.

## Runs that show a disagreement

Each checks one property that a comment or test of the repository states.

| run | what happens |
|---|---|
| `ProviderGoTx` | With isolateDDL a Go migration registered for a transaction is recorded and not run. |
| `PoolTableTwo` | Table locker, two connections: two goroutines of one Provider wait for each other. |
| `ParserEmptyBlock` | After a block without SQL the next line of SQL is dropped and an empty statement takes its place: the StatementEnd line is taken for a leading comment, so the block does not end. |

The models have more behaviours of which a comment says otherwise, or which a
reader would not expect, and which no run of its own shows. Where a property would
be false because of one, it names the exception.

* Locks. A lease below one second is truncated to zero: with `Second = 4` and
  `LeaseDuration = 3` in `TableLockerSafe.cfg` two processes hold the lock. A table
  locker on one connection stops in Lock with a single caller. A transactional Go
  migration under isolateDDL passes the guard of `prepareMigration` and waits for a
  second connection, and so does a Go migration outside a transaction without a
  locker. If pg_try_advisory_lock is granted and its answer is lost, SessionLock
  returns an error and the first cleanup (`provider_run.go:295`) puts the connection
  back without unlocking: the lock stays with the session.
* Provider. `sync.Once` is used up by a failed attempt to create the version table,
  and later calls go on without one. With isolateDDL a process may find the
  version table without its zero version. Without versioning DownTo ignores its
  version (`provider.go:434`). Down fails when the file of an older applied
  migration is gone, although it needs only the newest one. UpTo fails because of
  a missing migration above its target, since HasPending resolves with
  `math.MaxInt64`.
* Legacy. WithNoVersioning stays on the registered object: in a process that uses
  both modes, DownTo rolls back such a Go migration for ever (`up.go:150`). That
  process is outside `LegacyService`. NewGoMigration sets UseTx if either direction
  is a RunTx (`migration.go:60`); `run` then skips a direction registered as RunDB
  without an error and writes or deletes its row (`migration.go:246`). `InStep`
  leaves such migrations out (`Mixed`).
* Collect. Without Go migrations the list is in the order of file names, not of
  versions (`provider_collect.go:126`), although `provider.go:37` and `:192` say that
  it is ordered by version: 10_b.sql comes before 2_a.sql. `ListInOrder` names the
  lists for which it is true. The exclusions apply to files: a registered Go
  migration whose version is excluded stays in the list, although
  `provider_options.go:132` says that WithExcludeVersions excludes it;
  `ListIsComplete` says nothing of it. Two Creates in one second give two files one
  version (`create.go:29`), and both APIs then refuse the directory. Fix replaces the
  first occurrence of the version in the whole path (`fix.go:38`): if the directory's
  own path holds it, the rename fails or, where the changed path exists, moves the
  file there. `register` ignores the error of NumericComponent and
  registers version 0. SetGlobalMigrations leaves what it had registered before an
  error. CollectMigrations fails for a Go migration registered without a source,
  until a NewProvider has filled it in from a file; and it includes unregistered Go
  files, of which the comment at `migrate.go:296` says that they raise an error.
* Parser. A line of white space in front of a trailing comment makes the comment
  part of a statement, and the file is refused as unfinished, although the comment
  at `parser.go:197` says that comments outside a statement are ignored.
* Containers. `dockerpostgres.Start` removes a container that did not become ready
  with the caller's context (`postgres.go:206`): if that was cancelled, the container
  stays. A container that the daemon creates while the context is cancelled stays as
  well: the removal is deferred only after the answer (`manager.go:109`).
  StopManaged does not stop a container that is created but not yet started.

`PoolTableTwo` switches TLC's deadlock check off because the system really stops
there; its contexts have no deadline. With a deadline the caller gets out of
the waits for the pool in Conn and Lock, but not out of `l.mu.Lock()` nor of
Unlock, which uses `context.WithoutCancel`.

## Proofs

Every theorem is about the specification that TLC checks, for every value of the
constants that the module's `ASSUME` allows: any number of processes, goroutines,
connections, versions, files, lines, options and containers. The argument is always the same: an inductive
invariant that the initial states have and every step keeps, from which the
property follows. TLC had checked each invariant before it was proved.

**`TableLockerProofs`.** In every configuration: `TypeOK`, `MutexDiscipline`,
`NoOrphanHeartbeat` and the action property `LeaseIsRespected`. In a safe
configuration (`SafeConfig`: `(MaxFailures + 1) * HeartbeatInterval <= Lease`, no
cancelled context): `HolderIsCovered`, `MutualExclusion` and the refinement
`ImplementsMutex`. Mutual exclusion is not inductive: nothing in it says why
another process cannot take the row. `HolderIsCovered` does: a holder owns the
row, its heartbeat runs, and the lease lasts to the next heartbeat plus the
failures still allowed (`Reserve`). A tick lowers both sides by one, a failed
heartbeat trades an interval for a failure, a successful one restores the lease,
which is where `SafeConfig` is needed. With `MutexDiscipline` (two holders of one
process would share a mutex) exclusion follows.

**`VersionListsProofs`.** Lemmas. A sorted list has exactly the elements of its
set, each once and in order; what is kept of a list stays in its order; a list
without a version keeps the rest.

**`ProviderProofs`.** First what the version resolution returns: `UpVersions` what
is known, not recorded and not above the target, in order and, unless out-of-order
migrations are allowed, above the history; `DownVersions` recorded versions above
the target, the newest first. Then `TypeOK`, and `Sound`: `p.mu` and the lock are held exactly
in the places where the code is inside them, and the version table has no rows
before it exists. From it follows `Exclusion`: if calls are kept apart by a lock,
or all are of one Provider (`Serial`), at most one of them is in charge of the
history, that is between reading the version table and cleanup.

The rest of the module builds on `Sound`.

| property | hypotheses | inductive invariant |
|---|---|---|
| `BrokenBlocksAll` | none | `Unbroken`: what was prepared and what was done is not broken |
| `EnsuredMeansUsable` | a database that answers TableExists creates the table together with its zero version | `Bootstrapped` |
| `ResultsAreRecorded` | `Serial`, versioning on | `PlansHold`: rows are distinct, what is left to run fits the version table it was made from, what was done shows in it |
| `ExactlyOnce` | `Serial`, versioning on | `PlansHold`, `AtomicInStep` |
| `InStep` | the same, and no migration that isolateDDL skips | `PlansHold`, `AtRecord` |
| `InOrder` | `Serial`, versioning on, no ApplyVersion up | `Ordered`: rows ascend, and what is left to run ascends above them |
| `CallIsComplete` | `Serial`, versioning on, out-of-order migrations or no ApplyVersion up | `PlansHold`, `Ordered`, `Progress` |

The hypotheses are those under which goose makes these promises. Without a lock
two processes run the same plan; without versioning there is nothing to agree with;
a transactional Go migration under isolateDDL is recorded and not run (run
`ProviderGoTx`); ApplyVersion puts any version at the end of the history; and
where TableExists is asked and the two statements of the version table are not
one transaction, another process goes on between them. The runs instantiate both
sides of `AllowMissing` and of `LockEnabled`.

**`ProviderPoolProofs`**, without hypotheses: `NothingLeftBehind`,
`AdvisoryIsBounded`, `LossIsReported` and the refinement `ImplementsMutex`. The
invariant says which connection, lock and mutex a call has in each of its places;
that a session has the advisory lock at least once if the call on its connection has
the lock, and beyond that at most once for every error (`Accounts`); that at most one
call has the lock (`AtMostOne`); and that who has not noticed the end of its session
still has to unlock (`UnseenDiscipline`). The lower bound is what mutual exclusion
needs: SessionLock succeeds only where no session of another connection has the lock,
so no call on another connection can hold it, and a connection has one call. A broken
connection takes its session's lock along, which is a Release of the abstract lock.

**`LegacyProofs`.** `RowsAreSound` and `InStep` (which leaves out `Mixed`
migrations, see above) without hypotheses;
`CallKeepsPromise` if a process with Go migrations keeps to one mode (`Unmixed`),
since `run(noVersioning)` sticks to the registered object (see above). `Locals`
says what a call's variables hold in its places and that calls that run migrations
do not overlap; `Fits`, that the rest of a plan applies only versions that are not
recorded; `Kept`, how far each call has got with what it promises (`Underway`).
Status and Version of other processes may create the version table at any time:
it then has only the zero version, which no promise is about. `InStep` also holds
in a process that uses both modes, because a migration marked `noVersioning` had
run without versioning (`Sticky`), and the property leaves those out.

**`SQLParserProofs`**, without hypotheses, for files of every length:
`DirectionsAgree`, `SplitAsWritten`, `LossIsBounded` and the action property
`AcceptsWellFormed`. The states of the two passes differ, since only one of them
stores the statement a line ends; they stand for the same place in the file
(`Place`: before Up, in a section, in a block of it) with the same switches
(`BothAgree`). For the rest the parsers, which go line by line, have to be compared
with a definition over the whole file. The lemmas called `Longer...` say what one
more line does to each part of the reference, `Outcomes` what it does to a parser:
it refuses the line, or keeps, drops, extends or stores what it has, or misses the
end of an empty block, or swallows the line after one. The invariant `ParserInv` puts the two side by side: state and
switches are those of the place, the buffer is text that nothing has closed, every
line of SQL is buffered, in a statement, or one that an empty block swallowed
(`Accounted`), and without an empty block buffer and statements are exactly the
reference's (`Exact`). `SplitAsWritten` alone is about the end of the file and
says nothing of the buffer on the way. What the buffer keeps beyond SQL is white space
and the comments behind it, whence the exception of `Stranded` in `AcceptsWellFormed`.

**`ContainersProofs`**, without hypotheses: `NothingForgotten` and
`ManagedIsThorough`. A container only moves on, from created over running and
exited to removed (`MovesOn`), so that what StopManaged and RemoveManaged are
through with stays as they left it. `NothingForgotten` needs `Interrupted`: a caller
with a cancelled context that waits for a container, or is about to remove it, is on
record, so that only `dockerpostgres.Start` can lose one to a cancellation.

**`CollectProofs`**: all six properties of `Collect`, for directories, registries
and lists of options of every size, from four assumptions on the constants.
`FilesAssumption`: files have different names and contents, and the clock is past
the epoch and the timestamps in the directory. `GlobAssumption`: names with a leading
zero sort as their numbers do and come before timestamps. `ArgumentsAssumption`:
arguments have the types that Go gives them. `SequentialAssumption`: versions that
were not given by Create or Fix are timestamps or so far below them that all files
can be numbered, which the code assumes as well ("assume that the user will never
have more than 19700101000000 migrations", `migrate.go:105`).

* `ToolsDoNotClash` and `FixKeepsOrder` follow from `Inv`. Neither is inductive:
  the version that Create or Fix gives is new only if it stays below the
  timestamps. `Room` says that it does, because a sequential version is at most as
  far above the given ones as there are files with one. `FixFits` says of a Fix under way
  that the next version is above all sequential ones and that the timestamps that
  are left are those still to be renamed, the oldest first; a Fix that was
  interrupted starts again with what it finds. So a step that changes the directory
  adds a file, whose version is new unless it is that of the second in which Create
  was last called (`Adds`), or gives the oldest timestamp a version above all
  sequential ones (`Renames`). That `os.Create` and `os.Rename` hit no other file is
  a consequence, not an assumption.
* `ListIsComplete`, `ListInOrder` and `APIsAgree` hold of the step that ends
  NewProvider, and no step changes files or registry before its caller has looked
  at the result. What is in the lists follows from the lemmas on sorted lists.
* `OptionsCommute` needs an order-free account of a list of options: `Acceptable`
  says when the options at some positions go together (one locker, no name or
  version twice, ...), `Makes` what they amount to; of an option of which the last
  wins only that it is one of its kind (`MakesLast`). One more option makes one more
  position true or is refused (`OptionStep`), and a refusal is for good
  (`NeverAgain`), so `Configured` is decided by the set of all positions
  (`ConfiguredExact`). The induction over the list is by a least counterexample,
  since induction theorems with an operator as a parameter are out of the prover's
  reach. Reordering keeps `Acceptable` and `Makes` (`Reordered`).

Only model-checked: liveness (fairness and ENABLED are out of the prover's reach)
and the three disagreements.

## Abstractions

* SQL text, file formats, logging and durations of migrations are left out; a
  migration is its kind (SQL or Go, in a transaction or not).
* MySQL's lock statements are transactions of several statements; they are one
  step, and their failures are faults.
* `CREATE TABLE` fails on an existing table; ClickHouse and StarRocks use
  `IF NOT EXISTS`, which is not modelled.
* A late heartbeat is one that fails: `Tick` does not pass a heartbeat that is
  due, and the code from taking the row to starting the ticker takes no time.
* `Legacy` runs on a database that rolls back DDL, and on a version table
  without the `is_applied = false` rows that old releases wrote.
* A second connection for `*sql.DB` is used and given back in one step.
* `CheckLockStatus` of the lock store is not called by the locker.
* Calls of `Collect` do not overlap; two sequential Creates at once are not modelled.
* A padded version has a leading zero below `PadLimit` (10000 in the code, whose
  format is `%05v`); of a longer one nothing is said. `PathVersions` are the versions
  that the path of the directory holds; Fix ends there, and a file is not moved into
  another directory.
* In `TableLocker` stopHeartbeat and its wait are one step, and so is UpdateLease: a
  heartbeat that is under way when Unlock begins has ended before or after it.
* The kind of a SQL line says how the parser classifies it after substitution;
  which words make it so is left out. A line that is too long for the scanner is a
  read error.

## Not modelled

* Statistics, command line and test support keep no state and call what the
  modules model.
* The SQL of the dialects: the version store is what its operations do to rows.
* `Exec` of the Docker helper, which copies streams, and the values of options.
* Templates and the casing of names in Create.

## Plan

Every safety property of a passing run is proved. What is left is to follow the
code: a change of `src/` that a mapped definition stands for has to be made there,
and the run and the proof of its module repeated.
