------------------------------ MODULE Provider ------------------------------
(***************************************************************************)
(* The Provider of provider.go and provider_run.go: processes that apply   *)
(* and roll back migrations on one database, each with goroutines that     *)
(* share a Provider and its mutex.                                         *)
(*                                                                         *)
(* The lock is the abstract one of MutexLock, which TableLocker is shown   *)
(* to implement.  The database is the version table (the recorded versions *)
(* in insertion order, which is what ListMigrations returns newest first)  *)
(* and the schema the migrations work on.  A migration in a transaction is *)
(* one atomic step with its version row; one outside a transaction is two. *)
(***************************************************************************)
EXTENDS Naturals, Sequences, FiniteSets, SequencesExt, Resolve

CONSTANTS Providers,     \* Provider objects, each in a process of its own
          Workers,       \* the goroutines that call them
          ProviderOf,    \* the Provider each goroutine uses
          NoOne,         \* "no goroutine": p.mu is not held
          Migrations,    \* p.migrations: the versions a Provider knows, in order
          Kind,          \* "sqlTx", "sqlNoTx", "goTx" or "goNoTx" of a version
          Broken,        \* the versions that prepareMigration rejects
          Ops,           \* the calls that are made
          MaxVersion,    \* math.MaxInt64: no version is above it
          EnsureRetries, \* retries of tryEnsureVersionTable (3 in the code)
          LockEnabled, AllowMissing, DisableVersioning, IsolateDDL,
          TableExistsSupported, \* does the dialect answer TableExists?
          TransactionalDDL,     \* can the database roll back CREATE TABLE?
          MayFail,       \* may a statement against the database fail?
          MayCrash       \* may a process die?

Versions == UNION {ToSet(Migrations[p]) : p \in Providers}

\* The calls of the API; versions are int64.
Op == [kind : {"up", "upByOne", "down", "status", "hasPending", "getVersions",
               "getDBVersion"}]
      \cup [kind : {"upTo", "downTo"}, version : 0..MaxVersion]
      \cup [kind : {"apply"}, version : 0..MaxVersion, up : BOOLEAN]

ASSUME ProviderAssumption ==
    /\ ProviderOf \in [Workers -> Providers]
    /\ NoOne \notin Workers
    /\ MaxVersion \in Nat
    /\ Migrations \in [Providers -> Seq(1..MaxVersion) \ {<<>>}]
    /\ Kind \in [Versions -> {"sqlTx", "sqlNoTx", "goTx", "goNoTx"}]
    /\ Ops \subseteq Op
    /\ EnsureRetries \in Nat
    /\ {LockEnabled, AllowMissing, DisableVersioning, IsolateDDL,
        TableExistsSupported, TransactionalDDL, MayFail, MayCrash} \subseteq BOOLEAN

VARIABLES table,    \* does the version table exist?
          rows,     \* the versions recorded in it, oldest first
          schema,   \* what is left of each migration in the database
          twice,    \* history: up migrations that ran on top of themselves
          disturbed, \* history: runs outside a transaction that failed or died
          mu,       \* the goroutine that holds p.mu
          once,     \* has p.versionTableOnce been used, and by what?
          holders,  \* the goroutines that hold the lock
          pc, op, phase, plan, done, tries, ret  \* of each goroutine

db     == <<table, rows, schema, twice, disturbed>>
call   == <<op, phase, plan, done, tries>>
vars   == <<db, mu, once, holders, pc, call, ret>>

-----------------------------------------------------------------------------
(* Helpers *)

UpKinds == {"up", "upByOne", "upTo"}
Unlocked == {"hasPending", "getVersions"}  \* calls that never use the lock
ByOne(o) == o.kind \in {"upByOne", "down", "apply"}
IsUp(o) == o.kind \in UpKinds \/ (o.kind = "apply" /\ o.up)
Target(o) == CASE o.kind \in {"up", "upByOne"} -> MaxVersion
               [] o.kind = "down" -> 0
               [] OTHER -> o.version

Known(w) == ToSet(Migrations[ProviderOf[w]])

\* useTx
useTx(v) == Kind[v] \in {"sqlTx", "goTx"}

\* The migration and its version row are committed together.
Atomic(v) == useTx(v) /\ ~IsolateDDL /\ TransactionalDDL

\* runGo on a *sql.DB calls RunDB only: a Go function registered for a
\* transaction is not run when isolateDDL sends it there.
RunsNothing(v) == Kind[v] = "goTx" /\ IsolateDDL

Goto(w, l) == pc' = [pc EXCEPT ![w] = l]

\* The local state of no call.
Fresh == [op |-> [kind |-> "none"], phase |-> "run", plan |-> <<>>,
          done |-> <<>>, tries |-> 0, ret |-> "none"]

\* The goroutines in S return (or end), and their locals are gone.
Return(S) ==
    /\ pc' = [w \in Workers |-> IF w \in S THEN "idle" ELSE pc[w]]
    /\ op' = [w \in Workers |-> IF w \in S THEN Fresh.op ELSE op[w]]
    /\ phase' = [w \in Workers |-> IF w \in S THEN Fresh.phase ELSE phase[w]]
    /\ plan' = [w \in Workers |-> IF w \in S THEN Fresh.plan ELSE plan[w]]
    /\ done' = [w \in Workers |-> IF w \in S THEN Fresh.done ELSE done[w]]
    /\ tries' = [w \in Workers |-> IF w \in S THEN Fresh.tries ELSE tries[w]]
    /\ ret' = [w \in Workers |-> IF w \in S THEN Fresh.ret ELSE ret[w]]

\* Leave through the deferred cleanup with a result.
Finish(w, r) == Goto(w, "cleanup") /\ ret' = [ret EXCEPT ![w] = r]

\* What executing the statements of version v leaves behind.
Executed(v, upwards) == [schema EXCEPT ![v] = IF upwards THEN "applied" ELSE "none"]
RanTwice(v, upwards) == IF upwards /\ schema[v] = "applied" THEN twice \cup {v} ELSE twice

\* maybeInsertOrDelete: Delete removes every row of the version.
Recorded(v, upwards) == IF DisableVersioning THEN rows
                        ELSE IF upwards THEN Append(rows, v)
                        ELSE Without(rows, v)

-----------------------------------------------------------------------------
Init == /\ table = FALSE
        /\ rows = <<>>
        /\ schema = [v \in Versions |-> "none"]
        /\ twice = {}
        /\ disturbed = {}
        /\ mu = [p \in Providers |-> NoOne]
        /\ once = [p \in Providers |-> "unused"]
        /\ holders = {}
        /\ pc = [w \in Workers |-> "idle"]
        /\ op = [w \in Workers |-> Fresh.op]
        /\ phase = [w \in Workers |-> Fresh.phase]
        /\ plan = [w \in Workers |-> Fresh.plan]
        /\ done = [w \in Workers |-> Fresh.done]
        /\ tries = [w \in Workers |-> Fresh.tries]
        /\ ret = [w \in Workers |-> Fresh.ret]

-----------------------------------------------------------------------------
(* The calls *)

\* Up, UpByOne and UpTo ask HasPending first, without the lock.
Call(w) ==
    /\ pc[w] = "idle"
    /\ \E o \in Ops :
          /\ o.kind = "apply" => o.version \in Known(w)
          /\ o.kind = "getDBVersion" => ~DisableVersioning
          /\ op' = [op EXCEPT ![w] = o]
          /\ phase' = [phase EXCEPT ![w] = IF o.kind \in UpKinds \cup Unlocked
                                           THEN "pending" ELSE "run"]
    /\ Goto(w, "mu")
    /\ UNCHANGED <<db, mu, once, holders, plan, done, tries, ret>>

-----------------------------------------------------------------------------
(* initialize *)

AfterLock(w) == IF DisableVersioning \/ once[ProviderOf[w]] # "unused" THEN "list"
                ELSE "ensure"

\* Fault: initialize does not take the lock.
LockMuOnly(w) ==
    /\ pc[w] = "mu"
    /\ mu[ProviderOf[w]] = NoOne
    /\ mu' = [mu EXCEPT ![ProviderOf[w]] = w]
    /\ Goto(w, AfterLock(w))
    /\ UNCHANGED <<db, once, holders, call, ret>>

\* Fault: initialize does not take p.mu.
LockMuSkipped(w) ==
    /\ pc[w] = "mu"
    /\ Goto(w, IF phase[w] = "run" /\ LockEnabled THEN "lock" ELSE AfterLock(w))
    /\ UNCHANGED <<db, mu, once, holders, call, ret>>

\* p.mu.Lock() and p.db.Conn()
LockMu(w) ==
    /\ pc[w] = "mu"
    /\ mu[ProviderOf[w]] = NoOne
    /\ mu' = [mu EXCEPT ![ProviderOf[w]] = w]
    /\ Goto(w, IF phase[w] = "run" /\ LockEnabled THEN "lock" ELSE AfterLock(w))
    /\ UNCHANGED <<db, once, holders, call, ret>>

\* No connection: p.mu is released and the error returned.
ConnFails(w) ==
    /\ pc[w] = "mu"
    /\ MayFail
    /\ mu[ProviderOf[w]] = NoOne
    /\ Return({w})
    /\ UNCHANGED <<db, mu, once, holders>>

\* Fault: the lock is given to a second goroutine.
AcquireLockShared(w) ==
    /\ pc[w] = "lock"
    /\ holders' = holders \cup {w}
    /\ Goto(w, AfterLock(w))
    /\ UNCHANGED <<db, mu, once, call, ret>>

\* SessionLock or Locker.Lock
AcquireLock(w) ==
    /\ pc[w] = "lock"
    /\ holders = {}
    /\ holders' = {w}
    /\ Goto(w, AfterLock(w))
    /\ UNCHANGED <<db, mu, once, call, ret>>

\* The lock stays busy longer than the retries last, or the locker fails.
LockFails(w) ==
    /\ pc[w] = "lock"
    /\ holders # {} \/ MayFail
    /\ Finish(w, "err")
    /\ UNCHANGED <<db, mu, once, holders, call>>

\* The sync.Once is used up by an attempt that failed as by one that succeeded.
UseOnce(w, result) == /\ once' = [once EXCEPT ![ProviderOf[w]] = result]
                      /\ tries' = [tries EXCEPT ![w] = 0]

\* Fault: a version table without the zero version is taken for ready.
TableFoundEmpty == table

\* tryEnsureVersionTable: TableExists, or a look for the zero version.
TableFound == table /\ (TableExistsSupported \/ 0 \in ToSet(rows))

CheckTable(w) ==
    /\ pc[w] = "ensure"
    /\ \/ TableFound /\ UseOnce(w, "ok") /\ Goto(w, "list")
       \/ ~TableFound /\ Goto(w, "create") /\ UNCHANGED <<once, tries>>
    /\ UNCHANGED <<db, mu, holders, op, phase, plan, done, ret>>

\* An error of TableExists is final, one of GetMigration(0) is taken for a
\* missing table.
CheckTableFails(w) ==
    /\ pc[w] = "ensure"
    /\ MayFail
    /\ \/ TableExistsSupported /\ UseOnce(w, "err") /\ Finish(w, "err")
       \/ ~TableExistsSupported /\ Goto(w, "create") /\ UNCHANGED <<once, tries, ret>>
    /\ UNCHANGED <<db, mu, holders, op, phase, plan, done>>

\* CREATE TABLE and the zero version, in one transaction ...
CreateVersionTable(w) ==
    /\ pc[w] = "create"
    /\ ~table
    /\ ~IsolateDDL /\ TransactionalDDL
    /\ table' = TRUE
    /\ rows' = <<0>>
    /\ UseOnce(w, "ok")
    /\ Goto(w, "list")
    /\ UNCHANGED <<schema, twice, disturbed, mu, holders, op, phase, plan, done, ret>>

\* ... or one after the other.
CreateTableOnly(w) ==
    /\ pc[w] = "create"
    /\ ~table
    /\ IsolateDDL \/ ~TransactionalDDL
    /\ table' = TRUE
    /\ Goto(w, "insertZero")
    /\ UNCHANGED <<rows, schema, twice, disturbed, mu, once, holders, call, ret>>

InsertZero(w) ==
    /\ pc[w] = "insertZero"
    /\ rows' = Append(rows, 0)
    /\ UseOnce(w, "ok")
    /\ Goto(w, "list")
    /\ UNCHANGED <<table, schema, twice, disturbed, mu, holders, op, phase, plan, done, ret>>

\* Fault: one retry too many.
CreateFailsOnce(w) ==
    /\ pc[w] = "create" /\ (table \/ MayFail)
    /\ IF tries[w] <= EnsureRetries
       THEN /\ tries' = [tries EXCEPT ![w] = @ + 1]
            /\ Goto(w, "ensure") /\ UNCHANGED <<once, ret>>
       ELSE UseOnce(w, "err") /\ Finish(w, "err")
    /\ UNCHANGED <<db, mu, holders, op, phase, plan, done>>

\* Fault: the retries are not counted.
CreateFailsForever(w) ==
    /\ pc[w] = "create" /\ (table \/ MayFail)
    /\ Goto(w, "ensure")
    /\ UNCHANGED <<db, mu, once, holders, call, ret>>

\* The table appeared since the check, the statement failed, or only its
\* result was lost: retried, and in the end reported.  The sync.Once is used
\* up either way.
CreateFails(w) ==
    /\ \/ pc[w] = "create" /\ (table \/ MayFail) /\ UNCHANGED <<table, rows>>
       \/ /\ pc[w] = "create" /\ ~table /\ MayFail
          /\ table' = TRUE
          /\ rows' = IF IsolateDDL \/ ~TransactionalDDL THEN rows ELSE <<0>>
       \/ pc[w] = "insertZero" /\ MayFail /\ UNCHANGED <<table, rows>>
       \/ pc[w] = "insertZero" /\ MayFail /\ rows' = Append(rows, 0) /\ UNCHANGED table
    /\ \/ /\ tries[w] < EnsureRetries
          /\ tries' = [tries EXCEPT ![w] = @ + 1]
          /\ Goto(w, "ensure")
          /\ UNCHANGED <<once, ret>>
       \/ /\ tries[w] = EnsureRetries
          /\ UseOnce(w, "err")
          /\ Finish(w, "err")
    /\ UNCHANGED <<schema, twice, disturbed, mu, holders, op, phase, plan, done>>

-----------------------------------------------------------------------------
(* hasPending, up, down, apply, status *)

\* With versioning disabled there is always something to do.  getVersions
\* only looks at the latest version.
Pending(w) ==
    CASE DisableVersioning -> Outcome(FALSE, Migrations[ProviderOf[w]])
      [] ~DisableVersioning /\ op[w].kind = "getVersions" ->
            Outcome(rows = <<>>, <<>>)
      [] OTHER -> UpVersions(Known(w), rows, MaxVersion, AllowMissing)

\* up, down and apply each say what the call has to run, from the version
\* table as it is now.  Without versioning the version argument of UpTo and
\* DownTo is not looked at.
up(w) ==
    CASE DisableVersioning ->
            IF op[w].kind = "upByOne" THEN Failed
            ELSE Outcome(FALSE, Migrations[ProviderOf[w]])
      [] ~DisableVersioning /\ rows = <<>> -> Failed  \* errMissingZeroVersion
      [] OTHER -> UpVersions(Known(w), rows, Target(op[w]), AllowMissing)

down(w) ==
    LET ms == Migrations[ProviderOf[w]] IN
    CASE DisableVersioning ->
            Outcome(FALSE, IF ByOne(op[w]) THEN <<Last(ms)>> ELSE ms)
      [] ~DisableVersioning /\ rows = <<>> -> Failed  \* errMissingZeroVersion
      [] OTHER -> DownVersions(Known(w), rows, Target(op[w]))

\* ErrAlreadyApplied and ErrNotApplied.
apply(w) ==
    IF ~DisableVersioning /\ op[w].up = (op[w].version \in ToSet(rows))
    THEN Failed
    ELSE Outcome(FALSE, <<op[w].version>>)

\* The calls that only read run nothing; getDBMaxVersion wants a version.
Resolved(w) ==
    CASE op[w].kind \in UpKinds -> up(w)
      [] op[w].kind \in {"down", "downTo"} -> down(w)
      [] op[w].kind = "apply" -> apply(w)
      [] op[w].kind = "status" -> Outcome(FALSE, <<>>)
      [] op[w].kind = "getDBVersion" -> Outcome(rows = <<>>, <<>>)

\* A query fails; without the table every query does.
ListFails(w) ==
    /\ pc[w] = "list"
    /\ ~DisableVersioning /\ (~table \/ MayFail)
    /\ Finish(w, "err")
    /\ UNCHANGED <<db, mu, once, holders, call>>

HasPending(w) ==
    /\ pc[w] = "list" /\ phase[w] = "pending"
    /\ DisableVersioning \/ table
    /\ Finish(w, CASE Pending(w).err -> "err"
                   [] ~Pending(w).err /\ Pending(w).versions = <<>> -> "ok"
                   [] OTHER -> "pending")
    /\ UNCHANGED <<db, mu, once, holders, call>>

\* runMigrations: nothing to run, or all of it, or only the first.
Decide(w) ==
    LET r == Resolved(w) IN
    /\ pc[w] = "list" /\ phase[w] = "run"
    /\ DisableVersioning \/ table
    /\ \/ /\ r.err \/ r.versions = <<>>
          /\ Finish(w, IF r.err THEN "err" ELSE "ok")
          /\ UNCHANGED plan
       \/ /\ ~r.err /\ r.versions # <<>>
          /\ plan' = [plan EXCEPT ![w] = IF ByOne(op[w]) THEN <<Head(r.versions)>>
                                         ELSE r.versions]
          /\ Goto(w, "prepare")
          /\ UNCHANGED ret
    /\ UNCHANGED <<db, mu, once, holders, op, phase, done, tries>>

\* Fault: only the first migration is prepared before it runs.
PrepareFirst(w) ==
    /\ pc[w] = "prepare"
    /\ IF Head(plan[w]) \notin Broken THEN Goto(w, "run") /\ UNCHANGED ret
                                      ELSE Finish(w, "err")
    /\ UNCHANGED <<db, mu, once, holders, call>>

\* prepareMigration, for every migration before the first one runs.
Prepare(w) ==
    /\ pc[w] = "prepare"
    /\ \/ ToSet(plan[w]) \cap Broken = {} /\ Goto(w, "run") /\ UNCHANGED ret
       \/ ToSet(plan[w]) \cap Broken # {} /\ Finish(w, "err")
    /\ UNCHANGED <<db, mu, once, holders, call>>

-----------------------------------------------------------------------------
(* runIndividually *)

NextUp(w) == Head(plan[w])

Advance(w) == /\ plan' = [plan EXCEPT ![w] = Tail(@)]
              /\ done' = [done EXCEPT ![w] = Append(@, NextUp(w))]

\* beginTx: the migration and its version row are committed.
RunTx(w) ==
    LET v == NextUp(w) IN
    /\ pc[w] = "run" /\ plan[w] # <<>> /\ Atomic(v)
    /\ schema' = Executed(v, IsUp(op[w]))
    /\ twice' = RanTwice(v, IsUp(op[w]))
    /\ rows' = Recorded(v, IsUp(op[w]))
    /\ Advance(w)
    /\ UNCHANGED <<table, disturbed, mu, once, holders, pc, op, phase, tries, ret>>

\* Fault: the version row is written outside the transaction.
RunTxFailsSplit(w) ==
    LET v == NextUp(w) IN
    /\ MayFail
    /\ pc[w] = "run" /\ plan[w] # <<>> /\ Atomic(v)
    /\ schema' = Executed(v, IsUp(op[w]))
    /\ Finish(w, "partial")
    /\ UNCHANGED <<table, rows, twice, disturbed, mu, once, holders, call>>

\* Fault: the result is added before the error is looked at.
RunTxFailsCounted(w) ==
    /\ MayFail
    /\ pc[w] = "run" /\ plan[w] # <<>> /\ Atomic(NextUp(w))
    /\ Advance(w)
    /\ Finish(w, "partial")
    /\ UNCHANGED <<db, mu, once, holders, op, phase, tries>>

\* An error: everything is rolled back, or the commit happened and only its
\* result was lost.
RunTxFails(w) ==
    LET v == NextUp(w) IN
    /\ MayFail
    /\ pc[w] = "run" /\ plan[w] # <<>> /\ Atomic(v)
    /\ \/ UNCHANGED db
       \/ /\ schema' = Executed(v, IsUp(op[w]))
          /\ twice' = RanTwice(v, IsUp(op[w]))
          /\ rows' = Recorded(v, IsUp(op[w]))
          /\ UNCHANGED <<table, disturbed>>
    /\ Finish(w, "partial")
    /\ UNCHANGED <<mu, once, holders, call>>

\* Outside a transaction: first the statements ...
RunStatements(w) ==
    LET v == NextUp(w) IN
    /\ pc[w] = "run" /\ plan[w] # <<>> /\ ~Atomic(v)
    /\ schema' = IF RunsNothing(v) THEN schema ELSE Executed(v, IsUp(op[w]))
    /\ twice' = IF RunsNothing(v) THEN twice ELSE RanTwice(v, IsUp(op[w]))
    /\ Goto(w, "record")
    /\ UNCHANGED <<table, rows, disturbed, mu, once, holders, call, ret>>

RunStatementsFail(w) ==
    LET v == NextUp(w) IN
    /\ MayFail
    /\ pc[w] = "run" /\ plan[w] # <<>> /\ ~Atomic(v) /\ ~RunsNothing(v)
    /\ \E s \in {schema[v], "partial"} : schema' = [schema EXCEPT ![v] = s]
    /\ disturbed' = disturbed \cup {v}
    /\ Finish(w, "partial")
    /\ UNCHANGED <<table, rows, twice, mu, once, holders, call>>

\* ... then the version row.
Record(w) ==
    /\ pc[w] = "record"
    /\ rows' = Recorded(NextUp(w), IsUp(op[w]))
    /\ Advance(w)
    /\ Goto(w, "run")
    /\ UNCHANGED <<table, schema, twice, disturbed, mu, once, holders, op, phase, tries, ret>>

RecordFails(w) ==
    /\ pc[w] = "record"
    /\ MayFail /\ ~DisableVersioning
    /\ rows' \in {rows, Recorded(NextUp(w), IsUp(op[w]))}
    /\ disturbed' = disturbed \cup {NextUp(w)}
    /\ Finish(w, "partial")
    /\ UNCHANGED <<table, schema, twice, mu, once, holders, call>>

\* All done.  The last query for the current version may fail, and the call
\* then returns its error and no results.
RunDone(w) ==
    /\ pc[w] = "run" /\ plan[w] = <<>>
    /\ \/ Finish(w, "ok")
       \/ MayFail /\ ~DisableVersioning /\ ~ByOne(op[w]) /\ Finish(w, "err")
    /\ UNCHANGED <<db, mu, once, holders, call>>

-----------------------------------------------------------------------------
(* The deferred cleanup *)

\* p.mu is released first.  After HasPending, up follows unless the version
\* is below 1; after that the lock is released.
Cleanup(w) ==
    LET goesOn == ret[w] = "pending" /\ op[w].kind \in UpKinds /\ Target(op[w]) >= 1
    IN
    /\ pc[w] = "cleanup"
    /\ mu' = [mu EXCEPT ![ProviderOf[w]] = NoOne]
    /\ \/ w \in holders /\ Goto(w, "unlock") /\ UNCHANGED <<call, ret>>
       \/ /\ w \notin holders /\ goesOn
          /\ Goto(w, "mu")
          /\ phase' = [phase EXCEPT ![w] = "run"]
          /\ ret' = [ret EXCEPT ![w] = "none"]
          /\ UNCHANGED <<op, plan, done, tries>>
       \/ w \notin holders /\ ~goesOn /\ Return({w})
    /\ UNCHANGED <<db, once, holders>>

\* SessionUnlock or Locker.Unlock
ReleaseLock(w) ==
    /\ pc[w] = "unlock"
    /\ holders' = holders \ {w}
    /\ Return({w})
    /\ UNCHANGED <<db, mu, once>>

\* The process dies and is started again with a new Provider.  Open
\* transactions are rolled back, the lock is given up; statements that run
\* outside a transaction may have come half way.
Crash(p) ==
    LET mine == {w \in Workers : ProviderOf[w] = p}
        Current(l) == {NextUp(w) : w \in {x \in mine : pc[x] = l /\ plan[x] # <<>>}}
        open == {v \in Current("run") : ~Atomic(v) /\ ~RunsNothing(v)}
    IN
    /\ MayCrash
    /\ \E w \in mine : pc[w] # "idle"
    /\ \E half \in SUBSET open :
          /\ schema' = [v \in Versions |-> IF v \in half THEN "partial" ELSE schema[v]]
          /\ disturbed' = disturbed \cup half \cup Current("record")
    /\ Return(mine)
    /\ mu' = [mu EXCEPT ![p] = NoOne]
    /\ once' = [once EXCEPT ![p] = "unused"]
    /\ holders' = holders \ mine
    /\ UNCHANGED <<table, rows, twice>>

-----------------------------------------------------------------------------
Initialize(w) ==
    \/ LockMu(w) \/ ConnFails(w) \/ AcquireLock(w) \/ LockFails(w)
    \/ CheckTable(w) \/ CheckTableFails(w) \/ CreateVersionTable(w)
    \/ CreateTableOnly(w) \/ InsertZero(w) \/ CreateFails(w)

Run(w) ==
    \/ ListFails(w) \/ HasPending(w) \/ Decide(w) \/ Prepare(w)
    \/ RunTx(w) \/ RunTxFails(w) \/ RunStatements(w) \/ RunStatementsFail(w)
    \/ Record(w) \/ RecordFails(w) \/ RunDone(w)
    \/ Cleanup(w) \/ ReleaseLock(w)

Next == \/ \E w \in Workers : Call(w) \/ Initialize(w) \/ Run(w)
        \/ \E p \in Providers : Crash(p)

Spec == Init /\ [][Next]_vars

\* Goroutines are scheduled, statements come to an end, and a starving
\* waiter is handed p.mu (sync.Mutex) and the lock or an error.
Fairness == \A w \in Workers : /\ WF_vars(Initialize(w) \/ Run(w))
                               /\ SF_vars(LockMu(w))

FairSpec == Spec /\ Fairness

-----------------------------------------------------------------------------
(* Properties *)

PCs == {"idle", "mu", "lock", "ensure", "create", "insertZero", "list",
        "prepare", "run", "record", "cleanup", "unlock"}

\* Every variable keeps its type; the retries of tryEnsureVersionTable stay
\* within their bound.
TypeOK == /\ table \in BOOLEAN
          /\ rows \in Seq(Versions \cup {0})
          /\ schema \in [Versions -> {"none", "partial", "applied"}]
          /\ twice \subseteq Versions
          /\ disturbed \subseteq Versions
          /\ mu \in [Providers -> Workers \cup {NoOne}]
          /\ once \in [Providers -> {"unused", "ok", "err"}]
          /\ holders \subseteq Workers
          /\ pc \in [Workers -> PCs]
          /\ op \in [Workers -> Ops \cup {Fresh.op}]
          /\ phase \in [Workers -> {"pending", "run"}]
          /\ plan \in [Workers -> Seq(Versions)]
          /\ done \in [Workers -> Seq(Versions)]
          /\ tries \in [Workers -> 0..EnsureRetries]
          /\ ret \in [Workers -> {"none", "ok", "pending", "err", "partial"}]

Applied == ToSet(rows) \ {0}

\* A goroutine is past initialize and has not begun to clean up.
Working(w) == pc[w] \in {"list", "prepare", "run", "record"}

\* The version table tells the truth: a migration is recorded if and only if
\* its statements are in effect.  One that commits with its row is never out
\* of step with it, through failures, lost results and crashes; one outside a
\* transaction only between its statements and its row, unless it was
\* disturbed there (runIndividually, maybeInsertOrDelete).
InStep ==
    \A v \in Versions \ disturbed :
        \/ \E w \in Workers : pc[w] = "record" /\ NextUp(w) = v /\ ~Atomic(v)
        \/ v \in Applied <=> schema[v] = "applied"

\* No version is recorded twice and no transactional migration is run on top
\* of itself, although every process decides what to run from a list it read
\* earlier (up, apply; HasPending is asked without the lock).
ExactlyOnce == /\ Cardinality(ToSet(rows)) = Len(rows)
               /\ \A v \in twice : ~Atomic(v)

\* Unless out-of-order migrations are allowed, the history is in ascending
\* order, although the processes may know different migrations.
InOrder == ~AllowMissing => IsSorted(rows, <=)

\* A successful Up (UpTo) leaves no migration of its Provider (up to the
\* version) unapplied, and a successful DownTo none above the version; neither
\* has run anything beyond the version ("up to, and including", "down to, but
\* not including").
CallIsComplete ==
    \A w \in Workers :
        pc[w] = "cleanup" /\ phase[w] = "run" /\ ret[w] = "ok" =>
            /\ op[w].kind \in {"up", "upTo"} =>
                  /\ {v \in Known(w) : v <= Target(op[w])} \subseteq Applied
                  /\ \A v \in ToSet(done[w]) : v <= Target(op[w])
            /\ op[w].kind = "downTo" => \A v \in ToSet(done[w]) : v > op[w].version
            /\ op[w].kind = "downTo" /\ ~AllowMissing =>
                  \A v \in Applied : v <= op[w].version

\* The results of a call (PartialError.Applied after a failure) are migrations
\* that are recorded, or no longer recorded after a rollback.
ResultsAreRecorded ==
    \A w \in Workers :
        pc[w] \in {"run", "record", "cleanup"} =>
            \A v \in ToSet(done[w]) : (v \in Applied) = IsUp(op[w])

\* A migration that cannot be prepared keeps every migration of its call from
\* being run ("catch errors early and prevent leaving the database in an
\* incomplete state").
BrokenBlocksAll ==
    \A w \in Workers :
        pc[w] \in {"run", "record"} => ToSet(plan[w] \o done[w]) \cap Broken = {}

\* Whoever is past initialize finds a version table with a zero version
\* ("ensure the version table exists"), through crashes and failures between its
\* creation and the zero version, unless the one attempt of this Provider had
\* failed: the sync.Once lets the later calls go on then.
EnsuredMeansUsable ==
    ~DisableVersioning =>
        \A w \in Workers :
            Working(w) /\ once[ProviderOf[w]] # "err" => table /\ 0 \in ToSet(rows)

\* Every call returns.
CallReturns == \A w \in Workers : pc[w] # "idle" ~> pc[w] = "idle"
=============================================================================
