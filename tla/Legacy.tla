------------------------------- MODULE Legacy -------------------------------
(***************************************************************************)
(* The package-level functions of goose (up.go, down.go, redo.go,          *)
(* reset.go, status.go, version.go): Up, UpByOne, UpTo, Down, DownTo,      *)
(* Redo, Reset, Status and Version, in processes that share a database and *)
(* no lock.                                                                *)
(*                                                                         *)
(* Nothing in this API keeps two calls apart, so its callers have to:      *)
(* calls that run migrations do not overlap (see Alone).  Status and       *)
(* Version, which may create the version table, come at any time.          *)
(*                                                                         *)
(* The database rolls back DDL, and the version table has no rows of the   *)
(* old releases that recorded a rollback with is_applied = false.          *)
(***************************************************************************)
EXTENDS Naturals, Sequences, FiniteSets, FiniteSetsExt, SequencesExt, VersionLists

CONSTANTS Processes,   \* processes, with one goroutine that calls goose
          Files,       \* the versions that CollectMigrations finds in each
          Kind,        \* what a version is in each direction
          Ops,         \* the calls of each process
          MaxVersion,  \* maxVersion: no version is above it
          MayFail      \* may statements fail and processes die?

Versions == UNION {Files[p] : p \in Processes}

GoKinds == {"goTx", "goNoTx"}    \* registered as RunTx, as RunDB
SQLKinds == {"sqlTx", "sqlNoTx"}  \* NO TRANSACTION is for the whole file

UpKinds == {"up", "upByOne", "upTo"}

Op == [kind : UpKinds \cup {"down", "downTo", "redo", "reset", "status", "version"},
       target : 0..MaxVersion, allowMissing : BOOLEAN, noVersioning : BOOLEAN]

ASSUME LegacyAssumption ==
    /\ MaxVersion \in Nat
    /\ Files \in [Processes -> SUBSET (1..MaxVersion)]
    /\ Kind \in [Versions -> [up : GoKinds, down : GoKinds]
                            \cup {[up |-> k, down |-> k] : k \in SQLKinds}]
    /\ Ops \in [Processes -> SUBSET Op]
    /\ \A p \in Processes : \A o \in Ops[p] :
           o.kind \in UpKinds \ {"upTo"} => o.target = MaxVersion
    /\ MayFail \in BOOLEAN

VARIABLES table,        \* does the version table exist?
          rows,         \* the versions recorded in it, oldest first
          schema,       \* the versions whose statements are in effect
          disturbed,    \* history: versions whose statements and row went
                        \* separate ways: a failure, or versioning was off
          noVersioning, \* registered Go migrations with noVersioning set
          pc, op, plan, \* where each process is, its call, what is left to run
          start,        \* history: rows when the call began
          ret           \* the result of the call

db   == <<table, rows, schema, disturbed>>
vars == <<db, noVersioning, pc, op, plan, start, ret>>

-----------------------------------------------------------------------------
(* Helpers *)

Goto(p, l) == pc' = [pc EXCEPT ![p] = l]

Finish(p, r) == Goto(p, "done") /\ ret' = [ret EXCEPT ![p] = r]

\* CollectMigrations(dir, minVersion, target), sorted.
Found(p, t) == {v \in Files[p] : v <= t}

\* What is still to be run: versions and their direction.
Run(s, upwards) == [i \in DOMAIN s |-> [version |-> s[i], up |-> upwards]]

isGo(v) == Kind[v].up \in GoKinds

\* NewGoMigration sets UseTx of a Go migration if either direction is RunTx.
UseTx(v) == {Kind[v].up, Kind[v].down} \cap {"sqlTx", "goTx"} # {}

\* With UseTx, run looks for the RunTx of the direction; if that is registered
\* as RunDB it finds none and takes the migration for an empty one.
Skipped(m) == /\ UseTx(m.version)
              /\ (IF m.up THEN Kind[m.version].up ELSE Kind[m.version].down) = "goNoTx"

\* A *Migration of a SQL file is new in every call; that of a Go migration is
\* the registered one, and keeps what an earlier call has set.
Unversioned(p, v) == op[p].noVersioning \/ v \in noVersioning[p]

Alone(o) == o.kind \notin {"status", "version"}

NoOp == [kind |-> "none"]

Init == /\ table = FALSE /\ rows = <<>> /\ schema = {} /\ disturbed = {}
        /\ noVersioning = [p \in Processes |-> {}]
        /\ pc = [p \in Processes |-> "idle"]
        /\ op = [p \in Processes |-> NoOp]
        /\ plan = [p \in Processes |-> <<>>]
        /\ start = [p \in Processes |-> <<>>]
        /\ ret = [p \in Processes |-> "none"]

-----------------------------------------------------------------------------
(* The calls *)

\* Redo: the migration is rolled back, then it is run again.
Redo(v) == Run(<<v>>, FALSE) \o Run(<<v>>, TRUE)

\* Without versioning: upToNoVersioning and downToNoVersioning in the order of
\* the files, by one from the first (UpByOne) or the last (Down, Redo).
NoVersioningPlan(p, o) ==
    LET found == Found(p, o.target)
        last  == Max(Files[p])
    IN CASE o.kind \in {"up", "upTo"} -> Run(Ascending(found), TRUE)
         [] o.kind = "upByOne" -> Run(<<Min(found)>>, TRUE)
         [] o.kind = "down" -> Run(<<last>>, FALSE)
         [] o.kind = "redo" -> Redo(last)
         [] o.kind = "downTo" -> Run(Descending(Files[p] \ found), FALSE)
         [] o.kind = "reset" -> Run(Descending(Files[p]), FALSE)
         [] o.kind \in {"status", "version"} -> <<>>

\* CollectMigrations finds no file: ErrNoMigrationFiles.
NoFiles(p, o) == /\ o.kind # "version" \/ o.noVersioning
                 /\ Found(p, IF o.kind \in UpKinds THEN o.target ELSE MaxVersion) = {}

\* Reset does not call EnsureDBVersion.
Call(p) ==
    /\ pc[p] = "idle"
    /\ \E o \in Ops[p] :
        /\ ~(Alone(o) /\ \E q \in Processes : pc[q] # "idle" /\ Alone(op[q]))
        /\ op' = [op EXCEPT ![p] = o]
        /\ \/ NoFiles(p, o) /\ Finish(p, "err") /\ UNCHANGED plan
           \/ /\ ~NoFiles(p, o) /\ o.noVersioning
              /\ plan' = [plan EXCEPT ![p] = NoVersioningPlan(p, o)]
              /\ Goto(p, "run")
              /\ UNCHANGED ret
           \/ /\ ~NoFiles(p, o) /\ ~o.noVersioning
              /\ Goto(p, IF o.kind = "reset" THEN "list" ELSE "ensure")
              /\ UNCHANGED <<plan, ret>>
    /\ start' = [start EXCEPT ![p] = rows]
    /\ UNCHANGED <<db, noVersioning>>

\* The locals of a call are gone.
Forget(p) ==
    /\ Goto(p, "idle")
    /\ op' = [op EXCEPT ![p] = NoOp]
    /\ plan' = [plan EXCEPT ![p] = <<>>]
    /\ start' = [start EXCEPT ![p] = <<>>]
    /\ ret' = [ret EXCEPT ![p] = "none"]

\* The call returns to its caller.
Return(p) ==
    /\ pc[p] = "done"
    /\ Forget(p)
    /\ UNCHANGED <<db, noVersioning>>

-----------------------------------------------------------------------------
(* EnsureDBVersion, GetDBVersion *)

\* Down, DownTo and Redo look up the migration of the current version; Redo
\* also sets its noVersioning.
WithCurrent(p, cur) ==
    LET kind == op[p].kind
        stop == kind = "downTo" /\ (cur = 0 \/ (cur \in Files[p] /\ cur <= op[p].target))
    IN  \/ stop /\ Finish(p, "ok") /\ UNCHANGED <<plan, noVersioning>>
        \/ ~stop /\ cur \notin Files[p] /\ Finish(p, "err") /\ UNCHANGED <<plan, noVersioning>>
        \/ /\ ~stop /\ cur \in Files[p]
           /\ plan' = [plan EXCEPT ![p] = IF kind = "redo" THEN Redo(cur)
                                          ELSE Run(<<cur>>, FALSE)]
           /\ noVersioning' = IF kind = "redo"
                              THEN [noVersioning EXCEPT ![p] = @ \ {cur}]
                              ELSE noVersioning
           /\ Goto(p, "run")
           /\ UNCHANGED ret

\* Status reads the row of every migration, Version has its answer.
Report(p) ==
    /\ \/ op[p].kind \in {"status", "version"} /\ Finish(p, "ok")
       \/ op[p].kind = "status" /\ MayFail /\ Finish(p, "err")
    /\ UNCHANGED <<plan, noVersioning>>

\* What each call does with the current version.
Ensured(p, cur) ==
    \/ /\ op[p].kind \in UpKinds /\ pc[p] # "final"
       /\ Goto(p, "list")
       /\ UNCHANGED <<plan, noVersioning, ret>>
    \/ /\ op[p].kind \in UpKinds /\ pc[p] = "final"
       /\ Finish(p, IF op[p].kind = "upByOne" THEN "noNext" ELSE "ok")
       /\ UNCHANGED <<plan, noVersioning>>
    \/ Report(p)
    \/ op[p].kind \in {"down", "downTo", "redo"} /\ WithCurrent(p, cur)

\* The newest row is the current version.
EnsureDBVersion(p) ==
    /\ pc[p] \in {"ensure", "final"}
    /\ table
    /\ Ensured(p, Last(rows))
    /\ UNCHANGED <<db, op, start>>

\* Any error of ListMigrations is taken for a missing table.
EnsureMissing(p) ==
    /\ pc[p] \in {"ensure", "final"}
    /\ MayFail \/ ~table
    /\ Goto(p, "create")
    /\ UNCHANGED <<db, noVersioning, op, plan, start, ret>>

\* Fault: CREATE TABLE IF NOT EXISTS.
CreateIfNotExists(p) ==
    /\ pc[p] = "create"
    /\ table' = TRUE
    /\ rows' = Append(rows, 0)
    /\ Ensured(p, 0)
    /\ UNCHANGED <<schema, disturbed, op, start>>

\* The table and version 0, in one transaction.
createVersionTable(p) ==
    /\ pc[p] = "create"
    /\ ~table
    /\ table' = TRUE
    /\ rows' = <<0>>
    /\ Ensured(p, 0)
    /\ UNCHANGED <<schema, disturbed, op, start>>

\* It exists after all, or a fault, with or without effect.
CreateFails(p) ==
    /\ pc[p] = "create"
    /\ \/ (table \/ MayFail) /\ UNCHANGED <<table, rows>>
       \/ ~table /\ MayFail /\ table' = TRUE /\ rows' = <<0>>
    /\ Finish(p, "err")
    /\ UNCHANGED <<schema, disturbed, noVersioning, op, plan, start>>

-----------------------------------------------------------------------------
(* Which migrations to run *)

\* findMissingMigrations
findMissingMigrations(p) ==
    {v \in Found(p, op[p].target) : v \notin ToSet(rows) /\ v < Max(ToSet(rows))}

\* Not recorded and above the highest version.
NewMigrations(p) ==
    {v \in Found(p, op[p].target) : v \notin ToSet(rows) /\ v > Max(ToSet(rows))}

UpPlan(p) ==
    LET all == Ascending(findMissingMigrations(p)) \o Ascending(NewMigrations(p))
    IN  Run(IF op[p].kind = "upByOne" /\ all # <<>> THEN <<Head(all)>> ELSE all, TRUE)

ListUp(p) ==
    /\ pc[p] = "list" /\ op[p].kind \in UpKinds
    /\ rows # <<>>
    /\ \/ /\ findMissingMigrations(p) # {} /\ ~op[p].allowMissing
          /\ Finish(p, "err")
          /\ UNCHANGED plan
       \/ /\ findMissingMigrations(p) = {} \/ op[p].allowMissing
          /\ plan' = [plan EXCEPT ![p] = UpPlan(p)]
          /\ Goto(p, IF UpPlan(p) = <<>> THEN "final" ELSE "run")
          /\ UNCHANGED ret
    /\ UNCHANGED <<db, noVersioning, op, start>>

\* Reset: dbMigrationsStatus, then every recorded migration it has a file of,
\* the highest first.
ListReset(p) ==
    /\ pc[p] = "list" /\ op[p].kind = "reset"
    /\ table
    /\ plan' = [plan EXCEPT ![p] = Run(Descending(Files[p] \cap ToSet(rows)), FALSE)]
    /\ Goto(p, "run")
    /\ UNCHANGED <<db, noVersioning, op, start, ret>>

ListFails(p) ==
    /\ pc[p] = "list"
    /\ MayFail \/ ~table
    /\ Finish(p, "err")
    /\ UNCHANGED <<db, noVersioning, op, plan, start>>

-----------------------------------------------------------------------------
(* Migration.run *)

Next1(p) == Head(plan[p])

\* upToNoVersioning, downToNoVersioning and Redo set noVersioning on the
\* migration before they run it.
Marked(p, v) == IF op[p].noVersioning /\ isGo(v)
                THEN [noVersioning EXCEPT ![p] = @ \cup {v}] ELSE noVersioning

Executed(m) == CASE Skipped(m) -> schema
                 [] ~Skipped(m) /\ m.up -> schema \cup {m.version}
                 [] ~Skipped(m) /\ ~m.up -> schema \ {m.version}

\* Fault: a rollback does not delete the version.
RecordedInsertOnly(m) == IF m.up THEN Append(rows, m.version) ELSE rows

\* insertOrDeleteVersion; a delete takes all rows of the version.
Recorded(m) == IF m.up THEN Append(rows, m.version)
               ELSE Without(rows, m.version)

\* DownTo asks for the current version again after every migration.
Advance(p) ==
    /\ plan' = [plan EXCEPT ![p] = Tail(@)]
    /\ IF op[p].kind = "downTo" /\ ~op[p].noVersioning
       THEN Goto(p, "ensure") ELSE Goto(p, "run")

\* Versioning is off for the call: statements and rows part.
Parted(p, v) == IF op[p].noVersioning THEN disturbed \cup {v} ELSE disturbed

\* In a transaction, or without a version row to write: one step.
RunTx(p) ==
    LET m == Next1(p) IN
    /\ pc[p] = "run" /\ plan[p] # <<>>
    /\ UseTx(m.version) \/ Unversioned(p, m.version)
    /\ schema' = Executed(m)
    /\ rows' = IF Unversioned(p, m.version) THEN rows ELSE Recorded(m)
    /\ disturbed' = Parted(p, m.version)
    /\ noVersioning' = Marked(p, m.version)
    /\ Advance(p)
    /\ UNCHANGED <<table, op, start, ret>>

\* Outside a transaction: first the statements ...
RunNoTx(p) ==
    LET m == Next1(p) IN
    /\ pc[p] = "run" /\ plan[p] # <<>>
    /\ ~UseTx(m.version) /\ ~Unversioned(p, m.version)
    /\ schema' = Executed(m)
    /\ Goto(p, "record")
    /\ UNCHANGED <<table, rows, disturbed, noVersioning, op, plan, start, ret>>

\* ... then the version row.
RecordNoTx(p) ==
    /\ pc[p] = "record"
    /\ rows' = Recorded(Next1(p))
    /\ Advance(p)
    /\ UNCHANGED <<table, schema, disturbed, noVersioning, op, start, ret>>

\* Fault: a version row that could not be written does not end the call.
RecordFailsIgnored(p) ==
    /\ MayFail
    /\ pc[p] = "record"
    /\ disturbed' = disturbed \cup {Next1(p).version}
    /\ Advance(p)
    /\ UNCHANGED <<table, rows, schema, noVersioning, op, start, ret>>

RecordFails(p) ==
    /\ MayFail
    /\ pc[p] = "record"
    /\ rows' \in {rows, Recorded(Next1(p))}
    /\ disturbed' = disturbed \cup {Next1(p).version}
    /\ Finish(p, "err")
    /\ UNCHANGED <<table, schema, noVersioning, op, plan, start>>

\* Fault: the version row is written in a transaction of its own.
RunFailsSplit(p) ==
    LET m == Next1(p) IN
    /\ MayFail
    /\ pc[p] = "run" /\ plan[p] # <<>>
    /\ schema' = Executed(m)
    /\ disturbed' = Parted(p, m.version)
    /\ noVersioning' = Marked(p, m.version)
    /\ Finish(p, "err")
    /\ UNCHANGED <<table, rows, op, plan, start>>

\* A transaction is rolled back or only its result is lost; outside one the
\* statements stop anywhere.
RunFails(p) ==
    LET m == Next1(p) IN
    /\ MayFail
    /\ pc[p] = "run" /\ plan[p] # <<>>
    /\ \/ /\ UseTx(m.version)
          /\ UNCHANGED <<schema, rows>>
       \/ /\ UseTx(m.version)
          /\ schema' = Executed(m)
          /\ rows' = IF Unversioned(p, m.version) THEN rows ELSE Recorded(m)
       \/ /\ ~UseTx(m.version)
          /\ schema' \in {schema, Executed(m)}
          /\ UNCHANGED rows
    /\ disturbed' = IF UseTx(m.version) THEN Parted(p, m.version)
                    ELSE disturbed \cup {m.version}
    /\ noVersioning' = Marked(p, m.version)
    /\ Finish(p, "err")
    /\ UNCHANGED <<table, op, plan, start>>

RunDone(p) ==
    /\ pc[p] = "run" /\ plan[p] = <<>>
    /\ Finish(p, "ok")
    /\ UNCHANGED <<db, noVersioning, op, plan, start>>

\* The process dies and is started again.
Crash(p) ==
    /\ MayFail
    /\ pc[p] # "idle"
    /\ disturbed' = IF pc[p] = "record" THEN disturbed \cup {Next1(p).version}
                    ELSE disturbed
    /\ noVersioning' = [noVersioning EXCEPT ![p] = {}]
    /\ Forget(p)
    /\ UNCHANGED <<table, rows, schema>>

-----------------------------------------------------------------------------
Step(p) ==
    \/ EnsureDBVersion(p) \/ EnsureMissing(p) \/ createVersionTable(p) \/ CreateFails(p)
    \/ ListUp(p) \/ ListReset(p) \/ ListFails(p)
    \/ RunTx(p) \/ RunNoTx(p) \/ RecordNoTx(p) \/ RecordFails(p) \/ RunFails(p) \/ RunDone(p)
    \/ Return(p)

Next == \E p \in Processes : Call(p) \/ Step(p) \/ Crash(p)

Spec == Init /\ [][Next]_vars

\* Statements come to an end.
FairSpec == Spec /\ \A p \in Processes : WF_vars(Step(p))

-----------------------------------------------------------------------------
(* Properties *)

\* Go migrations with RunTx in one direction and RunDB in the other.
Mixed == {v \in Versions : Kind[v].up # Kind[v].down}

\* A version is recorded exactly when its statements are in effect, unless a
\* failure outside a transaction or a call without versioning parted the two
\* (runSQLMigration, runGoMigration).  This is not so of Mixed migrations, which
\* NewGoMigration and SetGlobalMigrations accept: run skips their RunDB direction
\* without an error and writes or deletes the row all the same.
InStep ==
    \A v \in Versions \ (disturbed \cup Mixed) :
        (\A p \in Processes : pc[p] = "record" => Next1(p).version # v)
            => (v \in schema <=> v \in ToSet(rows))

\* Once the version table exists its oldest row is version 0, and no version
\* is recorded twice: EnsureDBVersion and UpTo (dbMigrations[len-1]) always
\* find a row, and the newest row is the current version, however the table
\* came to be created.
RowsAreSound == table => /\ rows # <<>> /\ rows[1] = 0
                         /\ IsInjective(rows)

Promise(p) ==
    LET before == ToSet(start[p]) \ {0}
        now    == ToSet(rows) \ {0}
        o      == op[p]
    IN o.noVersioning \/
       CASE o.kind \in {"status", "version"} -> TRUE
         [] o.kind \in {"up", "upTo"} ->
              /\ Found(p, o.target) \subseteq now
              /\ now \ before \subseteq Found(p, o.target)
         [] o.kind = "upByOne" -> before \subseteq now /\ Cardinality(now \ before) = 1
         [] o.kind = "down" -> now = before \ {Last(start[p])}
         [] o.kind = "downTo" -> /\ Last(rows) <= o.target
                                 /\ \A v \in before \ now : v > o.target
         [] o.kind = "redo" -> now = before
         [] o.kind = "reset" -> now = before \ Files[p]

\* A call that reports success has done what its name says to the version
\* table, whatever the histories that earlier calls, failures and releases
\* with other files left behind: Up and UpTo have recorded every migration up
\* to the target and nothing else, UpByOne one, Down has removed the newest,
\* DownTo only versions above its target, Redo has changed nothing, and Reset
\* has removed every migration it has a file of.
CallKeepsPromise ==
    \A p \in Processes : pc[p] = "done" /\ ret[p] = "ok" => Promise(p)

\* Every call returns; the loop of DownTo comes to an end.
CallReturns == \A p \in Processes : pc[p] # "idle" ~> pc[p] = "idle"
=============================================================================
