---------------------------- MODULE ProviderPool ----------------------------
(***************************************************************************)
(* The resources of a Provider call: initialize and its cleanup function   *)
(* (provider_run.go) between the Provider's mutex, the connection pool of  *)
(* the *sql.DB, the session lock that lives on a connection and the mutex  *)
(* of a table Locker.                                                      *)
(*                                                                         *)
(* A call here is one initialize ... cleanup; Up is HasPending, a call     *)
(* without the lock, followed by one with it.  The dedicated connection of *)
(* a call is kept from initialize to cleanup.  A statement on the *sql.DB  *)
(* takes a connection of the pool for itself and gives it back when it     *)
(* ends, so it is one step that needs a free connection.  Contexts have no *)
(* deadline.                                                               *)
(***************************************************************************)
EXTENDS Naturals, Sequences, FiniteSets, SequencesExt

CONSTANTS Conns,      \* connections to the database
          Processes,  \* each with one *sql.DB, one Provider and one locker
          Workers,    \* the goroutines that call the Providers
          ProcessOf,  \* the process of each goroutine
          NoOne,      \* "no goroutine"
          NoConn,     \* "no connection"
          Setups,     \* the configurations: lock, connections of the pools, ...
          Plans,      \* kinds of the migrations a call may have to run
          MaxErrors,  \* bound: errors of the session locker, in one session at a time
          MayFail     \* may statements fail, connections break, processes die?

\* conns[p]: the connections the pool of p may open (MaxOpenConnections).
Setup == [lock : {"none", "session", "table"},
          conns : [Processes -> SUBSET Conns], isolateDDL : BOOLEAN]

Kinds == {"sqlTx", "sqlNoTx", "goTx", "goNoTx"}

ASSUME PoolAssumption ==
    /\ ProcessOf \in [Workers -> Processes]
    /\ NoOne \notin Workers
    /\ NoConn \notin Conns
    /\ Setups \subseteq Setup
    /\ \A s \in Setups : \A p, q \in Processes :
           p # q => s.conns[p] \cap s.conns[q] = {}
    /\ MayFail \in BOOLEAN
    /\ Plans \subseteq Seq(Kinds)
    /\ MaxErrors \in Nat

VARIABLES setup,    \* the configuration, which no step changes
          mu,       \* the goroutine that holds p.mu of each process
          lmu,      \* the one that holds l.mu of the table Locker
          conn,     \* the dedicated connection of each goroutine
          advisory, \* how often the session of a connection has taken the lock
          errors,   \* history: statements of SessionLock and SessionUnlock that
                    \* returned an error in that session
          locked,   \* has the call been given the lock, and not yet up?
          broken,   \* the goroutines whose dedicated connection is broken
          unseen,   \* history: those whose session ended while they had the lock
                    \* and that have met no error since
          pc, plan  \* where each goroutine is, and what it has still to run

vars == <<setup, mu, lmu, conn, advisory, errors, locked, broken, unseen, pc, plan>>

-----------------------------------------------------------------------------
(* Helpers *)

Goto(w, l) == pc' = [pc EXCEPT ![w] = l]

\* The call is over but for cleanup.
Leave(w) == Goto(w, "cleanup") /\ plan' = [plan EXCEPT ![w] = <<>>]

\* It is over with an error, which is part of its result.
Abort(w) == Leave(w) /\ unseen' = unseen \ {w}

P(w) == ProcessOf[w]

Available(p) == setup.conns[p] \ {conn[w] : w \in Workers}

\* runIndividually: a Go migration that is not run in a transaction, and the
\* write of its version row, go through the *sql.DB.
UsesPool(k) == k = "goNoTx" \/ (k = "goTx" /\ setup.isolateDDL)

\* Fault: prepareMigration does not look at the size of the pool.
NeverRejected(w, ms) == FALSE

\* prepareMigration: "potential deadlock detected".
Rejected(w, ms) == /\ setup.lock = "session"
                   /\ Cardinality(setup.conns[P(w)]) = 1
                   /\ "goNoTx" \in ToSet(ms)

\* Does the call have the lock still?  A session lock ends with its session.
Holds(w) == locked[w] /\ ~(setup.lock = "session" /\ w \in broken)

Init == /\ setup \in Setups
        /\ mu = [p \in Processes |-> NoOne]
        /\ lmu = [p \in Processes |-> NoOne]
        /\ conn = [w \in Workers |-> NoConn]
        /\ advisory = [c \in Conns |-> 0]
        /\ errors = [c \in Conns |-> 0]
        /\ locked = [w \in Workers |-> FALSE]
        /\ broken = {} /\ unseen = {}
        /\ pc = [w \in Workers |-> "idle"]
        /\ plan = [w \in Workers |-> <<>>]

-----------------------------------------------------------------------------
(* initialize *)

\* With the lock (up, down, apply, Status, GetDBVersion) or without it
\* (HasPending, GetVersions).
Call(w) ==
    /\ pc[w] = "idle"
    /\ Goto(w, "mu") \/ Goto(w, "muReadOnly")
    /\ UNCHANGED <<setup, unseen, broken, mu, lmu, conn, advisory, errors, locked, plan>>

\* p.mu.Lock()
LockMu(w) ==
    /\ pc[w] \in {"mu", "muReadOnly"}
    /\ mu[P(w)] = NoOne
    /\ mu' = [mu EXCEPT ![P(w)] = w]
    /\ Goto(w, IF pc[w] = "mu" THEN "conn" ELSE "connReadOnly")
    /\ UNCHANGED <<setup, unseen, broken, lmu, conn, advisory, errors, locked, plan>>

AfterConn(w) == CASE pc[w] = "connReadOnly" \/ setup.lock = "none" -> "prepare"
                  [] pc[w] = "conn" /\ setup.lock = "session" -> "sessionLock"
                  [] pc[w] = "conn" /\ setup.lock = "table" -> "lockerMu"

\* p.db.Conn(): waits for a connection of the pool.
Conn(w) ==
    /\ pc[w] \in {"conn", "connReadOnly"}
    /\ \E c \in Available(P(w)) : conn' = [conn EXCEPT ![w] = c]
    /\ Goto(w, AfterConn(w))
    /\ UNCHANGED <<setup, unseen, broken, mu, lmu, advisory, errors, locked, plan>>

\* The error return of Conn: there is no cleanup yet.
ConnFails(w) ==
    /\ MayFail
    /\ pc[w] \in {"conn", "connReadOnly"}
    /\ Available(P(w)) # {}
    /\ mu' = [mu EXCEPT ![P(w)] = NoOne]
    /\ Goto(w, "idle")
    /\ UNCHANGED <<setup, unseen, broken, lmu, conn, advisory, errors, locked, plan>>

\* pg_try_advisory_lock: granted unless another session has the lock, also to
\* a session that has it already.
Grantable(w) == \A c \in Conns \ {conn[w]} : advisory[c] = 0

\* Fault: the answer of pg_try_advisory_lock is not looked at.
SessionLockUnasked(w) ==
    /\ pc[w] = "sessionLock"
    /\ advisory' = [advisory EXCEPT ![conn[w]] = IF Grantable(w) THEN @ + 1 ELSE @]
    /\ locked' = [locked EXCEPT ![w] = TRUE]
    /\ Goto(w, "prepare")
    /\ UNCHANGED <<setup, unseen, broken, mu, lmu, conn, errors, plan>>

SessionLock(w) ==
    /\ pc[w] = "sessionLock"
    /\ w \notin broken /\ Grantable(w)
    /\ advisory' = [advisory EXCEPT ![conn[w]] = @ + 1]
    /\ locked' = [locked EXCEPT ![w] = TRUE]
    /\ Goto(w, "prepare")
    /\ UNCHANGED <<setup, unseen, broken, mu, lmu, conn, errors, plan>>

\* A statement of the session locker returns an error although the session is
\* there: the context is cancelled, or Scan fails.
LockerError(w) ==
    /\ MayFail /\ w \notin broken
    /\ errors[conn[w]] < MaxErrors /\ \A c \in Conns \ {conn[w]} : errors[c] = 0
    /\ errors' = [errors EXCEPT ![conn[w]] = @ + 1]

\* Not granted in all the retries, the connection is broken, or the query fails;
\* the lock may have been granted all the same.
SessionLockFails(w) ==
    /\ pc[w] = "sessionLock"
    /\ \/ (~Grantable(w) \/ w \in broken) /\ UNCHANGED <<advisory, errors>>
       \/ LockerError(w) /\ UNCHANGED advisory
       \/ /\ LockerError(w) /\ Grantable(w)
          /\ advisory' = [advisory EXCEPT ![conn[w]] = @ + 1]
    /\ Abort(w)
    /\ UNCHANGED <<setup, broken, mu, lmu, conn, locked>>

\* Locker.Lock: first l.mu.Lock() ...
LockerMu(w) ==
    /\ pc[w] = "lockerMu"
    /\ lmu[P(w)] = NoOne
    /\ lmu' = [lmu EXCEPT ![P(w)] = w]
    /\ Goto(w, "acquire")
    /\ UNCHANGED <<setup, unseen, broken, mu, conn, advisory, errors, locked, plan>>

\* ... then statements on the *sql.DB until the row is taken ...
Acquire(w) ==
    /\ pc[w] = "acquire"
    /\ Available(P(w)) # {}
    /\ \A x \in Workers : ~locked[x]
    /\ locked' = [locked EXCEPT ![w] = TRUE]
    /\ Goto(w, "prepare")
    /\ UNCHANGED <<setup, unseen, broken, mu, lmu, conn, advisory, errors, plan>>

\* Fault: Lock returns an error and keeps l.mu.
AcquireFailsKeepsMu(w) ==
    /\ pc[w] = "acquire"
    /\ Available(P(w)) # {}
    /\ MayFail \/ \E x \in Workers : locked[x]
    /\ Abort(w)
    /\ UNCHANGED <<setup, broken, mu, lmu, conn, advisory, errors, locked>>

\* ... or the retries are used up.
AcquireFails(w) ==
    /\ pc[w] = "acquire"
    /\ Available(P(w)) # {}
    /\ MayFail \/ \E x \in Workers : locked[x]
    /\ lmu' = [lmu EXCEPT ![P(w)] = NoOne]
    /\ Abort(w)
    /\ UNCHANGED <<setup, broken, mu, conn, advisory, errors, locked>>

-----------------------------------------------------------------------------
(* The work of the call *)

\* What the call may find to run: nothing if it has not asked for the lock.
Pending(w) == IF setup.lock = "none" \/ locked[w] THEN Plans \cup {<<>>} ELSE {<<>>}

\* ensureVersionTable, the queries and prepareMigration use the dedicated
\* connection.  An error skips the migrations.
Prepare(w) ==
    /\ pc[w] = "prepare"
    /\ \E ms \in Pending(w) :
        \/ /\ w \notin broken /\ ~Rejected(w, ms)
           /\ plan' = [plan EXCEPT ![w] = ms]
           /\ Goto(w, "run") /\ UNCHANGED unseen
        \/ (MayFail \/ Rejected(w, ms)) /\ Abort(w)
    /\ UNCHANGED <<setup, broken, mu, lmu, conn, advisory, errors, locked>>

\* runIndividually: on the dedicated connection or on the *sql.DB, and the
\* first error ends the call.  What runs on the *sql.DB does not notice that
\* the dedicated connection is broken.
RunIndividually(w) ==
    /\ pc[w] = "run" /\ plan[w] # <<>>
    /\ UsesPool(Head(plan[w])) => Available(P(w)) # {}
    /\ \/ /\ w \notin broken \/ UsesPool(Head(plan[w]))
          /\ plan' = [plan EXCEPT ![w] = Tail(@)] /\ UNCHANGED <<unseen, pc>>
       \/ MayFail /\ Abort(w)
    /\ UNCHANGED <<setup, broken, mu, lmu, conn, advisory, errors, locked>>

RunDone(w) ==
    /\ pc[w] = "run" /\ plan[w] = <<>>
    /\ Leave(w)
    /\ UNCHANGED <<setup, unseen, broken, mu, lmu, conn, advisory, errors, locked>>

-----------------------------------------------------------------------------
(* cleanup *)

\* Fault: the first cleanup is kept after the lock was acquired.
UnlockMuOnly(w) ==
    /\ pc[w] = "cleanup"
    /\ mu' = [mu EXCEPT ![P(w)] = NoOne]
    /\ Goto(w, "close")
    /\ UNCHANGED <<setup, unseen, broken, lmu, conn, advisory, errors, locked, plan>>

\* p.mu.Unlock(), before the lock is given up.
UnlockMu(w) ==
    /\ pc[w] = "cleanup"
    /\ mu' = [mu EXCEPT ![P(w)] = NoOne]
    /\ Goto(w, CASE ~locked[w] -> "close"
                 [] locked[w] /\ setup.lock = "session" -> "sessionUnlock"
                 [] locked[w] /\ setup.lock = "table" -> "release")
    /\ UNCHANGED <<setup, unseen, broken, lmu, conn, advisory, errors, locked, plan>>

\* pg_advisory_unlock on the dedicated connection.
SessionUnlock(w) ==
    /\ pc[w] = "sessionUnlock" /\ w \notin broken
    /\ advisory' = [advisory EXCEPT ![conn[w]] = @ - 1]
    /\ locked' = [locked EXCEPT ![w] = FALSE]
    /\ Goto(w, "close")
    /\ UNCHANGED <<setup, unseen, broken, mu, lmu, conn, errors, plan>>

\* Fault: the error of SessionUnlock is dropped, that of Close is returned.
SessionUnlockFailsSilently(w) ==
    /\ pc[w] = "sessionUnlock"
    /\ \/ w \in broken /\ UNCHANGED <<advisory, errors>>
       \/ LockerError(w) /\ UNCHANGED advisory
       \/ LockerError(w) /\ advisory' = [advisory EXCEPT ![conn[w]] = @ - 1]
    /\ locked' = [locked EXCEPT ![w] = FALSE]
    /\ Goto(w, "close")
    /\ UNCHANGED <<setup, unseen, broken, mu, lmu, conn, plan>>

\* An error, of an unlock that may have had its effect, is not retried; the
\* connection is closed all the same.
SessionUnlockFails(w) ==
    /\ pc[w] = "sessionUnlock"
    /\ \/ w \in broken /\ UNCHANGED <<advisory, errors>>
       \/ LockerError(w) /\ UNCHANGED advisory
       \/ LockerError(w) /\ advisory' = [advisory EXCEPT ![conn[w]] = @ - 1]
    /\ locked' = [locked EXCEPT ![w] = FALSE]
    /\ unseen' = unseen \ {w}
    /\ Goto(w, "close")
    /\ UNCHANGED <<setup, broken, mu, lmu, conn, plan>>

\* Locker.Unlock: statements on the *sql.DB until the row is released or the
\* retries are used up, then l.mu.Unlock().
Release(w) ==
    /\ pc[w] = "release"
    /\ Available(P(w)) # {}
    /\ lmu' = [lmu EXCEPT ![P(w)] = NoOne]
    /\ locked' = [locked EXCEPT ![w] = FALSE]
    /\ Goto(w, "close")
    /\ UNCHANGED <<setup, unseen, broken, mu, conn, advisory, errors, plan>>

\* conn.Close() gives the connection, and its session, back to the pool, which
\* opens another one for a broken one.
Close(w) ==
    /\ pc[w] = "close"
    /\ conn' = [conn EXCEPT ![w] = NoConn]
    /\ broken' = broken \ {w}
    /\ unseen' = unseen \ {w}
    /\ Goto(w, "idle")
    /\ UNCHANGED <<setup, mu, lmu, advisory, errors, locked, plan>>

\* The dedicated connection breaks, whatever the call is doing, and the
\* database ends its session.
ConnectionBreaks(w) ==
    /\ MayFail
    /\ conn[w] # NoConn /\ w \notin broken
    /\ broken' = broken \cup {w}
    /\ advisory' = [advisory EXCEPT ![conn[w]] = 0]
    /\ errors' = [errors EXCEPT ![conn[w]] = 0]
    /\ unseen' = IF setup.lock = "session" /\ locked[w] THEN unseen \cup {w} ELSE unseen
    /\ UNCHANGED <<setup, mu, lmu, conn, locked, pc, plan>>

\* The process dies and is started again.
Crash(p) ==
    /\ MayFail
    /\ \E w \in Workers : P(w) = p /\ pc[w] # "idle"
    /\ mu' = [mu EXCEPT ![p] = NoOne]
    /\ lmu' = [lmu EXCEPT ![p] = NoOne]
    /\ conn' = [w \in Workers |-> IF P(w) = p THEN NoConn ELSE conn[w]]
    /\ advisory' = [c \in Conns |-> IF c \in setup.conns[p] THEN 0 ELSE advisory[c]]
    /\ errors' = [c \in Conns |-> IF c \in setup.conns[p] THEN 0 ELSE errors[c]]
    /\ locked' = [w \in Workers |-> P(w) # p /\ locked[w]]
    /\ broken' = {w \in broken : P(w) # p}
    /\ unseen' = {w \in unseen : P(w) # p}
    /\ pc' = [w \in Workers |-> IF P(w) = p THEN "idle" ELSE pc[w]]
    /\ plan' = [w \in Workers |-> IF P(w) = p THEN <<>> ELSE plan[w]]
    /\ UNCHANGED setup

-----------------------------------------------------------------------------
Step(w) ==
    \/ LockMu(w) \/ Conn(w) \/ ConnFails(w)
    \/ SessionLock(w) \/ SessionLockFails(w)
    \/ LockerMu(w) \/ Acquire(w) \/ AcquireFails(w)
    \/ Prepare(w) \/ RunIndividually(w) \/ RunDone(w)
    \/ UnlockMu(w) \/ SessionUnlock(w) \/ SessionUnlockFails(w)
    \/ Release(w) \/ Close(w)

Next == \/ \E w \in Workers : Call(w) \/ Step(w) \/ ConnectionBreaks(w)
        \/ \E p \in Processes : Crash(p)

Spec == Init /\ [][Next]_vars

\* Goroutines are scheduled and statements come to an end.  Whoever waits for
\* a mutex or for the pool is served if it becomes free again and again, as
\* sync.Mutex and database/sql hand over to waiters: strong fairness, which
\* matters only at the steps that wait.
Fairness == \A w \in Workers : SF_vars(Step(w))

FairSpec == Spec /\ Fairness

-----------------------------------------------------------------------------
(* Properties *)

\* How often the session of a connection has the advisory lock, between two
\* bounds: at least once for the call that was given it, so that nobody ever
\* unlocks what another call holds and SessionUnlock is never answered "false";
\* and at most once more for every error that SessionLock or SessionUnlock has
\* returned in that session.  Without such an error, no path through initialize
\* and cleanup gives a connection back to the pool with the lock on it; after one,
\* the lock may stay until the session ends, for an error of SessionLock runs the
\* first cleanup, which does not unlock.
AdvisoryIsBounded ==
    setup.lock = "session" =>
        \A c \in Conns :
            LET calls == Cardinality({w \in Workers : Holds(w) /\ conn[w] = c})
            IN  calls <= advisory[c] /\ advisory[c] <= calls + errors[c]

\* A call that is over has left nothing behind in its process: neither p.mu,
\* nor l.mu, nor its connection, nor the lock, whatever failed on the way.
NothingLeftBehind ==
    \A w \in Workers :
        pc[w] = "idle" => /\ mu[P(w)] # w /\ lmu[P(w)] # w
                          /\ conn[w] = NoConn /\ ~locked[w]

\* Session locker and Provider together are the lock that Provider assumes:
\* taken only when nobody has it, by any process, leaked sessions included.
Mutex == INSTANCE MutexLock
            WITH Clients <- Workers, holders <- {w \in Workers : Holds(w)}

ImplementsMutex == Mutex!Spec

\* A call whose session, and with it the lock, ended while it ran does not return
\* as if nothing had happened, although another call may have had the lock at the
\* same time, and although Go migrations on the *sql.DB notice nothing: the
\* SessionUnlock of cleanup does, and its error is part of the result.
LossIsReported == \A w \in Workers : pc[w] = "close" => w \notin unseen

\* Every call returns: no cycle of waiting for p.mu, l.mu and the pool.
CallReturns == \A w \in Workers : pc[w] # "idle" ~> pc[w] = "idle"
=============================================================================
