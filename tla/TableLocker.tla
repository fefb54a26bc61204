----------------------------- MODULE TableLocker -----------------------------
(***************************************************************************)
(* The lease-based table lock of lock/internal/table, on top of the lock   *)
(* row operations of lock/internal/store (PostgreSQL and MySQL).           *)
(*                                                                         *)
(* A Locker object (an "instance", with a random instanceID) is shared by  *)
(* the goroutines of one process.  Lock takes the instance's mutex, makes  *)
(* sure that the lock table exists, tries to take the row with bounded     *)
(* retries, and starts a heartbeat that renews the lease.  Unlock stops    *)
(* the heartbeat, releases the row with bounded retries and gives the      *)
(* mutex back.  Every statement against the row is one database            *)
(* transaction and is atomic; everything between two statements is not.    *)
(*                                                                         *)
(* Time is the database's now().  The row's lease is kept relative to it:  *)
(* ttl is lease_expires_at - now(), and all negative values are merged     *)
(* into -1, which makes "lease_expires_at < now()" the condition ttl < 0   *)
(* and needs no bound on the clock.  A row that does not exist and a row   *)
(* with locked = false behave alike and are both owner = Free.             *)
(***************************************************************************)
EXTENDS Integers, FiniteSets

CONSTANTS Instances,         \* Locker objects, each in a process of its own
          Goroutines,        \* the goroutines that call Lock and Unlock
          LockerOf,          \* the Locker each goroutine shares
          Free,              \* "no instance": the row is not locked
          NoOne,             \* "no goroutine": the mutex is not held
          Second,            \* clock ticks in one second
          LeaseDuration,     \* Config.LeaseDuration, in ticks
          HeartbeatInterval, \* Config.HeartbeatInterval, in ticks
          MaxFailures,       \* consecutive heartbeats that may fail
          LockRetries,       \* Config.LockTimeout.FailureThreshold
          UnlockRetries,     \* Config.UnlockTimeout.FailureThreshold
          MayFault,          \* may a statement of Lock or Unlock fail?
          MayCancel,         \* may the caller cancel its context?
          CustomRetryPolicy  \* is Config.RetryPolicy set?

ASSUME ConfigAssumption ==
    /\ LockerOf \in [Goroutines -> Instances]
    /\ Free \notin Instances
    /\ NoOne \notin Goroutines
    /\ Second \in Nat \ {0}
    /\ LeaseDuration \in Nat \ {0}
    /\ HeartbeatInterval \in Nat \ {0}
    /\ MaxFailures \in Nat
    /\ LockRetries \in Nat
    /\ UnlockRetries \in Nat
    /\ MayFault \in BOOLEAN
    /\ MayCancel \in BOOLEAN
    /\ CustomRetryPolicy \in BOOLEAN

VARIABLES table,     \* does the lock table exist?
          owner,     \* locked_by, Free when the row is not locked
          ttl,       \* lease_expires_at - now(), at least -1
          pc,        \* where each goroutine is
          mu,        \* the goroutine that holds each Locker's mutex
          hb,        \* ticks to the next heartbeat of each Locker, or Off
          fails,     \* heartbeats of each Locker that failed in a row
          retryLock,   \* retries left in each Locker's Backoff for Lock
          retryUnlock, \* and in the one for Unlock
          cancelled    \* is the context of the goroutine's Lock cancelled?

row     == <<owner, ttl>>
backoff == <<retryLock, retryUnlock>>
vars    == <<table, row, pc, mu, hb, fails, backoff, cancelled>>

-----------------------------------------------------------------------------
(* Helpers *)

\* formatDurationAsInterval, int(leaseDuration.Seconds()): the database is
\* told a whole number of seconds.
Lease == (LeaseDuration \div Second) * Second

Off == -1

\* The goroutine is inside Lock with the mutex held, not yet successful.
Locking == {"checkTable", "createTable", "acquire", "cleanup"}

\* The goroutine holds the Locker's mutex.
HoldsMu == Locking \cup {"startHeartbeat", "held", "release"}

PCs == {"idle", "lockMu", "dead"} \cup HoldsMu

Dead(i) == \A g \in Goroutines : LockerOf[g] = i => pc[g] = "dead"

\* Fault: an expired lease is never noticed.
NeverStale == FALSE

\* lease_expires_at < now()
Stale == owner # Free /\ ttl < 0

\* The row can be taken: locked = false OR lease_expires_at < now().
Acquirable == owner = Free \/ Stale

\* shouldRetry: without a policy every error is retried.
shouldRetry == IF CustomRetryPolicy THEN BOOLEAN ELSE {TRUE}

\* retry.Do on a Backoff with some retries left.  The Backoff is built once,
\* in New; whether its count starts afresh at each retry.Do is the library's
\* business, and both outcomes are possible.
RetriesAtStart(left, max) == {left, max}

Goto(g, l) == pc' = [pc EXCEPT ![g] = l]

\* Return from Lock or Unlock: the mutex is given back.
Return(g) == /\ mu' = [mu EXCEPT ![LockerOf[g]] = NoOne]
             /\ Goto(g, "idle")

-----------------------------------------------------------------------------
Init == /\ table = FALSE
        /\ owner = Free
        /\ ttl = -1
        /\ pc = [g \in Goroutines |-> "idle"]
        /\ mu = [i \in Instances |-> NoOne]
        /\ hb = [i \in Instances |-> Off]
        /\ fails = [i \in Instances |-> 0]
        /\ retryLock = [i \in Instances |-> LockRetries]
        /\ retryUnlock = [i \in Instances |-> UnlockRetries]
        /\ cancelled = [g \in Goroutines |-> FALSE]

\* Every variable keeps its type: in particular no retry is taken beyond the
\* configured threshold and the lease never exceeds what the database was told.
TypeOK == /\ table \in BOOLEAN
          /\ owner \in Instances \cup {Free}
          /\ ttl \in -1..Lease
          /\ pc \in [Goroutines -> PCs]
          /\ mu \in [Instances -> Goroutines \cup {NoOne}]
          /\ hb \in [Instances -> -1..HeartbeatInterval]
          /\ fails \in [Instances -> 0..MaxFailures]
          /\ retryLock \in [Instances -> 0..LockRetries]
          /\ retryUnlock \in [Instances -> 0..UnlockRetries]
          /\ cancelled \in [Goroutines -> BOOLEAN]

-----------------------------------------------------------------------------
(* Lock *)

CallLock(g) ==
    /\ pc[g] = "idle"
    /\ Goto(g, "lockMu")
    /\ cancelled' = [cancelled EXCEPT ![g] = FALSE]
    /\ UNCHANGED <<table, row, mu, hb, fails, backoff>>

\* l.mu.Lock(), which takes no notice of the context.
LockMu(g) ==
    /\ pc[g] = "lockMu"
    /\ mu[LockerOf[g]] = NoOne
    /\ mu' = [mu EXCEPT ![LockerOf[g]] = g]
    /\ Goto(g, "checkTable")
    /\ UNCHANGED <<table, row, hb, fails, backoff, cancelled>>

\* CreateLockTable fails: Lock releases the mutex and returns the error.
CreateLockTableFails(g) ==
    /\ pc[g] \in {"checkTable", "createTable"}
    /\ MayFault \/ cancelled[g]
    /\ \/ UNCHANGED table
       \/ pc[g] = "createTable" /\ table' = TRUE   \* the result was lost
    /\ Return(g)
    /\ UNCHANGED <<row, hb, fails, backoff, cancelled>>

EnterAcquire(g) ==
    LET i == LockerOf[g] IN
    /\ \E n \in RetriesAtStart(retryLock[i], LockRetries) :
          retryLock' = [retryLock EXCEPT ![i] = n]
    /\ Goto(g, "acquire")
    /\ UNCHANGED retryUnlock

\* TableExists: go on to CREATE TABLE only when it does not.
CheckLockTable(g) ==
    /\ pc[g] = "checkTable"
    /\ ~cancelled[g]
    /\ \/ table /\ EnterAcquire(g)
       \/ ~table /\ Goto(g, "createTable") /\ UNCHANGED backoff
    /\ UNCHANGED <<table, row, mu, hb, fails, cancelled>>

\* CREATE TABLE.  It fails when another process created the table since the
\* check, and the second TableExists then turns the failure into success.
CreateLockTable(g) ==
    /\ pc[g] = "createTable"
    /\ ~cancelled[g]
    /\ table' = TRUE
    /\ EnterAcquire(g)
    /\ UNCHANGED <<row, mu, hb, fails, cancelled>>

\* Fault: the upsert has no WHERE clause.
AcquireLockAnyway(g) ==
    /\ pc[g] = "acquire"
    /\ ~cancelled[g]
    /\ owner' = LockerOf[g]
    /\ ttl' = Lease
    /\ Goto(g, "startHeartbeat")
    /\ UNCHANGED <<table, mu, hb, fails, backoff, cancelled>>

\* The upsert found the row free or stale and took it.
AcquireLock(g) ==
    /\ pc[g] = "acquire"
    /\ ~cancelled[g]
    /\ Acquirable
    /\ owner' = LockerOf[g]
    /\ ttl' = Lease
    /\ Goto(g, "startHeartbeat")
    /\ UNCHANGED <<table, mu, hb, fails, backoff, cancelled>>

\* The upsert returned no row ("already held by another instance").
AcquireBusy(g) ==
    /\ pc[g] = "acquire"
    /\ ~cancelled[g]
    /\ ~Acquirable
    /\ Goto(g, "cleanup")
    /\ UNCHANGED <<table, row, mu, hb, fails, backoff, cancelled>>

\* The statement failed, or its result was lost after it took effect.
AcquireError(g) ==
    /\ pc[g] = "acquire"
    /\ MayFault \/ cancelled[g]
    /\ \/ UNCHANGED row
       \/ Acquirable /\ owner' = LockerOf[g] /\ ttl' = Lease
    /\ Goto(g, "cleanup")
    /\ UNCHANGED <<table, mu, hb, fails, backoff, cancelled>>

\* CleanupStaleLocks after a failed attempt; its own failure is only logged.
ClearStale == Stale /\ owner' = Free /\ ttl' = -1

CleanupStaleLocks(g) ==
    \/ ClearStale
    \/ (~Stale \/ MayFault \/ cancelled[g]) /\ UNCHANGED row

\* Fault: one retry too many.
RetryAcquireOnceMore(g) ==
    LET i == LockerOf[g] IN
    /\ pc[g] = "cleanup"
    /\ CleanupStaleLocks(g)
    /\ ~cancelled[g]
    /\ retryLock[i] >= 0
    /\ retryLock' = [retryLock EXCEPT ![i] = @ - 1]
    /\ Goto(g, "acquire")
    /\ UNCHANGED <<table, mu, hb, fails, retryUnlock, cancelled>>

\* Fault: the retries are not counted.
RetryAcquireForever(g) ==
    /\ pc[g] = "cleanup"
    /\ CleanupStaleLocks(g)
    /\ ~cancelled[g]
    /\ Goto(g, "acquire")
    /\ UNCHANGED <<table, mu, hb, fails, backoff, cancelled>>

\* Then the attempt is repeated after a pause ...
RetryAcquire(g) ==
    LET i == LockerOf[g] IN
    /\ pc[g] = "cleanup"
    /\ CleanupStaleLocks(g)
    /\ TRUE \in shouldRetry
    /\ ~cancelled[g]
    /\ retryLock[i] > 0
    /\ retryLock' = [retryLock EXCEPT ![i] = @ - 1]
    /\ Goto(g, "acquire")
    /\ UNCHANGED <<table, mu, hb, fails, retryUnlock, cancelled>>

\* Fault: Lock returns an error and keeps the mutex.
GiveUpAcquireKeepsMu(g) ==
    /\ pc[g] = "cleanup"
    /\ CleanupStaleLocks(g)
    /\ retryLock[LockerOf[g]] = 0
    /\ Goto(g, "idle")
    /\ UNCHANGED <<table, mu, hb, fails, backoff, cancelled>>

\* ... or Lock releases the mutex and returns the error.
GiveUpAcquire(g) ==
    /\ pc[g] = "cleanup"
    /\ CleanupStaleLocks(g)
    /\ \/ FALSE \in shouldRetry
       \/ cancelled[g]
       \/ retryLock[LockerOf[g]] = 0
    /\ Return(g)
    /\ UNCHANGED <<table, hb, fails, backoff, cancelled>>

\* startHeartbeat; Lock returns nil with the mutex held.
startHeartbeat(g) ==
    LET i == LockerOf[g] IN
    /\ pc[g] = "startHeartbeat"
    /\ hb' = [hb EXCEPT ![i] = HeartbeatInterval]
    /\ fails' = [fails EXCEPT ![i] = 0]
    /\ Goto(g, "held")
    /\ UNCHANGED <<table, row, mu, backoff, cancelled>>

-----------------------------------------------------------------------------
(* The heartbeat goroutine *)

\* Fault: the heartbeat renews updated_at and not the lease.
UpdateLeaseNot(i) ==
    /\ hb[i] = 0
    /\ owner = i
    /\ hb' = [hb EXCEPT ![i] = HeartbeatInterval]
    /\ fails' = [fails EXCEPT ![i] = 0]
    /\ UNCHANGED <<table, row, pc, mu, backoff, cancelled>>

\* UpdateLease: WHERE locked_by = me AND locked = true, expired or not.
UpdateLease(i) ==
    /\ hb[i] = 0
    /\ owner = i
    /\ ttl' = Lease
    /\ hb' = [hb EXCEPT ![i] = HeartbeatInterval]
    /\ fails' = [fails EXCEPT ![i] = 0]
    /\ UNCHANGED <<table, owner, pc, mu, backoff, cancelled>>

\* "not held by this instance": logged, and the loop goes on.
UpdateLeaseNotHeld(i) ==
    /\ hb[i] = 0
    /\ owner # i
    /\ hb' = [hb EXCEPT ![i] = HeartbeatInterval]
    /\ UNCHANGED <<table, row, pc, mu, fails, backoff, cancelled>>

\* Fault: the heartbeat ends at its first error.
UpdateLeaseErrorEnds(i) ==
    /\ hb[i] = 0
    /\ fails[i] < MaxFailures
    /\ hb' = [hb EXCEPT ![i] = Off]
    /\ fails' = [fails EXCEPT ![i] = @ + 1]
    /\ UNCHANGED <<table, row, pc, mu, backoff, cancelled>>

\* A database error: logged, and the loop goes on to the next tick.
UpdateLeaseError(i) ==
    /\ hb[i] = 0
    /\ fails[i] < MaxFailures
    /\ \/ UNCHANGED ttl
       \/ owner = i /\ ttl' = Lease
    /\ hb' = [hb EXCEPT ![i] = HeartbeatInterval]
    /\ fails' = [fails EXCEPT ![i] = @ + 1]
    /\ UNCHANGED <<table, owner, pc, mu, backoff, cancelled>>

\* The heartbeat's context derives from the one given to Lock.
HeartbeatCancelled(i) ==
    /\ hb[i] # Off
    /\ \E g \in Goroutines : mu[i] = g /\ cancelled[g]
    /\ hb' = [hb EXCEPT ![i] = Off]
    /\ UNCHANGED <<table, row, pc, mu, fails, backoff, cancelled>>

-----------------------------------------------------------------------------
(* Unlock *)

\* Fault: Unlock does not stop the heartbeat.
UnlockBeating(g) ==
    /\ pc[g] = "held"
    /\ Goto(g, "release")
    /\ UNCHANGED <<table, row, mu, hb, fails, backoff, cancelled>>

\* stopHeartbeat cancels the heartbeat and waits for it to end.
Unlock(g) ==
    LET i == LockerOf[g] IN
    /\ pc[g] = "held"
    /\ hb' = [hb EXCEPT ![i] = Off]
    /\ \E n \in RetriesAtStart(retryUnlock[i], UnlockRetries) :
          retryUnlock' = [retryUnlock EXCEPT ![i] = n]
    /\ Goto(g, "release")
    /\ UNCHANGED <<table, row, mu, fails, retryLock, cancelled>>

\* Fault: the release does not ask whose row it is.
ReleaseLockOfAnyone(g) ==
    /\ pc[g] = "release"
    /\ owner' = Free
    /\ ttl' = -1
    /\ Return(g)
    /\ UNCHANGED <<table, hb, fails, backoff, cancelled>>

\* ReleaseLock: WHERE locked_by = me.
ReleaseLock(g) ==
    /\ pc[g] = "release"
    /\ owner = LockerOf[g]
    /\ owner' = Free
    /\ ttl' = -1
    /\ Return(g)
    /\ UNCHANGED <<table, hb, fails, backoff, cancelled>>

\* The row is not this instance's, or the statement failed or lost its
\* result: retried ...
ReleaseFailed(g) ==
    \/ owner # LockerOf[g] /\ UNCHANGED row
    \/ MayFault /\ UNCHANGED row
    \/ MayFault /\ owner = LockerOf[g] /\ owner' = Free /\ ttl' = -1

RetryRelease(g) ==
    LET i == LockerOf[g] IN
    /\ pc[g] = "release"
    /\ ReleaseFailed(g)
    /\ TRUE \in shouldRetry
    /\ retryUnlock[i] > 0
    /\ retryUnlock' = [retryUnlock EXCEPT ![i] = @ - 1]
    /\ UNCHANGED <<table, pc, mu, hb, fails, retryLock, cancelled>>

\* ... or given up, which leaves the row to expire.
GiveUpRelease(g) ==
    /\ pc[g] = "release"
    /\ ReleaseFailed(g)
    /\ FALSE \in shouldRetry \/ retryUnlock[LockerOf[g]] = 0
    /\ Return(g)
    /\ UNCHANGED <<table, hb, fails, backoff, cancelled>>

-----------------------------------------------------------------------------
(* The environment *)

CancelContext(g) ==
    /\ MayCancel
    /\ pc[g] \notin {"idle", "release", "dead"}
    /\ ~cancelled[g]
    /\ cancelled' = [cancelled EXCEPT ![g] = TRUE]
    /\ UNCHANGED <<table, row, pc, mu, hb, fails, backoff>>

\* The process dies.  The row stays as it is; a restarted process makes a
\* new Locker with a new instanceID.
Crash(i) ==
    /\ ~Dead(i)
    /\ pc' = [g \in Goroutines |-> IF LockerOf[g] = i THEN "dead" ELSE pc[g]]
    /\ mu' = [mu EXCEPT ![i] = NoOne]
    /\ hb' = [hb EXCEPT ![i] = Off]
    /\ UNCHANGED <<table, row, fails, backoff, cancelled>>

\* One tick of the database's clock.  The steps between taking the row and
\* starting the ticker, and a heartbeat that is due, take no time: a late
\* heartbeat is one that fails.
Tick ==
    /\ \A i \in Instances : hb[i] # 0
    /\ \A g \in Goroutines : pc[g] # "startHeartbeat"
    /\ ttl' = IF owner # Free /\ ttl >= 0 THEN ttl - 1 ELSE ttl
    /\ hb' = [i \in Instances |-> IF hb[i] > 0 THEN hb[i] - 1 ELSE hb[i]]
    /\ UNCHANGED <<table, owner, pc, mu, fails, backoff, cancelled>>

-----------------------------------------------------------------------------
LockStep(g) ==
    \/ LockMu(g) \/ CreateLockTableFails(g) \/ CheckLockTable(g)
    \/ CreateLockTable(g) \/ AcquireLock(g) \/ AcquireBusy(g)
    \/ AcquireError(g) \/ RetryAcquire(g) \/ GiveUpAcquire(g)
    \/ startHeartbeat(g)

UnlockStep(g) ==
    Unlock(g) \/ ReleaseLock(g) \/ RetryRelease(g) \/ GiveUpRelease(g)

HeartbeatStep(i) ==
    \/ UpdateLease(i) \/ UpdateLeaseNotHeld(i) \/ UpdateLeaseError(i)
    \/ HeartbeatCancelled(i)

Next == \/ \E g \in Goroutines :
              CallLock(g) \/ LockStep(g) \/ UnlockStep(g) \/ CancelContext(g)
        \/ \E i \in Instances : HeartbeatStep(i) \/ Crash(i)
        \/ Tick

Spec == Init /\ [][Next]_vars

\* Go schedules every runnable goroutine and time passes.  sync.Mutex hands
\* a starving waiter the mutex, hence strong fairness for LockMu; heartbeats
\* and row grabs disable Tick now and then, hence strong fairness for it.
\* The holder's work ends, by a result or by an error, and it calls Unlock.
Fairness == /\ \A g \in Goroutines :
                  /\ WF_vars(LockStep(g)) /\ SF_vars(LockMu(g))
                  /\ WF_vars(UnlockStep(g))
            /\ \A i \in Instances : WF_vars(HeartbeatStep(i))
            /\ SF_vars(Tick)

FairSpec == Spec /\ Fairness

-----------------------------------------------------------------------------
(* Properties *)

Held(g) == pc[g] = "held"

\* The configurations in which the lease covers the work: a lease as the
\* database sees it spans the heartbeats that may fail in a row and the one
\* that succeeds, and nobody cancels the context the heartbeat depends on.
SafeConfig == /\ (MaxFailures + 1) * HeartbeatInterval <= Lease
              /\ ~MayCancel

\* At most one goroutine of all processes is between a successful Lock and
\* the call of Unlock (Locker.Lock: "Only one goroutine can hold the lock at
\* a time across the entire lifecycle").
MutualExclusion == \A g, h \in Goroutines : Held(g) /\ Held(h) => g = h

\* A goroutine that took the row or holds the lock owns the row, and the
\* lease lasts to its next heartbeat and through the failures it may still
\* have: between AcquireLock and Unlock no other process may take the row.
Reserve(i) == hb[i] + (MaxFailures - fails[i]) * HeartbeatInterval

Covered(g) ==
    LET i == LockerOf[g] IN
    /\ pc[g] = "startHeartbeat" => owner = i /\ ttl = Lease
    /\ Held(g) => owner = i /\ hb[i] # Off /\ ttl >= Reserve(i)

HolderIsCovered == \A g \in Goroutines : Covered(g)

\* The mutex is held exactly by the goroutine that is inside Lock, in the
\* critical section or inside Unlock: no return path of Lock and Unlock
\* forgets it or gives back the mutex of another goroutine.
MutexDiscipline ==
    \A g \in Goroutines : mu[LockerOf[g]] = g <=> pc[g] \in HoldsMu

\* A heartbeat runs only while its instance is in the critical section, so
\* no lease is renewed once stopHeartbeat has returned in Unlock.
NoOrphanHeartbeat ==
    \A i \in Instances :
        hb[i] # Off => \E g \in Goroutines : LockerOf[g] = i /\ Held(g)

\* Nobody but the owner ends a lease that has not run out, neither by
\* AcquireLock nor by CleanupStaleLocks nor by an Unlock that comes late,
\* and the owner only while it is inside Unlock.
LeaseIsRespected ==
    [][owner # Free /\ ttl >= 0 /\ owner' # owner =>
         /\ owner' = Free
         /\ \E g \in Goroutines : LockerOf[g] = owner /\ pc[g] = "release"]_vars

\* Every call of Lock comes to an end.
LockReturns ==
    \A g \in Goroutines :
        pc[g] = "lockMu" ~> pc[g] \in {"held", "idle", "dead"}

\* The row of a dead process does not block the others for ever: as long as
\* the database goes on answering attempts to take it, it is taken over or
\* cleaned up.
DeadOwnerIsReplaced ==
    \A i \in Instances :
        []<><<\E g \in Goroutines : AcquireLock(g) \/ AcquireBusy(g)>>_vars
            => ((Dead(i) /\ owner = i) ~> owner # i)

\* In a safe configuration the table locker is a lock.
Mutex == INSTANCE MutexLock
            WITH Clients <- Goroutines,
                 holders <- {g \in Goroutines : Held(g)}

ImplementsMutex == Mutex!Spec
=============================================================================
