-------------------------- MODULE TableLockerProofs --------------------------
(***************************************************************************)
(* Proofs about TableLocker, for every number of processes and goroutines, *)
(* every lease and every heartbeat interval.                               *)
(***************************************************************************)
EXTENDS TableLocker, TLAPS

\* The lease the database is told is a natural number of ticks.
LEMMA LeaseNat == Lease \in Nat
<1>1. LeaseDuration \div Second \in Nat
  BY ConfigAssumption
<1> QED
  BY <1>1, ConfigAssumption DEF Lease

\* CleanupStaleLocks and the failing forms of ReleaseLock keep the row typed.
LEMMA RowTyped ==
    ASSUME TypeOK, NEW g \in Goroutines,
           CleanupStaleLocks(g) \/ ReleaseFailed(g)
    PROVE  owner' \in Instances \cup {Free} /\ ttl' \in -1..Lease
BY LeaseNat DEF TypeOK, CleanupStaleLocks, ClearStale, Stale, ReleaseFailed, row

\* Every step keeps the variables in their types.
LEMMA TypeStep == TypeOK /\ [Next]_vars => TypeOK'
<1> SUFFICES ASSUME TypeOK, [Next]_vars PROVE TypeOK'
  OBVIOUS
<1> USE LeaseNat, ConfigAssumption
<1>1. ASSUME NEW g \in Goroutines, CallLock(g) PROVE TypeOK'
  BY <1>1 DEF TypeOK, CallLock, Goto, PCs, HoldsMu, Locking, row, backoff
<1>2. ASSUME NEW g \in Goroutines, LockStep(g) PROVE TypeOK'
  <2>1. CASE LockMu(g)
    BY <2>1 DEF TypeOK, LockMu, Goto, PCs, HoldsMu, Locking, row, backoff
  <2>2. CASE CreateLockTableFails(g)
    BY <2>2 DEF TypeOK, CreateLockTableFails, Return, Goto, PCs, HoldsMu, Locking, row, backoff
  <2>3. CASE CheckLockTable(g)
    BY <2>3 DEF TypeOK, CheckLockTable, EnterAcquire, RetriesAtStart, Goto, PCs, HoldsMu,
          Locking, row, backoff
  <2>4. CASE CreateLockTable(g)
    BY <2>4 DEF TypeOK, CreateLockTable, EnterAcquire, RetriesAtStart, Goto, PCs, HoldsMu,
          Locking, row, backoff
  <2>5. CASE AcquireLock(g)
    BY <2>5 DEF TypeOK, AcquireLock, Goto, PCs, HoldsMu, Locking, row, backoff
  <2>6. CASE AcquireBusy(g)
    BY <2>6 DEF TypeOK, AcquireBusy, Goto, PCs, HoldsMu, Locking, row, backoff
  <2>7. CASE AcquireError(g)
    BY <2>7 DEF TypeOK, AcquireError, Goto, PCs, HoldsMu, Locking, row, backoff
  <2>8. CASE RetryAcquire(g)
    <3>1. owner' \in Instances \cup {Free} /\ ttl' \in -1..Lease
      BY <2>8, RowTyped DEF RetryAcquire
    <3> QED
      BY <2>8, <3>1 DEF TypeOK, RetryAcquire, Goto, PCs, HoldsMu, Locking
  <2>9. CASE GiveUpAcquire(g)
    <3>1. owner' \in Instances \cup {Free} /\ ttl' \in -1..Lease
      BY <2>9, RowTyped DEF GiveUpAcquire
    <3> QED
      BY <2>9, <3>1 DEF TypeOK, GiveUpAcquire, Return, Goto, PCs, HoldsMu, Locking, backoff
  <2>10. CASE startHeartbeat(g)
    BY <2>10 DEF TypeOK, startHeartbeat, Goto, PCs, HoldsMu, Locking, row, backoff
  <2> QED
    BY <1>2, <2>1, <2>2, <2>3, <2>4, <2>5, <2>6, <2>7, <2>8, <2>9, <2>10 DEF LockStep
<1>3. ASSUME NEW g \in Goroutines, UnlockStep(g) PROVE TypeOK'
  <2>1. CASE Unlock(g)
    BY <2>1 DEF TypeOK, Unlock, RetriesAtStart, Off, Goto, PCs, HoldsMu, Locking, row, backoff
  <2>2. CASE ReleaseLock(g)
    BY <2>2 DEF TypeOK, ReleaseLock, Return, Goto, PCs, HoldsMu, Locking, backoff
  <2>3. CASE RetryRelease(g)
    <3>1. owner' \in Instances \cup {Free} /\ ttl' \in -1..Lease
      BY <2>3, RowTyped DEF RetryRelease
    <3> QED
      BY <2>3, <3>1 DEF TypeOK, RetryRelease
  <2>4. CASE GiveUpRelease(g)
    <3>1. owner' \in Instances \cup {Free} /\ ttl' \in -1..Lease
      BY <2>4, RowTyped DEF GiveUpRelease
    <3> QED
      BY <2>4, <3>1 DEF TypeOK, GiveUpRelease, Return, Goto, PCs, HoldsMu, Locking, backoff
  <2> QED
    BY <1>3, <2>1, <2>2, <2>3, <2>4 DEF UnlockStep
<1>4. ASSUME NEW g \in Goroutines, CancelContext(g) PROVE TypeOK'
  BY <1>4 DEF TypeOK, CancelContext, row, backoff
<1>5. ASSUME NEW i \in Instances, HeartbeatStep(i) PROVE TypeOK'
  BY <1>5 DEF TypeOK, HeartbeatStep, UpdateLease, UpdateLeaseNotHeld,
              UpdateLeaseError, HeartbeatCancelled, Off, row, backoff
<1>6. ASSUME NEW i \in Instances, Crash(i) PROVE TypeOK'
  BY <1>6 DEF TypeOK, Crash, Off, PCs, row, backoff
<1>7. CASE Tick
  BY <1>7 DEF TypeOK, Tick, backoff
<1>8. CASE UNCHANGED vars
  BY <1>8 DEF TypeOK, vars, row, backoff
<1> QED
  BY <1>1, <1>2, <1>3, <1>4, <1>5, <1>6, <1>7, <1>8 DEF Next

\* The initial state is well typed.
LEMMA TypeInit == Init => TypeOK
<1> SUFFICES ASSUME Init PROVE TypeOK
  OBVIOUS
<1> USE ConfigAssumption DEF Init
<1>1. pc \in [Goroutines -> PCs]
  BY DEF PCs
<1>2. ttl \in -1..Lease
  BY LeaseNat
<1>3. hb \in [Instances -> -1..HeartbeatInterval]
  BY DEF Off
<1>4. /\ fails \in [Instances -> 0..MaxFailures]
      /\ retryLock \in [Instances -> 0..LockRetries]
      /\ retryUnlock \in [Instances -> 0..UnlockRetries]
  OBVIOUS
<1> QED
  BY <1>1, <1>2, <1>3, <1>4 DEF TypeOK

\* Every reachable state of the table locker is well typed; in particular the
\* retry counts and the lease stay within what the configuration allows.
THEOREM TypeCorrect == Spec => []TypeOK
BY TypeInit, TypeStep, PTL DEF Spec

-----------------------------------------------------------------------------
(* The mutex and the heartbeat, in every configuration *)

\* A step from one place with the mutex held to another.
LEMMA StayInside ==
    ASSUME TypeOK, MutexDiscipline, NEW g \in Goroutines, NEW l \in HoldsMu,
           pc[g] \in HoldsMu, Goto(g, l), mu' = mu
    PROVE  MutexDiscipline'
BY DEF MutexDiscipline, Goto, TypeOK

\* The return from Lock or Unlock with the mutex held.
LEMMA ReturnOutside ==
    ASSUME TypeOK, MutexDiscipline, NEW g \in Goroutines,
           pc[g] \in HoldsMu, Return(g)
    PROVE  MutexDiscipline'
BY ConfigAssumption DEF MutexDiscipline, Return, Goto, TypeOK, HoldsMu, Locking

\* No step of any goroutine, heartbeat or process breaks the discipline.
LEMMA MutexStep == TypeOK /\ MutexDiscipline /\ [Next]_vars => MutexDiscipline'
<1> SUFFICES ASSUME TypeOK, MutexDiscipline, [Next]_vars PROVE MutexDiscipline'
  OBVIOUS
<1>1. ASSUME NEW g \in Goroutines, CallLock(g) PROVE MutexDiscipline'
  BY <1>1 DEF CallLock, Goto, MutexDiscipline, TypeOK, HoldsMu, Locking
<1>2. ASSUME NEW g \in Goroutines, LockStep(g) PROVE MutexDiscipline'
  <2>1. CASE LockMu(g)
    <3> SUFFICES ASSUME NEW h \in Goroutines
                 PROVE  mu'[LockerOf[h]] = h <=> pc'[h] \in HoldsMu
      BY DEF MutexDiscipline
    <3>1. CASE h = g
      BY <2>1, <3>1, ConfigAssumption DEF LockMu, Goto, TypeOK, HoldsMu, Locking
    <3>2. CASE h # g
      <4>1. pc'[h] = pc[h]
        BY <2>1, <3>2 DEF LockMu, Goto, TypeOK
      <4>2. mu'[LockerOf[h]] = h <=> mu[LockerOf[h]] = h
        BY <2>1, <3>2, ConfigAssumption DEF LockMu, TypeOK
      <4> QED
        BY <4>1, <4>2 DEF MutexDiscipline
    <3> QED
      BY <3>1, <3>2
  <2>2. CASE CreateLockTableFails(g) \/ GiveUpAcquire(g)
    <3>1. pc[g] \in HoldsMu /\ Return(g)
      BY <2>2 DEF CreateLockTableFails, GiveUpAcquire, HoldsMu, Locking
    <3> QED
      BY <3>1, ReturnOutside
  <2>3. CASE CheckLockTable(g)
    <3>1. /\ pc[g] \in HoldsMu /\ mu' = mu
          /\ Goto(g, "acquire") \/ Goto(g, "createTable")
      BY <2>3 DEF CheckLockTable, EnterAcquire, HoldsMu, Locking
    <3> QED
      BY <3>1, StayInside DEF HoldsMu, Locking
  <2>4. CASE CreateLockTable(g) \/ RetryAcquire(g)
    <3>1. pc[g] \in HoldsMu /\ mu' = mu /\ Goto(g, "acquire")
      BY <2>4 DEF CreateLockTable, EnterAcquire, RetryAcquire, HoldsMu, Locking
    <3> QED
      BY <3>1, StayInside DEF HoldsMu, Locking
  <2>5. CASE AcquireLock(g)
    <3>1. pc[g] \in HoldsMu /\ mu' = mu /\ Goto(g, "startHeartbeat")
      BY <2>5 DEF AcquireLock, HoldsMu, Locking
    <3> QED
      BY <3>1, StayInside DEF HoldsMu, Locking
  <2>6. CASE AcquireBusy(g) \/ AcquireError(g)
    <3>1. pc[g] \in HoldsMu /\ mu' = mu /\ Goto(g, "cleanup")
      BY <2>6 DEF AcquireBusy, AcquireError, HoldsMu, Locking
    <3> QED
      BY <3>1, StayInside DEF HoldsMu, Locking
  <2>7. CASE startHeartbeat(g)
    <3>1. pc[g] \in HoldsMu /\ mu' = mu /\ Goto(g, "held")
      BY <2>7 DEF startHeartbeat, HoldsMu, Locking
    <3> QED
      BY <3>1, StayInside DEF HoldsMu, Locking
  <2> QED
    BY <1>2, <2>1, <2>2, <2>3, <2>4, <2>5, <2>6, <2>7 DEF LockStep
<1>3. ASSUME NEW g \in Goroutines, UnlockStep(g) PROVE MutexDiscipline'
  <2>1. CASE Unlock(g)
    <3>1. pc[g] \in HoldsMu /\ mu' = mu /\ Goto(g, "release")
      BY <2>1 DEF Unlock, HoldsMu, Locking
    <3> QED
      BY <3>1, StayInside DEF HoldsMu, Locking
  <2>2. CASE ReleaseLock(g) \/ GiveUpRelease(g)
    <3>1. pc[g] \in HoldsMu /\ Return(g)
      BY <2>2 DEF ReleaseLock, GiveUpRelease, HoldsMu, Locking
    <3> QED
      BY <3>1, ReturnOutside
  <2>3. CASE RetryRelease(g)
    BY <2>3 DEF RetryRelease, MutexDiscipline
  <2> QED
    BY <1>3, <2>1, <2>2, <2>3 DEF UnlockStep
<1>4. ASSUME NEW g \in Goroutines, CancelContext(g) PROVE MutexDiscipline'
  BY <1>4 DEF CancelContext, MutexDiscipline
<1>5. ASSUME NEW i \in Instances, HeartbeatStep(i) PROVE MutexDiscipline'
  BY <1>5 DEF HeartbeatStep, UpdateLease, UpdateLeaseNotHeld, UpdateLeaseError,
              HeartbeatCancelled, MutexDiscipline
<1>6. ASSUME NEW i \in Instances, Crash(i) PROVE MutexDiscipline'
  BY <1>6, ConfigAssumption DEF Crash, MutexDiscipline, TypeOK, HoldsMu, Locking
<1>7. CASE Tick
  BY <1>7 DEF Tick, MutexDiscipline
<1>8. CASE UNCHANGED vars
  BY <1>8 DEF vars, MutexDiscipline
<1> QED
  BY <1>1, <1>2, <1>3, <1>4, <1>5, <1>6, <1>7, <1>8 DEF Next

\* Whatever the database, the caller's context and the other processes do,
\* l.mu is held exactly by the goroutine between the start of a Lock that has
\* not failed and the end of its Unlock.
THEOREM MutexIsDisciplined == Spec => []MutexDiscipline
<1>1. Init => MutexDiscipline
  BY ConfigAssumption DEF Init, MutexDiscipline, HoldsMu, Locking
<1> QED
  BY <1>1, MutexStep, TypeCorrect, PTL DEF Spec

-----------------------------------------------------------------------------
\* A step that leaves the heartbeats alone and no goroutine out of "held".
LEMMA HeartbeatsUntouched ==
    ASSUME TypeOK, NoOrphanHeartbeat, hb' = hb,
           \A g \in Goroutines : Held(g) => Held(g)'
    PROVE  NoOrphanHeartbeat'
BY DEF NoOrphanHeartbeat

\* No step leaves a heartbeat running outside the critical section.
LEMMA HeartbeatStaysInside ==
    TypeOK /\ MutexDiscipline /\ NoOrphanHeartbeat /\ [Next]_vars => NoOrphanHeartbeat'
<1> SUFFICES ASSUME TypeOK, MutexDiscipline, NoOrphanHeartbeat, [Next]_vars
             PROVE  NoOrphanHeartbeat'
  OBVIOUS
<1>1. ASSUME NEW g \in Goroutines, CallLock(g) PROVE NoOrphanHeartbeat'
  BY <1>1, HeartbeatsUntouched DEF CallLock, Goto, Held, TypeOK
<1>2. ASSUME NEW g \in Goroutines, LockStep(g) PROVE NoOrphanHeartbeat'
  <2>1. CASE startHeartbeat(g)
    BY <2>1, ConfigAssumption DEF startHeartbeat, Goto, Held, NoOrphanHeartbeat, TypeOK
  <2>2. CASE ~startHeartbeat(g)
    <3>1. hb' = hb /\ pc[g] # "held" /\ \E l \in PCs : Goto(g, l)
      BY <1>2, <2>2 DEF LockStep, LockMu, CreateLockTableFails, CheckLockTable, CreateLockTable,
            EnterAcquire, AcquireLock, AcquireBusy, AcquireError, RetryAcquire,
            GiveUpAcquire, Return, PCs, HoldsMu, Locking
    <3> QED
      BY <3>1, HeartbeatsUntouched DEF Goto, Held, TypeOK
  <2> QED
    BY <2>1, <2>2
<1>3. ASSUME NEW g \in Goroutines, UnlockStep(g) PROVE NoOrphanHeartbeat'
  <2>1. CASE Unlock(g)
    <3> SUFFICES ASSUME NEW i \in Instances, hb'[i] # Off
                 PROVE  \E h \in Goroutines : LockerOf[h] = i /\ Held(h)'
      BY DEF NoOrphanHeartbeat
    <3>1. i # LockerOf[g] /\ hb[i] # Off
      BY <2>1 DEF Unlock, TypeOK
    <3>2. PICK h \in Goroutines : LockerOf[h] = i /\ Held(h)
      BY <3>1 DEF NoOrphanHeartbeat
    <3> QED
      BY <2>1, <3>1, <3>2 DEF Unlock, Goto, Held, TypeOK
  <2>2. CASE ReleaseLock(g) \/ GiveUpRelease(g)
    <3>1. hb' = hb /\ pc[g] = "release" /\ Goto(g, "idle")
      BY <2>2 DEF ReleaseLock, GiveUpRelease, Return
    <3> QED
      BY <3>1, HeartbeatsUntouched DEF Goto, Held, TypeOK
  <2>3. CASE RetryRelease(g)
    BY <2>3, HeartbeatsUntouched DEF RetryRelease, Held
  <2> QED
    BY <1>3, <2>1, <2>2, <2>3 DEF UnlockStep
<1>4. ASSUME NEW g \in Goroutines, CancelContext(g) PROVE NoOrphanHeartbeat'
  BY <1>4, HeartbeatsUntouched DEF CancelContext, Held
<1>5. ASSUME NEW i \in Instances, HeartbeatStep(i) PROVE NoOrphanHeartbeat'
  BY <1>5 DEF HeartbeatStep, UpdateLease, UpdateLeaseNotHeld, UpdateLeaseError,
              HeartbeatCancelled, NoOrphanHeartbeat, Held, TypeOK, Off
<1>6. ASSUME NEW i \in Instances, Crash(i) PROVE NoOrphanHeartbeat'
  BY <1>6, ConfigAssumption DEF Crash, NoOrphanHeartbeat, Held, TypeOK
<1>7. CASE Tick
  BY <1>7 DEF Tick, NoOrphanHeartbeat, Held, TypeOK, Off
<1>8. CASE UNCHANGED vars
  BY <1>8, HeartbeatsUntouched DEF vars, Held
<1> QED
  BY <1>1, <1>2, <1>3, <1>4, <1>5, <1>6, <1>7, <1>8 DEF Next

\* Whatever happens, a heartbeat goroutine exists only while a goroutine of
\* its process is in the critical section.
THEOREM HeartbeatIsNeverOrphaned == Spec => []NoOrphanHeartbeat
<1>1. Init => NoOrphanHeartbeat
  BY DEF Init, NoOrphanHeartbeat
<1> QED
  BY <1>1, HeartbeatStaysInside, TypeCorrect, MutexIsDisciplined, PTL DEF Spec

-----------------------------------------------------------------------------
(* The lease, in every configuration *)

\* No step of anybody takes a lease that has not run out away from its owner,
\* except the owner's own Unlock.
THEOREM LeasesAreRespected == Spec => LeaseIsRespected
<1> DEFINE Respected ==
      owner # Free /\ ttl >= 0 /\ owner' # owner =>
         /\ owner' = Free
         /\ \E g \in Goroutines : LockerOf[g] = owner /\ pc[g] = "release"
<1>1. ASSUME TypeOK, [Next]_vars PROVE Respected
  <2> SUFFICES ASSUME owner # Free, ttl >= 0, owner' # owner
               PROVE  /\ owner' = Free
                      /\ \E g \in Goroutines : LockerOf[g] = owner /\ pc[g] = "release"
    OBVIOUS
  <2>1. ttl \in Int
    BY <1>1, LeaseNat DEF TypeOK
  <2>2. ~(ttl < 0)
    BY <2>1
  <2>3. ASSUME NEW g \in Goroutines PROVE ~CallLock(g) /\ ~LockStep(g) /\ ~CancelContext(g)
    BY <2>2 DEF CallLock, CancelContext, LockStep, LockMu, CreateLockTableFails, CheckLockTable,
          CreateLockTable, AcquireLock, AcquireBusy, AcquireError, RetryAcquire, GiveUpAcquire,
          startHeartbeat, CleanupStaleLocks, ClearStale, Stale, Acquirable, row
  <2>4. ASSUME NEW i \in Instances PROVE ~HeartbeatStep(i) /\ ~Crash(i)
    BY DEF HeartbeatStep, UpdateLease, UpdateLeaseNotHeld, UpdateLeaseError,
           HeartbeatCancelled, Crash, row
  <2>5. ~Tick /\ ~UNCHANGED vars
    BY DEF Tick, vars, row
  <2>6. PICK g \in Goroutines : UnlockStep(g)
    BY <1>1, <2>3, <2>4, <2>5 DEF Next
  <2>7. pc[g] = "release" /\ owner = LockerOf[g] /\ owner' = Free
    BY <2>6 DEF UnlockStep, Unlock, ReleaseLock, RetryRelease, GiveUpRelease, ReleaseFailed, row
  <2> QED
    BY <2>7
<1> QED
  BY <1>1, TypeCorrect, PTL DEF Spec, LeaseIsRespected

-----------------------------------------------------------------------------
(* Mutual exclusion, in the safe configurations *)

\* Without cancellation no context is ever cancelled.
NoneCancelled == \A g \in Goroutines : ~cancelled[g]

\* The inductive invariant of the safe configurations.
IInv == TypeOK /\ MutexDiscipline /\ NoneCancelled /\ HolderIsCovered

\* Two goroutines that hold the mutex of one Locker are the same.
LEMMA OnePerLocker ==
    ASSUME MutexDiscipline, NEW g \in Goroutines, NEW h \in Goroutines,
           pc[g] \in HoldsMu, pc[h] \in HoldsMu, LockerOf[g] = LockerOf[h]
    PROVE  g = h
BY DEF MutexDiscipline

\* The arithmetic of the reserve: one failure less is one interval less.
LEMMA Intervals ==
    ASSUME NEW k \in Nat, NEW n \in Nat
    PROVE  /\ k * n \in Nat
           /\ (k + 1) * n = k * n + n
OBVIOUS

\* The reserve of a running heartbeat is a natural number.
LEMMA ReserveNat ==
    ASSUME TypeOK, NEW i \in Instances, hb[i] # Off
    PROVE  Reserve(i) \in Nat
<1>1. MaxFailures - fails[i] \in Nat /\ hb[i] \in Nat
  BY ConfigAssumption DEF TypeOK, Off
<1>2. (MaxFailures - fails[i]) * HeartbeatInterval \in Nat
  BY <1>1, Intervals, ConfigAssumption
<1> QED
  BY <1>1, <1>2 DEF Reserve

\* The reserve after a heartbeat that renewed the lease fits into it.
LEMMA FullReserve ==
    ASSUME SafeConfig
    PROVE  HeartbeatInterval + (MaxFailures - 0) * HeartbeatInterval <= Lease
<1>1. (MaxFailures + 1) * HeartbeatInterval = MaxFailures * HeartbeatInterval + HeartbeatInterval
  BY Intervals, ConfigAssumption
<1>2. MaxFailures * HeartbeatInterval \in Nat
  BY Intervals, ConfigAssumption
<1>3. MaxFailures - 0 = MaxFailures
  BY ConfigAssumption
<1> QED
  BY <1>1, <1>2, <1>3, LeaseNat, ConfigAssumption DEF SafeConfig

\* While somebody is between AcquireLock and Unlock, it owns the row and the
\* row cannot be taken.
LEMMA RowIsTaken ==
    ASSUME IInv, NEW h \in Goroutines, pc[h] \in {"startHeartbeat", "held"}
    PROVE  owner = LockerOf[h] /\ ttl >= 0 /\ ~Acquirable
<1>1. Covered(h) /\ LockerOf[h] \in Instances
  BY ConfigAssumption DEF IInv, HolderIsCovered
<1>2. owner = LockerOf[h] /\ ttl >= 0
  <2>1. CASE pc[h] = "startHeartbeat"
    BY <1>1, <2>1, LeaseNat DEF Covered
  <2>2. CASE pc[h] = "held"
    <3>1. hb[LockerOf[h]] # Off /\ ttl >= Reserve(LockerOf[h]) /\ owner = LockerOf[h]
      BY <1>1, <2>2 DEF Covered, Held
    <3>2. Reserve(LockerOf[h]) \in Nat
      BY <1>1, <3>1, ReserveNat DEF IInv
    <3>3. ttl \in Int
      BY LeaseNat DEF IInv, TypeOK
    <3> QED
      BY <3>1, <3>2, <3>3
  <2> QED
    BY <2>1, <2>2
<1>3. ttl \in Int
  BY LeaseNat DEF IInv, TypeOK
<1> QED
  BY <1>1, <1>2, <1>3, ConfigAssumption DEF Acquirable, Stale

\* Somebody between AcquireLock and Unlock is alone there.
LEMMA RowIsTakenOnce ==
    ASSUME IInv, NEW g \in Goroutines, NEW h \in Goroutines,
           pc[g] \in {"startHeartbeat", "held"}, pc[h] \in {"startHeartbeat", "held"}
    PROVE  g = h
<1>1. LockerOf[g] = LockerOf[h]
  BY RowIsTaken
<1> QED
  BY <1>1, OnePerLocker DEF IInv, HoldsMu

\* A step that leaves the row and the heartbeats alone, and takes nobody
\* into the critical section.
LEMMA CoverKept ==
    ASSUME HolderIsCovered, owner' = owner, ttl' = ttl, hb' = hb, fails' = fails,
           \A h \in Goroutines :
              pc'[h] \in {"startHeartbeat", "held"} => pc'[h] = pc[h]
    PROVE  HolderIsCovered'
BY DEF HolderIsCovered, Covered, Held, Reserve

\* A step after which nobody is between AcquireLock and Unlock.
LEMMA CoverVoid ==
    ASSUME \A h \in Goroutines : pc'[h] \notin {"startHeartbeat", "held"}
    PROVE  HolderIsCovered'
BY DEF HolderIsCovered, Covered, Held

\* No step of Lock uncovers a holder: while there is one, the row is not to
\* be had, and the one that takes it gets a full lease.
LEMMA CoverLock ==
    ASSUME SafeConfig, IInv, NEW g \in Goroutines, LockStep(g)
    PROVE  HolderIsCovered'
<1> USE DEF IInv
<1>1. CASE LockMu(g) \/ CreateLockTableFails(g) \/ CheckLockTable(g)
           \/ CreateLockTable(g) \/ AcquireBusy(g)
  <2>1. /\ owner' = owner /\ ttl' = ttl /\ hb' = hb /\ fails' = fails
        /\ \E l \in PCs \ {"startHeartbeat", "held"} : Goto(g, l)
    BY <1>1 DEF LockMu, CreateLockTableFails, CheckLockTable, CreateLockTable, AcquireBusy,
                EnterAcquire, Return, PCs, HoldsMu, Locking, row
  <2> QED
    BY <2>1, CoverKept DEF Goto, TypeOK
<1>2. CASE AcquireLock(g)
  <2>1. \A h \in Goroutines : pc[h] \notin {"startHeartbeat", "held"}
    BY <1>2, RowIsTaken DEF AcquireLock
  <2>2. /\ \A h \in Goroutines \ {g} : pc'[h] \notin {"startHeartbeat", "held"}
        /\ pc'[g] = "startHeartbeat" /\ owner' = LockerOf[g] /\ ttl' = Lease
    BY <1>2, <2>1 DEF AcquireLock, Goto, TypeOK
  <2>3. Lease' = Lease
    BY DEF Lease
  <2> QED
    BY <2>2, <2>3 DEF HolderIsCovered, Covered, Held
<1>3. CASE AcquireError(g) \/ RetryAcquire(g) \/ GiveUpAcquire(g)
  <2>1. /\ hb' = hb /\ fails' = fails
        /\ \E l \in PCs \ {"startHeartbeat", "held"} : Goto(g, l)
    BY <1>3 DEF AcquireError, RetryAcquire, GiveUpAcquire, Return, PCs, HoldsMu, Locking
  <2>2. CASE UNCHANGED row
    BY <2>1, <2>2, CoverKept DEF Goto, TypeOK, row
  <2>3. CASE ~UNCHANGED row
    <3>1. Acquirable
      BY <1>3, <2>3 DEF AcquireError, RetryAcquire, GiveUpAcquire, CleanupStaleLocks,
                        ClearStale, Stale, Acquirable
    <3>2. \A h \in Goroutines : pc[h] \notin {"startHeartbeat", "held"}
      BY <3>1, RowIsTaken
    <3> QED
      BY <2>1, <3>2, CoverVoid DEF Goto, TypeOK
  <2> QED
    BY <2>2, <2>3
<1>4. CASE startHeartbeat(g)
  <2>1. owner = LockerOf[g] /\ ttl = Lease /\ LockerOf[g] \in Instances
    BY <1>4, ConfigAssumption DEF startHeartbeat, HolderIsCovered, Covered
  <2>2. \A h \in Goroutines \ {g} : pc'[h] \notin {"startHeartbeat", "held"}
    BY <1>4, RowIsTakenOnce DEF startHeartbeat, Goto, TypeOK
  <2>3. /\ pc'[g] = "held" /\ hb'[LockerOf[g]] = HeartbeatInterval
        /\ fails'[LockerOf[g]] = 0 /\ owner' = owner /\ ttl' = ttl
    BY <1>4, <2>1 DEF startHeartbeat, Goto, TypeOK, row
  <2>4. ttl' >= Reserve(LockerOf[g])'
    BY <2>1, <2>3, FullReserve, LeaseNat DEF Reserve
  <2>5. hb'[LockerOf[g]] # Off
    BY <2>3, ConfigAssumption DEF Off
  <2>6. Covered(g)'
    BY <2>1, <2>3, <2>4, <2>5 DEF Covered, Off
  <2>7. \A h \in Goroutines \ {g} : Covered(h)'
    BY <2>2 DEF Covered, Held
  <2> QED
    BY <2>6, <2>7 DEF HolderIsCovered
<1> QED
  BY <1>1, <1>2, <1>3, <1>4 DEF LockStep

\* Unlock and its retries touch only the row of the goroutine that left the
\* critical section, and nobody else is in it.
LEMMA CoverUnlock ==
    ASSUME SafeConfig, IInv, NEW g \in Goroutines, UnlockStep(g)
    PROVE  HolderIsCovered'
<1> USE DEF IInv
<1>1. CASE Unlock(g)
  <2>1. \A h \in Goroutines : pc'[h] \notin {"startHeartbeat", "held"}
    BY <1>1, RowIsTakenOnce DEF Unlock, Goto, TypeOK
  <2> QED
    BY <2>1, CoverVoid
<1>2. CASE ReleaseLock(g) \/ RetryRelease(g) \/ GiveUpRelease(g)
  <2>1. /\ pc[g] = "release" /\ hb' = hb /\ fails' = fails
        /\ pc' = pc \/ Goto(g, "idle")
    BY <1>2 DEF ReleaseLock, RetryRelease, GiveUpRelease, Return
  <2>2. CASE UNCHANGED row
    BY <2>1, <2>2, CoverKept DEF TypeOK, Goto, row
  <2>3. CASE ~UNCHANGED row
    <3>1. owner = LockerOf[g]
      BY <1>2, <2>3 DEF ReleaseLock, RetryRelease, GiveUpRelease, ReleaseFailed
    <3>2. \A h \in Goroutines : pc[h] \notin {"startHeartbeat", "held"}
      BY <2>1, <3>1, RowIsTaken, OnePerLocker DEF HoldsMu
    <3> QED
      BY <2>1, <3>2, CoverVoid DEF Goto, TypeOK
  <2> QED
    BY <2>2, <2>3
<1> QED
  BY <1>1, <1>2 DEF UnlockStep

\* A heartbeat that succeeds fills the reserve, one that fails uses up one
\* interval of it, and none is stopped by a cancelled context.
LEMMA CoverHeartbeat ==
    ASSUME SafeConfig, IInv, NEW i \in Instances, HeartbeatStep(i)
    PROVE  HolderIsCovered'
<1> USE DEF IInv
<1> SUFFICES ASSUME NEW h \in Goroutines PROVE Covered(h)'
  BY DEF HolderIsCovered
<1> DEFINE j == LockerOf[h]
<1>1. Covered(h) /\ j \in Instances
  BY ConfigAssumption DEF HolderIsCovered
<1>2. CASE UpdateLease(i)
  <2>1. Lease' = Lease /\ owner' = owner /\ pc' = pc /\ ttl' = Lease
    BY <1>2 DEF UpdateLease, Lease
  <2>2. CASE pc[h] = "held"
    <3>1. j = i
      BY <1>1, <1>2, <2>2 DEF UpdateLease, Covered, Held
    <3>2. hb'[i] = HeartbeatInterval /\ fails'[i] = 0
      BY <1>2 DEF UpdateLease, TypeOK
    <3>3. ttl' >= Reserve(i)' /\ hb'[i] # Off
      BY <2>1, <3>2, FullReserve, LeaseNat, ConfigAssumption DEF Reserve, Off
    <3> QED
      BY <1>1, <2>1, <2>2, <3>1, <3>3 DEF Covered, Held, Off
  <2>3. CASE pc[h] # "held"
    BY <1>1, <2>1, <2>3 DEF Covered, Held
  <2> QED
    BY <2>2, <2>3
<1>3. CASE UpdateLeaseNotHeld(i)
  <2>1. owner' = owner /\ ttl' = ttl /\ pc' = pc /\ fails' = fails
    BY <1>3 DEF UpdateLeaseNotHeld, row
  <2>2. Held(h) => hb'[j] = hb[j]
    BY <1>1, <1>3 DEF UpdateLeaseNotHeld, Covered, TypeOK
  <2> QED
    BY <1>1, <2>1, <2>2 DEF Covered, Held, Reserve, Off
<1>4. CASE UpdateLeaseError(i)
  <2>1. owner' = owner /\ pc' = pc /\ (ttl' = ttl \/ ttl' = Lease) /\ Lease' = Lease
    BY <1>4 DEF UpdateLeaseError, Lease
  <2>2. CASE Held(h) /\ j = i
    <3>1. /\ hb[i] = 0 /\ fails[i] < MaxFailures
          /\ hb'[i] = HeartbeatInterval /\ fails'[i] = fails[i] + 1
      BY <1>4 DEF UpdateLeaseError, TypeOK
    <3> DEFINE k == MaxFailures - fails[i] - 1
    <3>2. k \in Nat /\ fails[i] \in Nat
      BY <3>1, ConfigAssumption DEF TypeOK
    <3>3. (k + 1) * HeartbeatInterval = k * HeartbeatInterval + HeartbeatInterval
      BY <3>2, Intervals, ConfigAssumption
    <3>4. k + 1 = MaxFailures - fails[i] /\ k = MaxFailures - (fails[i] + 1)
      BY <3>2, ConfigAssumption
    <3>5. k * HeartbeatInterval \in Nat
      BY <3>2, Intervals, ConfigAssumption
    <3>6. Reserve(i) = k * HeartbeatInterval + HeartbeatInterval
      BY <3>1, <3>3, <3>4, <3>5, ConfigAssumption DEF Reserve
    <3>7. Reserve(i)' = Reserve(i)
      <4>1. Reserve(i)' = HeartbeatInterval + k * HeartbeatInterval
        BY <3>1, <3>4 DEF Reserve
      <4> QED
        BY <4>1, <3>6, <3>5, ConfigAssumption
    <3>8. ttl \in Int /\ ttl <= Lease /\ ttl >= Reserve(i)
      BY <1>1, <2>2, LeaseNat DEF TypeOK, Covered
    <3>9. ttl' >= Reserve(i)'
      BY <2>1, <3>5, <3>6, <3>7, <3>8, LeaseNat, ConfigAssumption
    <3>10. hb'[i] # Off
      BY <3>1, ConfigAssumption DEF Off
    <3> QED
      BY <1>1, <2>1, <2>2, <3>9, <3>10 DEF Covered, Held, Off
  <2>3. CASE Held(h) /\ j # i
    <3>1. /\ hb'[j] = hb[j] /\ fails'[j] = fails[j] /\ ttl' = ttl
      BY <1>1, <1>4, <2>3 DEF UpdateLeaseError, TypeOK, Covered
    <3> QED
      BY <1>1, <2>1, <2>3, <3>1 DEF Covered, Held, Reserve, Off
  <2>4. CASE ~Held(h)
    BY <1>1, <2>1, <2>4 DEF Covered, Held
  <2> QED
    BY <2>2, <2>3, <2>4
<1>5. ~HeartbeatCancelled(i)
  BY DEF HeartbeatCancelled, NoneCancelled
<1> QED
  BY <1>2, <1>3, <1>4, <1>5 DEF HeartbeatStep

\* Time takes one tick from the lease and one from every running heartbeat.
LEMMA CoverTick ==
    ASSUME IInv, Tick PROVE HolderIsCovered'
<1> USE DEF IInv
<1> SUFFICES ASSUME NEW h \in Goroutines, Held(h)' PROVE Covered(h)'
  BY DEF HolderIsCovered, Covered, Tick
<1> DEFINE j == LockerOf[h]
<1>1. /\ owner' = owner /\ fails' = fails /\ pc' = pc /\ Held(h)
      /\ j \in Instances /\ pc[h] # "startHeartbeat"
  BY ConfigAssumption DEF Tick, Held
<1>2. owner = j /\ hb[j] # Off /\ ttl >= Reserve(j)
  BY <1>1 DEF HolderIsCovered, Covered
<1>3. ttl >= 0 /\ ttl \in Int /\ owner # Free
  BY <1>1, <1>2, RowIsTaken, LeaseNat, ConfigAssumption DEF TypeOK, Held
<1>4. ttl' = ttl - 1
  BY <1>3 DEF Tick
<1>5. hb[j] > 0 /\ hb[j] \in Int /\ hb'[j] = hb[j] - 1
  BY <1>1, <1>2, ConfigAssumption DEF Tick, TypeOK, Off
<1>6. (MaxFailures - fails[j]) * HeartbeatInterval \in Nat
  BY <1>1, Intervals, ConfigAssumption DEF TypeOK
<1>7. Reserve(j)' = Reserve(j) - 1
  BY <1>1, <1>5, <1>6 DEF Reserve
<1>8. Reserve(j) \in Nat
  BY <1>1, <1>2, ReserveNat
<1>9. ttl' >= Reserve(j)'
  BY <1>2, <1>3, <1>4, <1>7, <1>8
<1>10. hb'[j] # Off
  BY <1>5 DEF Off
<1> QED
  BY <1>1, <1>2, <1>9, <1>10 DEF Covered, Held, Off

\* The inductive step.
LEMMA IInvStep == ASSUME SafeConfig PROVE IInv /\ [Next]_vars => IInv'
<1> SUFFICES ASSUME IInv, [Next]_vars PROVE IInv'
  OBVIOUS
<1>1. TypeOK' /\ MutexDiscipline'
  BY TypeStep, MutexStep DEF IInv
<1>2. NoneCancelled'
  <2>1. ASSUME NEW g \in Goroutines, CallLock(g) PROVE NoneCancelled'
    BY <2>1 DEF CallLock, NoneCancelled, IInv, TypeOK
  <2>2. \A g \in Goroutines : ~CancelContext(g)
    BY DEF CancelContext, SafeConfig
  <2>3. ASSUME cancelled' = cancelled PROVE NoneCancelled'
    BY <2>3 DEF NoneCancelled, IInv
  <2>4. ASSUME NEW g \in Goroutines, LockStep(g) \/ UnlockStep(g) PROVE cancelled' = cancelled
    BY <2>4 DEF LockStep, LockMu, CreateLockTableFails, CheckLockTable, CreateLockTable,
          AcquireLock, AcquireBusy, AcquireError, RetryAcquire, GiveUpAcquire, startHeartbeat,
          UnlockStep, Unlock, ReleaseLock, RetryRelease, GiveUpRelease
  <2>5. ASSUME NEW i \in Instances, HeartbeatStep(i) \/ Crash(i) PROVE cancelled' = cancelled
    BY <2>5 DEF HeartbeatStep, UpdateLease, UpdateLeaseNotHeld, UpdateLeaseError,
          HeartbeatCancelled, Crash
  <2>6. Tick \/ UNCHANGED vars => cancelled' = cancelled
    BY DEF Tick, vars
  <2> QED
    BY <2>1, <2>2, <2>3, <2>4, <2>5, <2>6 DEF Next
<1>3. HolderIsCovered'
  <2>1. ASSUME NEW g \in Goroutines, CallLock(g) PROVE HolderIsCovered'
    BY <2>1, CoverKept DEF CallLock, Goto, IInv, TypeOK, row
  <2>2. ASSUME NEW g \in Goroutines, CancelContext(g) PROVE HolderIsCovered'
    BY <2>2 DEF CancelContext, SafeConfig
  <2>3. ASSUME NEW i \in Instances, Crash(i) PROVE HolderIsCovered'
    BY <2>3, ConfigAssumption DEF Crash, HolderIsCovered, Covered, Held, Reserve, IInv,
             TypeOK, row, Off
  <2>4. CASE UNCHANGED vars
    BY <2>4, CoverKept DEF vars, row, IInv
  <2> QED
    BY <2>1, <2>2, <2>3, <2>4, CoverLock, CoverUnlock, CoverHeartbeat, CoverTick DEF Next
<1> QED
  BY <1>1, <1>2, <1>3 DEF IInv

\* The initial states.
LEMMA IInvInit == Init => IInv
<1> SUFFICES ASSUME Init PROVE IInv
  OBVIOUS
<1>1. TypeOK
  BY TypeInit
<1>2. MutexDiscipline /\ HolderIsCovered
  BY ConfigAssumption DEF Init, MutexDiscipline, HoldsMu, Locking, HolderIsCovered, Covered,
        Held
<1>3. NoneCancelled
  BY DEF Init, NoneCancelled
<1> QED
  BY <1>1, <1>2, <1>3 DEF IInv

\* If the lease the database is told spans the heartbeats that may fail in a
\* row and the next one, and contexts are not cancelled, a holder owns the
\* row and its lease lasts until the heartbeat has had its chances.
THEOREM HoldersAreCovered == ASSUME SafeConfig PROVE Spec => []HolderIsCovered
<1>1. IInv => HolderIsCovered
  BY DEF IInv
<1> QED
  BY <1>1, IInvInit, IInvStep, PTL DEF Spec

\* Two holders are one.
LEMMA Exclusive == IInv => MutualExclusion
BY RowIsTakenOnce DEF MutualExclusion, Held

\* In the same configurations, and with any number of processes, crashes,
\* lost results and failed statements, at most one goroutine is between a
\* successful Lock and its Unlock.
THEOREM LockExcludes == ASSUME SafeConfig PROVE Spec => []MutualExclusion
BY Exclusive, IInvInit, IInvStep, PTL DEF Spec

-----------------------------------------------------------------------------
(* The table locker implements the abstract lock *)

\* Only startHeartbeat, the end of Lock, makes a goroutine a holder.
LEMMA NewHolder ==
    ASSUME TypeOK, [Next]_vars, NEW h \in Goroutines, ~Held(h), Held(h)'
    PROVE  startHeartbeat(h)
<1> USE DEF Held, TypeOK
<1>1. ASSUME NEW g \in Goroutines, CallLock(g) \/ UnlockStep(g) \/ CancelContext(g)
      PROVE  FALSE
  BY <1>1 DEF CallLock, UnlockStep, Unlock, ReleaseLock, RetryRelease, GiveUpRelease,
              Return, Goto, CancelContext
<1>2. ASSUME NEW g \in Goroutines, LockStep(g), ~startHeartbeat(h) PROVE FALSE
  <2>1. CASE startHeartbeat(g)
    BY <1>2, <2>1 DEF startHeartbeat, Goto
  <2>2. CASE ~startHeartbeat(g)
    BY <1>2, <2>2 DEF LockStep, LockMu, CreateLockTableFails, CheckLockTable, CreateLockTable,
          EnterAcquire, AcquireLock, AcquireBusy, AcquireError, RetryAcquire,
          GiveUpAcquire, Return, Goto
  <2> QED
    BY <2>1, <2>2
<1>3. ASSUME NEW i \in Instances, HeartbeatStep(i) \/ Crash(i) PROVE FALSE
  BY <1>3 DEF HeartbeatStep, UpdateLease, UpdateLeaseNotHeld, UpdateLeaseError,
              HeartbeatCancelled, Crash
<1>4. Tick \/ UNCHANGED vars => FALSE
  BY DEF Tick, vars
<1> QED
  BY <1>1, <1>2, <1>3, <1>4 DEF Next

\* Every step is a step of the abstract lock or leaves its holders alone.
LEMMA MutexSimulation ==
    IInv /\ IInv' /\ [Next]_vars
        => [Mutex!Next]_{g \in Goroutines : Held(g)}
<1> SUFFICES ASSUME IInv, IInv', [Next]_vars
             PROVE  [Mutex!Next]_{g \in Goroutines : Held(g)}
  OBVIOUS
<1> DEFINE H == {g \in Goroutines : Held(g)}
           H1 == {g \in Goroutines : Held(g)'}
<1>1. \A g, h \in H : g = h
  BY Exclusive DEF MutualExclusion
<1>2. \A g, h \in H1 : g = h
  <2>1. MutualExclusion'
    BY Exclusive, PTL
  <2> QED
    BY <2>1 DEF MutualExclusion
<1>3. ASSUME NEW g \in H, NEW h \in H1 PROVE h \in H
  <2> SUFFICES ASSUME ~Held(h) PROVE FALSE
    OBVIOUS
  <2>1. startHeartbeat(h)
    BY NewHolder DEF IInv
  <2>2. pc[h] = "startHeartbeat" /\ pc[g] = "held"
    BY <2>1 DEF startHeartbeat, Held
  <2> QED
    BY <2>2, RowIsTakenOnce
<1>4. CASE H = H1
  BY <1>4
<1>5. CASE H # H1 /\ H = {}
  <2>1. PICK h \in H1 : TRUE
    BY <1>5
  <2>2. H1 = {h} /\ h \in Goroutines
    BY <1>2, <2>1
  <2> QED
    BY <1>5, <2>2 DEF Mutex!Next, Mutex!Acquire
<1>6. CASE H # H1 /\ H # {}
  <2>1. PICK g \in H : TRUE
    BY <1>6
  <2>2. H = {g} /\ g \in Goroutines
    BY <1>1, <2>1
  <2>3. H1 = {}
    BY <1>3, <1>6, <2>2
  <2> QED
    BY <2>2, <2>3 DEF Mutex!Next, Mutex!Release
<1> QED
  BY <1>4, <1>5, <1>6

\* In a safe configuration the table locker implements the lock the provider
\* is written against.
THEOREM TableLockerIsAMutex == ASSUME SafeConfig PROVE Spec => ImplementsMutex
<1>1. Init => Mutex!Init
  BY DEF Init, Mutex!Init, Held
<1> QED
  BY <1>1, IInvInit, IInvStep, MutexSimulation, PTL DEF Spec, ImplementsMutex, Mutex!Spec
=============================================================================
