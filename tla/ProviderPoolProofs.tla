------------------------- MODULE ProviderPoolProofs -------------------------
(***************************************************************************)
(* Proofs about ProviderPool, for every number of processes, goroutines    *)
(* and connections, every configuration, failure and crash.                *)
(***************************************************************************)
EXTENDS ProviderPool, SequenceTheorems, FiniteSetTheorems, TLAPS

\* The places of a call: with p.mu, with a connection.
WithMu   == {"conn", "connReadOnly", "sessionLock", "lockerMu", "acquire", "prepare",
             "run", "cleanup"}
WithConn == {"sessionLock", "lockerMu", "acquire", "prepare", "run", "cleanup",
             "sessionUnlock", "release", "close"}
PCs      == {"idle", "mu", "muReadOnly"} \cup WithMu \cup WithConn

\* Every variable keeps its type.
TypeOK ==
    /\ setup \in Setups
    /\ mu \in [Processes -> Workers \cup {NoOne}]
    /\ lmu \in [Processes -> Workers \cup {NoOne}]
    /\ conn \in [Workers -> Conns \cup {NoConn}]
    /\ advisory \in [Conns -> Int]
    /\ errors \in [Conns -> Nat]
    /\ locked \in [Workers -> BOOLEAN]
    /\ broken \subseteq Workers
    /\ unseen \subseteq Workers
    /\ pc \in [Workers -> PCs]
    /\ plan \in [Workers -> Seq(Kinds)]

\* Connections are of the pool of their process, and nobody shares one.
ConnDiscipline ==
    /\ \A w \in Workers : conn[w] # NoConn <=> pc[w] \in WithConn
    /\ \A w \in Workers : conn[w] # NoConn => conn[w] \in setup.conns[P(w)]
    /\ \A w, x \in Workers : conn[w] = conn[x] /\ conn[w] # NoConn => w = x
    /\ \A w \in broken : conn[w] # NoConn

\* The lock is given to calls that ask for it, and given up before the
\* connection is.
LockedDiscipline ==
    \A w \in Workers :
        /\ locked[w] => /\ setup.lock \in {"session", "table"}
                        /\ pc[w] \in {"prepare", "run", "cleanup", "sessionUnlock", "release"}
        /\ pc[w] = "sessionLock" => setup.lock = "session"
        /\ pc[w] \in {"lockerMu", "acquire"} => setup.lock = "table"
        /\ pc[w] = "sessionUnlock" => locked[w] /\ setup.lock = "session"
        /\ pc[w] = "release" => locked[w] /\ setup.lock = "table"

\* The calls that hold p.mu, and those that hold l.mu.
HoldsMu  == {w \in Workers : pc[w] \in WithMu}
HoldsLmu == {w \in Workers : pc[w] = "acquire" \/ (locked[w] /\ setup.lock = "table")}

\* The mutexes are held in these places only.
MuDiscipline ==
    \A w \in Workers : /\ mu[P(w)] = w <=> w \in HoldsMu
                       /\ lmu[P(w)] = w <=> w \in HoldsLmu

-----------------------------------------------------------------------------

\* The configuration: the pools are disjoint.
LEMMA SetupFacts ==
    ASSUME TypeOK
    PROVE  /\ setup.lock \in {"none", "session", "table"}
           /\ setup.conns \in [Processes -> SUBSET Conns]
           /\ \A p, q \in Processes : p # q => setup.conns[p] \cap setup.conns[q] = {}
           /\ \A w \in Workers : P(w) \in Processes
BY PoolAssumption DEF TypeOK, Setup, P

\* The steps with a choice, in short.
LEMMA ConnEffect ==
    ASSUME TypeOK, NEW w \in Workers, Conn(w)
    PROVE  /\ pc[w] \in {"conn", "connReadOnly"}
           /\ \E c \in Conns : /\ c \in setup.conns[P(w)] /\ c # NoConn
                               /\ \A x \in Workers : conn[x] # c
                               /\ conn' = [conn EXCEPT ![w] = c]
           /\ \E l \in {"prepare", "sessionLock", "lockerMu"} :
                 /\ pc' = [pc EXCEPT ![w] = l]
                 /\ l = "sessionLock" => setup.lock = "session"
                 /\ l = "lockerMu" => setup.lock = "table"
           /\ UNCHANGED <<setup, unseen, broken, mu, lmu, advisory, errors, locked, plan>>
<1>1. PICK c \in Available(P(w)) : conn' = [conn EXCEPT ![w] = c]
  BY DEF Conn
<1>2. c \in Conns /\ c \in setup.conns[P(w)] /\ c # NoConn /\ \A x \in Workers : conn[x] # c
  BY <1>1, SetupFacts, PoolAssumption DEF Available
<1>3. /\ AfterConn(w) \in {"prepare", "sessionLock", "lockerMu"}
      /\ AfterConn(w) = "sessionLock" => setup.lock = "session"
      /\ AfterConn(w) = "lockerMu" => setup.lock = "table"
  BY SetupFacts DEF Conn, AfterConn
<1> QED
  BY <1>1, <1>2, <1>3 DEF Conn, Goto

LEMMA WorkEffect ==
    ASSUME TypeOK, NEW w \in Workers, Prepare(w) \/ RunIndividually(w)
    PROVE  /\ pc[w] \in {"prepare", "run"}
           /\ \E l \in {"run", "cleanup"} : pc' = [pc EXCEPT ![w] = l]
           /\ \E ms \in Seq(Kinds) : plan' = [plan EXCEPT ![w] = ms]
           /\ unseen' \in {unseen, unseen \ {w}}
           /\ UNCHANGED <<setup, broken, mu, lmu, conn, advisory, errors, locked>>
<1> USE DEF TypeOK, Goto, Leave, Abort
<1>1. plan[w] \in Seq(Kinds) /\ <<>> \in Seq(Kinds) /\ pc = [pc EXCEPT ![w] = pc[w]]
  BY EmptySeq
<1>2. CASE Prepare(w)
  <2>1. PICK ms \in Pending(w) :
            \/ /\ pc' = [pc EXCEPT ![w] = "run"] /\ plan' = [plan EXCEPT ![w] = ms]
               /\ unseen' = unseen
            \/ /\ pc' = [pc EXCEPT ![w] = "cleanup"] /\ plan' = [plan EXCEPT ![w] = <<>>]
               /\ unseen' = unseen \ {w}
    BY <1>2 DEF Prepare
  <2>2. ms \in Seq(Kinds)
    BY <1>1, PoolAssumption DEF Pending
  <2>3. /\ pc[w] = "prepare"
        /\ UNCHANGED <<setup, broken, mu, lmu, conn, advisory, errors, locked>>
    BY <1>2 DEF Prepare
  <2> QED
    BY <1>1, <2>1, <2>2, <2>3
<1>3. CASE RunIndividually(w)
  <2>1. pc[w] = "run" /\ plan[w] # <<>>
    BY <1>3 DEF RunIndividually
  <2>2. Tail(plan[w]) \in Seq(Kinds)
    BY <1>1, <2>1, HeadTailProperties
  <2>3. \/ pc' = pc /\ plan' = [plan EXCEPT ![w] = Tail(plan[w])] /\ unseen' = unseen
        \/ /\ pc' = [pc EXCEPT ![w] = "cleanup"] /\ plan' = [plan EXCEPT ![w] = <<>>]
           /\ unseen' = unseen \ {w}
    BY <1>3 DEF RunIndividually
  <2>4. UNCHANGED <<setup, broken, mu, lmu, conn, advisory, errors, locked>>
    BY <1>3 DEF RunIndividually
  <2> QED
    BY <1>1, <2>1, <2>2, <2>3, <2>4
<1> QED
  BY <1>2, <1>3

\* Errors of the session locker, in short: the account of the connection moves by at
\* most one, and so does the lock.
LEMMA LockerErrorEffect ==
    ASSUME TypeOK, NEW w \in Workers, conn[w] \in Conns, LockerError(w)
    PROVE  /\ w \notin broken
           /\ errors' = [errors EXCEPT ![conn[w]] = errors[conn[w]] + 1]
           /\ errors' \in [Conns -> Nat]
           /\ errors'[conn[w]] = errors[conn[w]] + 1
           /\ \A d \in Conns : d # conn[w] => errors'[d] = errors[d]
BY DEF LockerError, TypeOK

LEMMA SessionLockFailsEffect ==
    ASSUME TypeOK, ConnDiscipline, NEW w \in Workers, SessionLockFails(w)
    PROVE  /\ pc[w] = "sessionLock" /\ pc' = [pc EXCEPT ![w] = "cleanup"]
           /\ plan' = [plan EXCEPT ![w] = <<>>] /\ unseen' = unseen \ {w}
           /\ UNCHANGED <<setup, broken, mu, lmu, conn, locked>>
           /\ conn[w] \in Conns /\ conn[w] # NoConn
           /\ advisory' \in [Conns -> Int] /\ errors' \in [Conns -> Nat]
           /\ \A d \in Conns : d # conn[w] => advisory'[d] = advisory[d] /\ errors'[d] = errors[d]
           /\ \/ /\ advisory'[conn[w]] = advisory[conn[w]]
                 /\ errors'[conn[w]] = errors[conn[w]]
              \/ /\ advisory'[conn[w]] \in {advisory[conn[w]], advisory[conn[w]] + 1}
                 /\ errors'[conn[w]] = errors[conn[w]] + 1
<1>1. /\ pc[w] = "sessionLock" /\ pc' = [pc EXCEPT ![w] = "cleanup"]
      /\ plan' = [plan EXCEPT ![w] = <<>>] /\ unseen' = unseen \ {w}
      /\ UNCHANGED <<setup, broken, mu, lmu, conn, locked>>
  BY DEF SessionLockFails, Abort, Leave, Goto
<1>2. conn[w] \in Conns /\ conn[w] # NoConn
  BY <1>1, PoolAssumption DEF ConnDiscipline, TypeOK, WithConn
<1>3. CASE UNCHANGED <<advisory, errors>>
  BY <1>1, <1>2, <1>3 DEF TypeOK
<1>4. CASE LockerError(w) /\ UNCHANGED advisory
  BY <1>1, <1>2, <1>4, LockerErrorEffect DEF TypeOK
<1>5. CASE LockerError(w) /\ advisory' = [advisory EXCEPT ![conn[w]] = @ + 1]
  <2>1. advisory' \in [Conns -> Int] /\ advisory'[conn[w]] = advisory[conn[w]] + 1
        /\ \A d \in Conns : d # conn[w] => advisory'[d] = advisory[d]
    BY <1>2, <1>5 DEF TypeOK
  <2> QED
    BY <1>1, <1>2, <1>5, <2>1, LockerErrorEffect
<1> QED
  BY <1>3, <1>4, <1>5 DEF SessionLockFails

LEMMA SessionUnlockFailsEffect ==
    ASSUME TypeOK, ConnDiscipline, NEW w \in Workers, SessionUnlockFails(w)
    PROVE  /\ pc[w] = "sessionUnlock" /\ pc' = [pc EXCEPT ![w] = "close"]
           /\ locked' = [locked EXCEPT ![w] = FALSE] /\ unseen' = unseen \ {w}
           /\ UNCHANGED <<setup, broken, mu, lmu, conn, plan>>
           /\ conn[w] \in Conns /\ conn[w] # NoConn
           /\ advisory' \in [Conns -> Int] /\ errors' \in [Conns -> Nat]
           /\ \A d \in Conns : d # conn[w] => advisory'[d] = advisory[d] /\ errors'[d] = errors[d]
           /\ \/ /\ w \in broken
                 /\ advisory'[conn[w]] = advisory[conn[w]]
                 /\ errors'[conn[w]] = errors[conn[w]]
              \/ /\ w \notin broken
                 /\ advisory'[conn[w]] \in {advisory[conn[w]], advisory[conn[w]] - 1}
                 /\ errors'[conn[w]] = errors[conn[w]] + 1
<1>1. /\ pc[w] = "sessionUnlock" /\ pc' = [pc EXCEPT ![w] = "close"]
      /\ locked' = [locked EXCEPT ![w] = FALSE] /\ unseen' = unseen \ {w}
      /\ UNCHANGED <<setup, broken, mu, lmu, conn, plan>>
  BY DEF SessionUnlockFails, Goto
<1>2. conn[w] \in Conns /\ conn[w] # NoConn
  BY <1>1, PoolAssumption DEF ConnDiscipline, TypeOK, WithConn
<1>3. CASE w \in broken /\ UNCHANGED <<advisory, errors>>
  BY <1>1, <1>2, <1>3 DEF TypeOK
<1>4. CASE LockerError(w) /\ UNCHANGED advisory
  BY <1>1, <1>2, <1>4, LockerErrorEffect DEF TypeOK
<1>5. CASE LockerError(w) /\ advisory' = [advisory EXCEPT ![conn[w]] = @ - 1]
  <2>1. advisory' \in [Conns -> Int] /\ advisory'[conn[w]] = advisory[conn[w]] - 1
        /\ \A d \in Conns : d # conn[w] => advisory'[d] = advisory[d]
    BY <1>2, <1>5 DEF TypeOK
  <2> QED
    BY <1>1, <1>2, <1>5, <2>1, LockerErrorEffect
<1> QED
  BY <1>3, <1>4, <1>5 DEF SessionUnlockFails

LEMMA UnlockMuEffect ==
    ASSUME TypeOK, LockedDiscipline, NEW w \in Workers, UnlockMu(w)
    PROVE  /\ pc[w] = "cleanup" /\ mu' = [mu EXCEPT ![P(w)] = NoOne]
           /\ \E l \in {"close", "sessionUnlock", "release"} :
                 /\ pc' = [pc EXCEPT ![w] = l]
                 /\ l = "close" => ~locked[w]
                 /\ l = "sessionUnlock" => locked[w] /\ setup.lock = "session"
                 /\ l = "release" => locked[w] /\ setup.lock = "table"
           /\ UNCHANGED <<setup, unseen, broken, lmu, conn, advisory, errors, locked, plan>>
<1>1. locked[w] => setup.lock \in {"session", "table"}
  BY DEF LockedDiscipline
<1>2. locked[w] \in BOOLEAN
  BY DEF TypeOK
<1>3. CASE ~locked[w]
  BY <1>3 DEF UnlockMu, Goto
<1>4. CASE locked[w] /\ setup.lock = "session"
  BY <1>4 DEF UnlockMu, Goto
<1>5. CASE locked[w] /\ setup.lock = "table"
  BY <1>5 DEF UnlockMu, Goto
<1> QED
  BY <1>1, <1>2, <1>3, <1>4, <1>5

\* No step breaks the types.
LEMMA TypeStep ==
    ASSUME TypeOK, ConnDiscipline, LockedDiscipline, [Next]_vars
    PROVE  TypeOK'
<1>1. ASSUME NEW w \in Workers, LockMu(w) PROVE TypeOK'
  BY <1>1, PoolAssumption, EmptySeq DEF LockMu, Goto, Leave, Abort, P, TypeOK, PCs, WithMu, WithConn
<1>2. ASSUME NEW w \in Workers, ConnFails(w) PROVE TypeOK'
  BY <1>2, PoolAssumption, EmptySeq DEF ConnFails, Goto, Leave, Abort, P, TypeOK, PCs, WithMu, WithConn
<1>3. ASSUME NEW w \in Workers, SessionLockFails(w) PROVE TypeOK'
  <2>1. /\ pc' = [pc EXCEPT ![w] = "cleanup"] /\ plan' = [plan EXCEPT ![w] = <<>>]
        /\ unseen' = unseen \ {w} /\ UNCHANGED <<setup, broken, mu, lmu, conn, locked>>
        /\ advisory' \in [Conns -> Int] /\ errors' \in [Conns -> Nat]
    BY <1>3, SessionLockFailsEffect
  <2> QED
    BY <2>1, EmptySeq DEF TypeOK, PCs, WithMu, WithConn
<1>4. ASSUME NEW w \in Workers, LockerMu(w) PROVE TypeOK'
  BY <1>4, PoolAssumption, EmptySeq DEF LockerMu, Goto, Leave, Abort, P, TypeOK, PCs, WithMu, WithConn
<1>5. ASSUME NEW w \in Workers, Acquire(w) PROVE TypeOK'
  BY <1>5, PoolAssumption, EmptySeq DEF Acquire, Goto, Leave, Abort, P, TypeOK, PCs, WithMu, WithConn
<1>6. ASSUME NEW w \in Workers, AcquireFails(w) PROVE TypeOK'
  BY <1>6, PoolAssumption, EmptySeq DEF AcquireFails, Goto, Leave, Abort, P, TypeOK, PCs, WithMu,
        WithConn
<1>7. ASSUME NEW w \in Workers, RunDone(w) PROVE TypeOK'
  BY <1>7, PoolAssumption, EmptySeq DEF RunDone, Goto, Leave, Abort, P, TypeOK, PCs, WithMu, WithConn
<1>8. ASSUME NEW w \in Workers, Release(w) PROVE TypeOK'
  BY <1>8, PoolAssumption, EmptySeq DEF Release, Goto, Leave, Abort, P, TypeOK, PCs, WithMu, WithConn
<1>9. ASSUME NEW w \in Workers, Close(w) PROVE TypeOK'
  BY <1>9, PoolAssumption, EmptySeq DEF Close, Goto, Leave, Abort, P, TypeOK, PCs, WithMu, WithConn
<1>10. ASSUME NEW w \in Workers, ConnectionBreaks(w) PROVE TypeOK'
  BY <1>10, PoolAssumption, EmptySeq DEF ConnectionBreaks, Goto, Leave, Abort, P, TypeOK, PCs,
        WithMu, WithConn
<1>11. ASSUME NEW w \in Workers, Conn(w) PROVE TypeOK'
  <2>1. PICK c \in Conns, l \in {"prepare", "sessionLock", "lockerMu"} :
            /\ c \in setup.conns[P(w)] /\ c # NoConn /\ \A x \in Workers : conn[x] # c
            /\ conn' = [conn EXCEPT ![w] = c] /\ pc' = [pc EXCEPT ![w] = l]
            /\ l = "sessionLock" => setup.lock = "session"
            /\ l = "lockerMu" => setup.lock = "table"
    BY <1>11, ConnEffect
  <2>2. /\ pc[w] \in {"conn", "connReadOnly"}
        /\ UNCHANGED <<setup, unseen, broken, mu, lmu, advisory, errors, locked, plan>>
    BY <1>11, ConnEffect
  <2> QED
    BY <2>1, <2>2, PoolAssumption DEF TypeOK, PCs, WithMu, WithConn, P
<1>12. ASSUME NEW w \in Workers, Prepare(w) \/ RunIndividually(w) PROVE TypeOK'
  <2>1. PICK l \in {"run", "cleanup"}, ms \in Seq(Kinds) :
            pc' = [pc EXCEPT ![w] = l] /\ plan' = [plan EXCEPT ![w] = ms]
    BY <1>12, WorkEffect
  <2>2. /\ pc[w] \in {"prepare", "run"}
        /\ unseen' \in {unseen, unseen \ {w}}
        /\ UNCHANGED <<setup, broken, mu, lmu, conn, advisory, errors, locked>>
    BY <1>12, WorkEffect
  <2> QED
    BY <2>1, <2>2, PoolAssumption DEF TypeOK, PCs, WithMu, WithConn, P
<1>13. ASSUME NEW w \in Workers, UnlockMu(w) PROVE TypeOK'
  <2>1. PICK l \in {"close", "sessionUnlock", "release"} :
            /\ pc' = [pc EXCEPT ![w] = l]
            /\ l = "close" => ~locked[w]
            /\ l = "sessionUnlock" => locked[w] /\ setup.lock = "session"
            /\ l = "release" => locked[w] /\ setup.lock = "table"
    BY <1>13, UnlockMuEffect
  <2>2. /\ pc[w] = "cleanup" /\ mu' = [mu EXCEPT ![P(w)] = NoOne]
        /\ UNCHANGED <<setup, unseen, broken, lmu, conn, advisory, errors, locked, plan>>
    BY <1>13, UnlockMuEffect
  <2> QED
    BY <2>1, <2>2, PoolAssumption DEF TypeOK, PCs, WithMu, WithConn, P
<1>14. ASSUME NEW w \in Workers, Call(w) PROVE TypeOK'
  BY <1>14 DEF Call, Goto, TypeOK, PCs, WithMu, WithConn
<1>15. ASSUME NEW w \in Workers, SessionLock(w) PROVE TypeOK'
  <2>1. conn[w] \in Conns
    BY <1>15 DEF SessionLock, ConnDiscipline, TypeOK, WithConn
  <2>2. advisory' \in [Conns -> Int]
    BY <1>15, <2>1 DEF SessionLock, TypeOK
  <2> QED
    BY <1>15, <2>2 DEF SessionLock, Goto, TypeOK, PCs, WithMu, WithConn
<1>16. ASSUME NEW w \in Workers, SessionUnlock(w) PROVE TypeOK'
  <2>1. conn[w] \in Conns
    BY <1>16 DEF SessionUnlock, ConnDiscipline, TypeOK, WithConn
  <2>2. advisory' \in [Conns -> Int]
    BY <1>16, <2>1 DEF SessionUnlock, TypeOK
  <2> QED
    BY <1>16, <2>2 DEF SessionUnlock, Goto, TypeOK, PCs, WithMu, WithConn
<1>17. ASSUME NEW w \in Workers, SessionUnlockFails(w) PROVE TypeOK'
  <2>1. /\ pc' = [pc EXCEPT ![w] = "close"] /\ locked' = [locked EXCEPT ![w] = FALSE]
        /\ unseen' = unseen \ {w} /\ UNCHANGED <<setup, broken, mu, lmu, conn, plan>>
        /\ advisory' \in [Conns -> Int] /\ errors' \in [Conns -> Nat]
    BY <1>17, SessionUnlockFailsEffect
  <2> QED
    BY <2>1 DEF TypeOK, PCs, WithMu, WithConn
<1>18. ASSUME NEW p \in Processes, Crash(p) PROVE TypeOK'
  BY <1>18, PoolAssumption, EmptySeq DEF Crash, P, TypeOK, PCs, WithMu, WithConn
<1>19. CASE UNCHANGED vars
  BY <1>19 DEF vars, TypeOK, P
<1> QED
  BY <1>1, <1>2, <1>3, <1>4, <1>5, <1>6, <1>7, <1>8, <1>9, <1>10, <1>11, <1>12,
     <1>13, <1>14, <1>15, <1>16, <1>17, <1>18, <1>19 DEF Next, Step

\* No step breaks the discipline of the connections.
LEMMA ConnStep ==
    ASSUME TypeOK, ConnDiscipline, LockedDiscipline, [Next]_vars
    PROVE  ConnDiscipline'
<1>1. ASSUME NEW w \in Workers, Call(w) PROVE ConnDiscipline'
  BY ZenonT(60), <1>1, PoolAssumption DEF Call, Goto, Leave, Abort, P, TypeOK, ConnDiscipline, PCs, WithMu,
        WithConn
<1>2. ASSUME NEW w \in Workers, LockMu(w) PROVE ConnDiscipline'
  BY <1>2, PoolAssumption DEF LockMu, Goto, Leave, Abort, P, TypeOK, ConnDiscipline, PCs, WithMu,
        WithConn
<1>3. ASSUME NEW w \in Workers, ConnFails(w) PROVE ConnDiscipline'
  BY <1>3, PoolAssumption DEF ConnFails, Goto, Leave, Abort, P, TypeOK, ConnDiscipline, PCs,
        WithMu, WithConn
<1>4. ASSUME NEW w \in Workers, SessionLock(w) PROVE ConnDiscipline'
  BY <1>4, PoolAssumption DEF SessionLock, Goto, Leave, Abort, P, TypeOK, ConnDiscipline, PCs,
        WithMu, WithConn
<1>5. ASSUME NEW w \in Workers, SessionLockFails(w) PROVE ConnDiscipline'
  BY <1>5, PoolAssumption DEF SessionLockFails, Goto, Leave, Abort, P, TypeOK, ConnDiscipline,
        PCs, WithMu, WithConn
<1>6. ASSUME NEW w \in Workers, LockerMu(w) PROVE ConnDiscipline'
  BY <1>6, PoolAssumption DEF LockerMu, Goto, Leave, Abort, P, TypeOK, ConnDiscipline, PCs,
        WithMu, WithConn
<1>7. ASSUME NEW w \in Workers, Acquire(w) PROVE ConnDiscipline'
  BY <1>7, PoolAssumption DEF Acquire, Goto, Leave, Abort, P, TypeOK, ConnDiscipline, PCs,
        WithMu, WithConn
<1>8. ASSUME NEW w \in Workers, AcquireFails(w) PROVE ConnDiscipline'
  BY <1>8, PoolAssumption DEF AcquireFails, Goto, Leave, Abort, P, TypeOK, ConnDiscipline, PCs,
        WithMu, WithConn
<1>9. ASSUME NEW w \in Workers, RunDone(w) PROVE ConnDiscipline'
  BY <1>9, PoolAssumption DEF RunDone, Goto, Leave, Abort, P, TypeOK, ConnDiscipline, PCs,
        WithMu, WithConn
<1>10. ASSUME NEW w \in Workers, SessionUnlock(w) PROVE ConnDiscipline'
  BY <1>10, PoolAssumption DEF SessionUnlock, Goto, Leave, Abort, P, TypeOK, ConnDiscipline, PCs,
        WithMu, WithConn
<1>11. ASSUME NEW w \in Workers, SessionUnlockFails(w) PROVE ConnDiscipline'
  BY <1>11, PoolAssumption DEF SessionUnlockFails, Goto, Leave, Abort, P, TypeOK, ConnDiscipline,
        PCs, WithMu, WithConn
<1>12. ASSUME NEW w \in Workers, Release(w) PROVE ConnDiscipline'
  BY <1>12, PoolAssumption DEF Release, Goto, Leave, Abort, P, TypeOK, ConnDiscipline, PCs,
        WithMu, WithConn
<1>13. ASSUME NEW w \in Workers, Close(w) PROVE ConnDiscipline'
  BY <1>13, PoolAssumption DEF Close, Goto, Leave, Abort, P, TypeOK, ConnDiscipline, PCs, WithMu,
        WithConn
<1>14. ASSUME NEW w \in Workers, ConnectionBreaks(w) PROVE ConnDiscipline'
  BY <1>14, PoolAssumption DEF ConnectionBreaks, Goto, Leave, Abort, P, TypeOK, ConnDiscipline,
        PCs, WithMu, WithConn
<1>15. ASSUME NEW w \in Workers, Conn(w) PROVE ConnDiscipline'
  <2>1. PICK c \in Conns, l \in {"prepare", "sessionLock", "lockerMu"} :
            /\ c \in setup.conns[P(w)] /\ c # NoConn /\ \A x \in Workers : conn[x] # c
            /\ conn' = [conn EXCEPT ![w] = c] /\ pc' = [pc EXCEPT ![w] = l]
            /\ l = "sessionLock" => setup.lock = "session"
            /\ l = "lockerMu" => setup.lock = "table"
    BY <1>15, ConnEffect
  <2>2. /\ pc[w] \in {"conn", "connReadOnly"}
        /\ UNCHANGED <<setup, unseen, broken, mu, lmu, advisory, errors, locked, plan>>
    BY <1>15, ConnEffect
  <2> QED
    BY <2>1, <2>2, PoolAssumption DEF TypeOK, ConnDiscipline, PCs, WithMu, WithConn, P
<1>16. ASSUME NEW w \in Workers, Prepare(w) \/ RunIndividually(w) PROVE ConnDiscipline'
  <2>1. PICK l \in {"run", "cleanup"}, ms \in Seq(Kinds) :
            pc' = [pc EXCEPT ![w] = l] /\ plan' = [plan EXCEPT ![w] = ms]
    BY <1>16, WorkEffect
  <2>2. /\ pc[w] \in {"prepare", "run"}
        /\ UNCHANGED <<setup, broken, mu, lmu, conn, advisory, errors, locked>>
    BY <1>16, WorkEffect
  <2> QED
    BY <2>1, <2>2, PoolAssumption DEF TypeOK, ConnDiscipline, PCs, WithMu, WithConn, P
<1>17. ASSUME NEW w \in Workers, UnlockMu(w) PROVE ConnDiscipline'
  <2>1. PICK l \in {"close", "sessionUnlock", "release"} :
            /\ pc' = [pc EXCEPT ![w] = l]
            /\ l = "close" => ~locked[w]
            /\ l = "sessionUnlock" => locked[w] /\ setup.lock = "session"
            /\ l = "release" => locked[w] /\ setup.lock = "table"
    BY <1>17, UnlockMuEffect
  <2>2. /\ pc[w] = "cleanup" /\ mu' = [mu EXCEPT ![P(w)] = NoOne]
        /\ UNCHANGED <<setup, unseen, broken, lmu, conn, advisory, errors, locked, plan>>
    BY <1>17, UnlockMuEffect
  <2> QED
    BY <2>1, <2>2, PoolAssumption DEF TypeOK, ConnDiscipline, PCs, WithMu, WithConn, P
<1>18. ASSUME NEW p \in Processes, Crash(p) PROVE ConnDiscipline'
  BY <1>18, PoolAssumption DEF Crash, P, TypeOK, ConnDiscipline, PCs, WithMu, WithConn
<1>19. CASE UNCHANGED vars
  BY <1>19 DEF vars, TypeOK, ConnDiscipline, P
<1> QED
  BY <1>1, <1>2, <1>3, <1>4, <1>5, <1>6, <1>7, <1>8, <1>9, <1>10, <1>11, <1>12,
     <1>13, <1>14, <1>15, <1>16, <1>17, <1>18, <1>19 DEF Next, Step

\* No step breaks the discipline of the lock.
LEMMA LockedStep ==
    ASSUME TypeOK, LockedDiscipline, [Next]_vars
    PROVE  LockedDiscipline'
<1>1. ASSUME NEW w \in Workers, Call(w) PROVE LockedDiscipline'
  BY <1>1, PoolAssumption DEF Call, Goto, Leave, Abort, P, TypeOK, LockedDiscipline, PCs, WithMu,
        WithConn
<1>2. ASSUME NEW w \in Workers, LockMu(w) PROVE LockedDiscipline'
  BY <1>2, PoolAssumption DEF LockMu, Goto, Leave, Abort, P, TypeOK, LockedDiscipline, PCs,
        WithMu, WithConn
<1>3. ASSUME NEW w \in Workers, ConnFails(w) PROVE LockedDiscipline'
  BY <1>3, PoolAssumption DEF ConnFails, Goto, Leave, Abort, P, TypeOK, LockedDiscipline, PCs,
        WithMu, WithConn
<1>4. ASSUME NEW w \in Workers, SessionLock(w) PROVE LockedDiscipline'
  BY <1>4, PoolAssumption DEF SessionLock, Goto, Leave, Abort, P, TypeOK, LockedDiscipline, PCs,
        WithMu, WithConn
<1>5. ASSUME NEW w \in Workers, SessionLockFails(w) PROVE LockedDiscipline'
  BY <1>5, PoolAssumption DEF SessionLockFails, Goto, Leave, Abort, P, TypeOK, LockedDiscipline,
        PCs, WithMu, WithConn
<1>6. ASSUME NEW w \in Workers, LockerMu(w) PROVE LockedDiscipline'
  BY <1>6, PoolAssumption DEF LockerMu, Goto, Leave, Abort, P, TypeOK, LockedDiscipline, PCs,
        WithMu, WithConn
<1>7. ASSUME NEW w \in Workers, Acquire(w) PROVE LockedDiscipline'
  BY <1>7, PoolAssumption DEF Acquire, Goto, Leave, Abort, P, TypeOK, LockedDiscipline, PCs,
        WithMu, WithConn
<1>8. ASSUME NEW w \in Workers, AcquireFails(w) PROVE LockedDiscipline'
  BY <1>8, PoolAssumption DEF AcquireFails, Goto, Leave, Abort, P, TypeOK, LockedDiscipline, PCs,
        WithMu, WithConn
<1>9. ASSUME NEW w \in Workers, RunDone(w) PROVE LockedDiscipline'
  BY <1>9, PoolAssumption DEF RunDone, Goto, Leave, Abort, P, TypeOK, LockedDiscipline, PCs,
        WithMu, WithConn
<1>10. ASSUME NEW w \in Workers, SessionUnlock(w) PROVE LockedDiscipline'
  BY <1>10, PoolAssumption DEF SessionUnlock, Goto, Leave, Abort, P, TypeOK, LockedDiscipline,
        PCs, WithMu, WithConn
<1>11. ASSUME NEW w \in Workers, SessionUnlockFails(w) PROVE LockedDiscipline'
  BY <1>11, PoolAssumption DEF SessionUnlockFails, Goto, Leave, Abort, P, TypeOK,
        LockedDiscipline, PCs, WithMu, WithConn
<1>12. ASSUME NEW w \in Workers, Release(w) PROVE LockedDiscipline'
  BY <1>12, PoolAssumption DEF Release, Goto, Leave, Abort, P, TypeOK, LockedDiscipline, PCs,
        WithMu, WithConn
<1>13. ASSUME NEW w \in Workers, Close(w) PROVE LockedDiscipline'
  BY <1>13, PoolAssumption DEF Close, Goto, Leave, Abort, P, TypeOK, LockedDiscipline, PCs,
        WithMu, WithConn
<1>14. ASSUME NEW w \in Workers, ConnectionBreaks(w) PROVE LockedDiscipline'
  BY <1>14, PoolAssumption DEF ConnectionBreaks, Goto, Leave, Abort, P, TypeOK, LockedDiscipline,
        PCs, WithMu, WithConn
<1>15. ASSUME NEW w \in Workers, Conn(w) PROVE LockedDiscipline'
  <2>1. PICK c \in Conns, l \in {"prepare", "sessionLock", "lockerMu"} :
            /\ c \in setup.conns[P(w)] /\ c # NoConn /\ \A x \in Workers : conn[x] # c
            /\ conn' = [conn EXCEPT ![w] = c] /\ pc' = [pc EXCEPT ![w] = l]
            /\ l = "sessionLock" => setup.lock = "session"
            /\ l = "lockerMu" => setup.lock = "table"
    BY <1>15, ConnEffect
  <2>2. /\ pc[w] \in {"conn", "connReadOnly"}
        /\ UNCHANGED <<setup, unseen, broken, mu, lmu, advisory, errors, locked, plan>>
    BY <1>15, ConnEffect
  <2> QED
    BY <2>1, <2>2, PoolAssumption DEF TypeOK, LockedDiscipline, PCs, WithMu, WithConn, P
<1>16. ASSUME NEW w \in Workers, Prepare(w) \/ RunIndividually(w) PROVE LockedDiscipline'
  <2>1. PICK l \in {"run", "cleanup"}, ms \in Seq(Kinds) :
            pc' = [pc EXCEPT ![w] = l] /\ plan' = [plan EXCEPT ![w] = ms]
    BY <1>16, WorkEffect
  <2>2. /\ pc[w] \in {"prepare", "run"}
        /\ UNCHANGED <<setup, broken, mu, lmu, conn, advisory, errors, locked>>
    BY <1>16, WorkEffect
  <2> QED
    BY <2>1, <2>2, PoolAssumption DEF TypeOK, LockedDiscipline, PCs, WithMu, WithConn, P
<1>17. ASSUME NEW w \in Workers, UnlockMu(w) PROVE LockedDiscipline'
  <2>1. PICK l \in {"close", "sessionUnlock", "release"} :
            /\ pc' = [pc EXCEPT ![w] = l]
            /\ l = "close" => ~locked[w]
            /\ l = "sessionUnlock" => locked[w] /\ setup.lock = "session"
            /\ l = "release" => locked[w] /\ setup.lock = "table"
    BY <1>17, UnlockMuEffect
  <2>2. /\ pc[w] = "cleanup" /\ mu' = [mu EXCEPT ![P(w)] = NoOne]
        /\ UNCHANGED <<setup, unseen, broken, lmu, conn, advisory, errors, locked, plan>>
    BY <1>17, UnlockMuEffect
  <2> QED
    BY <2>1, <2>2, PoolAssumption DEF TypeOK, LockedDiscipline, PCs, WithMu, WithConn, P
<1>18. ASSUME NEW p \in Processes, Crash(p) PROVE LockedDiscipline'
  BY <1>18, PoolAssumption DEF Crash, P, TypeOK, LockedDiscipline, PCs, WithMu, WithConn
<1>19. CASE UNCHANGED vars
  BY <1>19 DEF vars, TypeOK, LockedDiscipline, P
<1> QED
  BY <1>1, <1>2, <1>3, <1>4, <1>5, <1>6, <1>7, <1>8, <1>9, <1>10, <1>11, <1>12,
     <1>13, <1>14, <1>15, <1>16, <1>17, <1>18, <1>19 DEF Next, Step

\* No step breaks the discipline of the mutexes.
LEMMA MuStep ==
    ASSUME TypeOK, LockedDiscipline, MuDiscipline, [Next]_vars
    PROVE  MuDiscipline'
<1> DEFINE SameMu  == mu' = mu /\ \A x \in Workers : x \in HoldsMu' <=> x \in HoldsMu
           SameLmu == lmu' = lmu /\ \A x \in Workers : x \in HoldsLmu' <=> x \in HoldsLmu
<1>a. \A x \in Workers : P(x) \in Processes /\ P(x)' = P(x)
  BY SetupFacts DEF P
<1>b. SameMu => \A x \in Workers : mu'[P(x)] = x <=> x \in HoldsMu'
  BY DEF MuDiscipline
<1>c. SameLmu => \A x \in Workers : lmu'[P(x)] = x <=> x \in HoldsLmu'
  BY DEF MuDiscipline
<1>d. ASSUME \A x \in Workers : mu'[P(x)] = x <=> x \in HoldsMu',
             \A x \in Workers : lmu'[P(x)] = x <=> x \in HoldsLmu'
      PROVE  MuDiscipline'
  BY <1>a, <1>d DEF MuDiscipline
\* Steps that leave both mutexes alone.
<1>1. ASSUME NEW w \in Workers,
             \/ Call(w) \/ SessionLock(w) \/ SessionLockFails(w) \/ Acquire(w) \/ RunDone(w)
             \/ SessionUnlock(w) \/ SessionUnlockFails(w) \/ Close(w) \/ ConnectionBreaks(w)
      PROVE  MuDiscipline'
  <2>1. CASE Call(w)
    <3>1. SameMu /\ SameLmu
      BY <2>1 DEF Call, Goto, TypeOK, HoldsMu, HoldsLmu, WithMu, PCs
    <3> QED
      BY <3>1, <1>b, <1>c, <1>d
  <2>2. CASE SessionLock(w) \/ SessionLockFails(w)
    <3>1. SameMu /\ SameLmu
      BY <2>2 DEF SessionLock, SessionLockFails, Goto, Leave, Abort, TypeOK, HoldsMu, HoldsLmu,
            LockedDiscipline, WithMu, PCs
    <3> QED
      BY <3>1, <1>b, <1>c, <1>d
  <2>3. CASE Acquire(w)
    <3>1. SameMu /\ SameLmu
      BY <2>3 DEF Acquire, Goto, TypeOK, HoldsMu, HoldsLmu, LockedDiscipline, WithMu, PCs
    <3> QED
      BY <3>1, <1>b, <1>c, <1>d
  <2>4. CASE RunDone(w) \/ Close(w) \/ ConnectionBreaks(w)
    <3>1. SameMu /\ SameLmu
      BY <2>4 DEF RunDone, Close, ConnectionBreaks, Goto, Leave, Abort, TypeOK, HoldsMu, HoldsLmu,
            WithMu, PCs
    <3> QED
      BY <3>1, <1>b, <1>c, <1>d
  <2>5. CASE SessionUnlock(w) \/ SessionUnlockFails(w)
    <3>1. SameMu /\ SameLmu
      BY <2>5 DEF SessionUnlock, SessionUnlockFails, Goto, TypeOK, HoldsMu, HoldsLmu,
            LockedDiscipline, WithMu, PCs
    <3> QED
      BY <3>1, <1>b, <1>c, <1>d
  <2> QED
    BY <1>1, <2>1, <2>2, <2>3, <2>4, <2>5
<1>2. ASSUME NEW w \in Workers, Conn(w) PROVE MuDiscipline'
  <2>1. PICK l \in {"prepare", "sessionLock", "lockerMu"} : pc' = [pc EXCEPT ![w] = l]
    BY <1>2, ConnEffect
  <2>2. pc[w] \in {"conn", "connReadOnly"} /\ UNCHANGED <<setup, mu, lmu, locked>>
    BY <1>2, ConnEffect
  <2>3. SameMu /\ SameLmu
    BY <2>1, <2>2 DEF TypeOK, HoldsMu, HoldsLmu, WithMu
  <2> QED
    BY <2>3, <1>b, <1>c, <1>d
<1>3. ASSUME NEW w \in Workers, Prepare(w) \/ RunIndividually(w) PROVE MuDiscipline'
  <2>1. PICK l \in {"run", "cleanup"} : pc' = [pc EXCEPT ![w] = l]
    BY <1>3, WorkEffect
  <2>2. pc[w] \in {"prepare", "run"} /\ UNCHANGED <<setup, mu, lmu, locked>>
    BY <1>3, WorkEffect
  <2>3. SameMu /\ SameLmu
    BY <2>1, <2>2 DEF TypeOK, HoldsMu, HoldsLmu, WithMu
  <2> QED
    BY <2>3, <1>b, <1>c, <1>d
\* p.mu is taken or given up.
<1>4. ASSUME NEW w \in Workers, NEW v \in {w, NoOne}, mu' = [mu EXCEPT ![P(w)] = v],
             mu[P(w)] \in {w, NoOne}, v = w <=> w \in HoldsMu', SameLmu,
             \A x \in Workers : x # w => (x \in HoldsMu' <=> x \in HoldsMu)
      PROVE  MuDiscipline'
  <2>1. \A x \in Workers : mu[P(x)] = x <=> x \in HoldsMu
    BY DEF MuDiscipline
  <2>2. mu \in [Processes -> Workers \cup {NoOne}]
    BY DEF TypeOK
  <2>3. ASSUME NEW x \in Workers PROVE mu'[P(x)] = x <=> x \in HoldsMu'
    <3>1. P(w) \in Processes /\ P(x) \in Processes /\ NoOne \notin Workers
      BY <1>a, PoolAssumption
    <3>2. mu'[P(x)] = IF P(x) = P(w) THEN v ELSE mu[P(x)]
      BY <1>4, <2>2, <3>1
    <3>3. mu[P(x)] = x <=> x \in HoldsMu
      BY <2>1
    <3>4. x # w => (x \in HoldsMu' <=> x \in HoldsMu)
      BY <1>4
    <3> QED
      BY <1>4, <3>1, <3>2, <3>3, <3>4
  <2> QED
    BY <1>4, <2>3, <1>c, <1>d
<1>5. ASSUME NEW w \in Workers, LockMu(w) PROVE MuDiscipline'
  <2>1. mu' = [mu EXCEPT ![P(w)] = w] /\ mu[P(w)] = NoOne
    BY <1>5 DEF LockMu
  <2>2. /\ w \in HoldsMu' /\ SameLmu
        /\ \A x \in Workers : x # w => (x \in HoldsMu' <=> x \in HoldsMu)
    BY <1>5 DEF LockMu, Goto, TypeOK, HoldsMu, HoldsLmu, WithMu
  <2> QED
    BY <1>4, <2>1, <2>2
<1>6. ASSUME NEW w \in Workers, ConnFails(w) PROVE MuDiscipline'
  <2>1. mu' = [mu EXCEPT ![P(w)] = NoOne] /\ mu[P(w)] = w /\ NoOne # w
    BY <1>6, PoolAssumption DEF ConnFails, MuDiscipline, HoldsMu, WithMu
  <2>2. /\ w \notin HoldsMu' /\ SameLmu
        /\ \A x \in Workers : x # w => (x \in HoldsMu' <=> x \in HoldsMu)
    BY <1>6 DEF ConnFails, Goto, TypeOK, HoldsMu, HoldsLmu, WithMu
  <2> QED
    BY <1>4, <2>1, <2>2
<1>7. ASSUME NEW w \in Workers, UnlockMu(w) PROVE MuDiscipline'
  <2>1. PICK l \in {"close", "sessionUnlock", "release"} : pc' = [pc EXCEPT ![w] = l]
    BY <1>7, UnlockMuEffect
  <2>2. /\ pc[w] = "cleanup" /\ mu' = [mu EXCEPT ![P(w)] = NoOne]
        /\ UNCHANGED <<setup, lmu, locked>>
    BY <1>7, UnlockMuEffect
  <2>3. mu[P(w)] = w /\ NoOne # w
    BY <2>2, PoolAssumption DEF MuDiscipline, HoldsMu, WithMu
  <2>4. /\ w \notin HoldsMu' /\ SameLmu
        /\ \A x \in Workers : x # w => (x \in HoldsMu' <=> x \in HoldsMu)
    BY <2>1, <2>2 DEF TypeOK, HoldsMu, HoldsLmu, WithMu
  <2> QED
    BY <1>4, <2>2, <2>3, <2>4
\* l.mu is taken or given up.
<1>8. ASSUME NEW w \in Workers, NEW v \in {w, NoOne}, lmu' = [lmu EXCEPT ![P(w)] = v],
             lmu[P(w)] \in {w, NoOne}, v = w <=> w \in HoldsLmu', SameMu,
             \A x \in Workers : x # w => (x \in HoldsLmu' <=> x \in HoldsLmu)
      PROVE  MuDiscipline'
  <2>1. \A x \in Workers : lmu[P(x)] = x <=> x \in HoldsLmu
    BY DEF MuDiscipline
  <2>2. lmu \in [Processes -> Workers \cup {NoOne}]
    BY DEF TypeOK
  <2>3. ASSUME NEW x \in Workers PROVE lmu'[P(x)] = x <=> x \in HoldsLmu'
    <3>1. P(w) \in Processes /\ P(x) \in Processes /\ NoOne \notin Workers
      BY <1>a, PoolAssumption
    <3>2. lmu'[P(x)] = IF P(x) = P(w) THEN v ELSE lmu[P(x)]
      BY <1>8, <2>2, <3>1
    <3>3. lmu[P(x)] = x <=> x \in HoldsLmu
      BY <2>1
    <3>4. x # w => (x \in HoldsLmu' <=> x \in HoldsLmu)
      BY <1>8
    <3> QED
      BY <1>8, <3>1, <3>2, <3>3, <3>4
  <2> QED
    BY <1>8, <2>3, <1>b, <1>d
<1>9. ASSUME NEW w \in Workers, LockerMu(w) PROVE MuDiscipline'
  <2>1. lmu' = [lmu EXCEPT ![P(w)] = w] /\ lmu[P(w)] = NoOne
    BY <1>9 DEF LockerMu
  <2>2. /\ w \in HoldsLmu' /\ SameMu
        /\ \A x \in Workers : x # w => (x \in HoldsLmu' <=> x \in HoldsLmu)
    BY <1>9 DEF LockerMu, Goto, TypeOK, HoldsMu, HoldsLmu, WithMu
  <2> QED
    BY <1>8, <2>1, <2>2
<1>10. ASSUME NEW w \in Workers, AcquireFails(w) PROVE MuDiscipline'
  <2>1. lmu' = [lmu EXCEPT ![P(w)] = NoOne] /\ lmu[P(w)] = w /\ NoOne # w
    BY <1>10, PoolAssumption DEF AcquireFails, MuDiscipline, HoldsLmu
  <2>2. /\ w \notin HoldsLmu' /\ SameMu
        /\ \A x \in Workers : x # w => (x \in HoldsLmu' <=> x \in HoldsLmu)
    BY <1>10 DEF AcquireFails, Goto, Leave, Abort, TypeOK, HoldsMu, HoldsLmu, WithMu, LockedDiscipline
  <2> QED
    BY <1>8, <2>1, <2>2
<1>11. ASSUME NEW w \in Workers, Release(w) PROVE MuDiscipline'
  <2>1. lmu' = [lmu EXCEPT ![P(w)] = NoOne] /\ lmu[P(w)] = w /\ NoOne # w
    BY <1>11, PoolAssumption DEF Release, MuDiscipline, HoldsLmu, LockedDiscipline
  <2>2. /\ w \notin HoldsLmu' /\ SameMu
        /\ \A x \in Workers : x # w => (x \in HoldsLmu' <=> x \in HoldsLmu)
    BY <1>11 DEF Release, Goto, TypeOK, HoldsMu, HoldsLmu, WithMu
  <2> QED
    BY <1>8, <2>1, <2>2
<1>12. ASSUME NEW p \in Processes, Crash(p) PROVE MuDiscipline'
  <2>1. ASSUME NEW x \in Workers
        PROVE  (mu'[P(x)] = x <=> x \in HoldsMu') /\ (lmu'[P(x)] = x <=> x \in HoldsLmu')
    <3>1. P(x) \in Processes /\ NoOne # x
      BY <1>a, PoolAssumption
    <3>2. CASE P(x) = p
      <4>1. mu'[P(x)] = NoOne /\ lmu'[P(x)] = NoOne
        BY <1>12, <3>1, <3>2 DEF Crash, TypeOK
      <4>2. x \notin HoldsMu' /\ x \notin HoldsLmu'
        BY <1>12, <3>2 DEF Crash, HoldsMu, HoldsLmu, WithMu
      <4> QED
        BY <3>1, <4>1, <4>2
    <3>3. CASE P(x) # p
      <4>1. mu'[P(x)] = mu[P(x)] /\ lmu'[P(x)] = lmu[P(x)]
        BY <1>12, <3>1, <3>3 DEF Crash, TypeOK
      <4>2. (x \in HoldsMu' <=> x \in HoldsMu) /\ (x \in HoldsLmu' <=> x \in HoldsLmu)
        BY <1>12, <3>3 DEF Crash, HoldsMu, HoldsLmu, WithMu
      <4> QED
        BY <4>1, <4>2 DEF MuDiscipline
    <3> QED
      BY <3>2, <3>3
  <2> QED
    BY <2>1, <1>d
<1>13. CASE UNCHANGED vars
  <2>1. SameMu /\ SameLmu
    BY <1>13 DEF vars, HoldsMu, HoldsLmu
  <2> QED
    BY <2>1, <1>b, <1>c, <1>d
<1> QED
  BY <1>1, <1>2, <1>3, <1>5, <1>6, <1>7, <1>9, <1>10, <1>11, <1>12, <1>13 DEF Next, Step

-----------------------------------------------------------------------------
\* The call on the connection c has the lock.
HeldOn(c) == \E w \in Workers : Holds(w) /\ conn[w] = c

\* n is right for a session: once for the call that has the lock, if h, and at
\* most once more for each of e errors.
Right(n, e, h) == LET k == IF h THEN 1 ELSE 0 IN k <= n /\ n <= k + e

Accounts ==
    setup.lock = "session" =>
        \A c \in Conns : Right(advisory[c], errors[c], HeldOn(c))

\* A call whose session ended, unnoticed, while it had the lock still thinks that
\* it has it, and has still to unlock.
UnseenDiscipline == \A w \in unseen : locked[w] /\ w \in broken /\ setup.lock = "session"

\* At most one call has the lock.
AtMostOne == \A w, x \in Workers : Holds(w) /\ Holds(x) => w = x

Inv == TypeOK /\ ConnDiscipline /\ LockedDiscipline /\ MuDiscipline

\* The inductive invariant.
IInv == Inv /\ Accounts /\ AtMostOne /\ UnseenDiscipline

\* On a connection in use, the call that has it decides.
LEMMA HeldOnByUser ==
    ASSUME ConnDiscipline, NEW w \in Workers, conn[w] # NoConn
    PROVE  HeldOn(conn[w]) <=> Holds(w)
BY DEF ConnDiscipline, HeldOn

\* A call with the lock has a connection of its pool.
LEMMA HolderHasConn ==
    ASSUME Inv, NEW w \in Workers, locked[w]
    PROVE  conn[w] \in Conns /\ conn[w] \in setup.conns[P(w)] /\ conn[w] # NoConn
BY SetupFacts DEF Inv, TypeOK, ConnDiscipline, LockedDiscipline, WithConn

\* Only SessionLock and Acquire give the lock to a call.
LEMMA OnlyGrants ==
    ASSUME Inv, [Next]_vars, NEW x \in Workers, ~Holds(x), Holds(x)'
    PROVE  SessionLock(x) \/ Acquire(x)
<1> USE DEF Holds
<1>1. ASSUME NEW w \in Workers, Conn(w) PROVE FALSE
  BY <1>1, ConnEffect DEF Inv
<1>2. ASSUME NEW w \in Workers, Prepare(w) \/ RunIndividually(w) PROVE FALSE
  BY <1>2, WorkEffect DEF Inv
<1>3. ASSUME NEW w \in Workers, UnlockMu(w) PROVE FALSE
  BY <1>3, UnlockMuEffect DEF Inv
<1>4. ASSUME NEW w \in Workers, SessionLock(w) \/ Acquire(w) PROVE w = x
  BY <1>4 DEF SessionLock, Acquire, Inv, TypeOK
<1>5. ASSUME NEW w \in Workers,
             \/ Call(w) \/ LockMu(w) \/ ConnFails(w) \/ SessionLockFails(w) \/ LockerMu(w)
             \/ AcquireFails(w) \/ RunDone(w)
      PROVE  FALSE
  BY <1>5 DEF Call, LockMu, ConnFails, SessionLockFails, LockerMu, AcquireFails, RunDone
<1>6. ASSUME NEW w \in Workers, SessionUnlock(w) \/ SessionUnlockFails(w) \/ Release(w)
      PROVE  FALSE
  BY <1>6 DEF SessionUnlock, SessionUnlockFails, Release, Inv, TypeOK
<1>7. ASSUME NEW w \in Workers, Close(w) PROVE FALSE
  BY <1>7 DEF Close, Inv, TypeOK, LockedDiscipline
<1>8. ASSUME NEW w \in Workers, ConnectionBreaks(w) PROVE FALSE
  BY <1>8 DEF ConnectionBreaks
<1>9. ASSUME NEW p \in Processes, Crash(p) PROVE FALSE
  BY <1>9 DEF Crash
<1>10. CASE UNCHANGED vars
  BY <1>10 DEF vars
<1> QED
  BY <1>1, <1>2, <1>3, <1>4, <1>5, <1>6, <1>7, <1>8, <1>9, <1>10 DEF Next, Step

\* The lock is given to a call only when nobody has it, and to nobody else.
LEMMA Granted ==
    ASSUME IInv, [Next]_vars, NEW x \in Workers, ~Holds(x), Holds(x)'
    PROVE  \A y \in Workers : ~Holds(y) /\ (Holds(y)' => y = x)
<1>1. SessionLock(x) \/ Acquire(x)
  BY OnlyGrants DEF IInv
<1>2. ASSUME NEW y \in Workers PROVE ~Holds(y)
  <2>1. CASE SessionLock(x)
    <3> SUFFICES ASSUME Holds(y) PROVE FALSE
      OBVIOUS
    <3>1. setup.lock = "session" /\ Grantable(x) /\ y # x
      BY <2>1 DEF SessionLock, IInv, Inv, LockedDiscipline
    <3>2. conn[y] \in Conns /\ conn[y] # NoConn
      BY HolderHasConn DEF IInv, Holds
    <3>3. conn[y] # conn[x]
      BY <3>1, <3>2 DEF IInv, Inv, ConnDiscipline
    <3>4. HeldOn(conn[y])
      BY DEF HeldOn
    <3>5. advisory[conn[y]] \in Int /\ 1 <= advisory[conn[y]]
      BY <3>1, <3>2, <3>4 DEF IInv, Inv, Accounts, Right, TypeOK
    <3>6. advisory[conn[y]] = 0
      BY <3>1, <3>2, <3>3 DEF Grantable
    <3> QED
      BY <3>5, <3>6
  <2>2. CASE Acquire(x)
    BY <2>2 DEF Acquire, Holds
  <2> QED
    BY <1>1, <2>1, <2>2
<1>3. ASSUME NEW y \in Workers, Holds(y)', y # x PROVE FALSE
  <2>1. SessionLock(y) \/ Acquire(y)
    BY <1>2, <1>3, OnlyGrants DEF IInv
  <2>2. locked'[y] = locked[y] /\ broken' = broken /\ setup' = setup
    BY <1>1, <1>3 DEF SessionLock, Acquire, IInv, Inv, TypeOK
  <2>3. Holds(y)
    BY <1>3, <2>2 DEF Holds
  <2> QED
    BY <1>2, <2>3
<1> QED
  BY <1>2, <1>3

\* No step gives the lock to a second call.
LEMMA AtMostOneStep ==
    ASSUME IInv, [Next]_vars
    PROVE  AtMostOne'
<1> SUFFICES ASSUME NEW w \in Workers, NEW x \in Workers, Holds(w)', Holds(x)'
             PROVE  w = x
  BY DEF AtMostOne
<1>1. CASE Holds(w) /\ Holds(x)
  BY <1>1 DEF IInv, AtMostOne
<1>2. CASE ~Holds(w)
  BY <1>2, Granted
<1>3. CASE ~Holds(x)
  BY <1>3, Granted
<1> QED
  BY <1>1, <1>2, <1>3

\* A step leaves the accounts right on a connection on which it changes nothing.
LEMMA AccountsFrame ==
    ASSUME Accounts, setup.lock = "session", NEW c \in Conns,
           advisory'[c] = advisory[c], errors'[c] = errors[c], HeldOn(c)' <=> HeldOn(c)
    PROVE  Right(advisory'[c], errors'[c], HeldOn(c)')
BY DEF Accounts, Right

\* No step breaks the accounts of the advisory lock.
LEMMA AccountsStep ==
    ASSUME IInv, Inv', [Next]_vars
    PROVE  Accounts'
<1> DEFINE RightAt(c) == Right(advisory'[c], errors'[c], HeldOn(c)')
<1>a. setup' = setup
  <2>1. ASSUME NEW w \in Workers, Conn(w) PROVE setup' = setup
    BY <2>1 DEF Conn
  <2>2. ASSUME NEW w \in Workers, Prepare(w) \/ RunIndividually(w) PROVE setup' = setup
    BY <2>2 DEF Prepare, RunIndividually
  <2> QED
    BY <2>1, <2>2 DEF Next, Step, vars, Call, LockMu, ConnFails, SessionLock, SessionLockFails,
          LockerMu, Acquire, AcquireFails, RunDone, UnlockMu, SessionUnlock,
          SessionUnlockFails, Release, Close, ConnectionBreaks, Crash
<1> SUFFICES ASSUME setup.lock = "session", NEW c \in Conns PROVE RightAt(c)
  BY <1>a DEF Accounts
<1>b. /\ Right(advisory[c], errors[c], HeldOn(c))
      /\ advisory[c] \in Int /\ errors[c] \in Nat
  BY DEF IInv, Inv, Accounts, TypeOK
<1>c. Accounts /\ Inv /\ TypeOK /\ ConnDiscipline /\ ConnDiscipline' /\ LockedDiscipline
  BY DEF IInv, Inv
\* Steps that change nothing the accounts are about.
<1>1. ASSUME UNCHANGED <<conn, advisory, errors, locked, broken>> PROVE RightAt(c)
  <2>1. HeldOn(c)' <=> HeldOn(c)
    BY <1>1, <1>a DEF HeldOn, Holds
  <2> QED
    BY <1>1, <2>1, <1>c, AccountsFrame
<1>2. ASSUME NEW w \in Workers,
             \/ Call(w) \/ LockMu(w) \/ ConnFails(w) \/ LockerMu(w)
             \/ AcquireFails(w) \/ RunDone(w) \/ Prepare(w) \/ RunIndividually(w) \/ UnlockMu(w)
      PROVE  RightAt(c)
  <2>1. UNCHANGED <<conn, advisory, errors, locked, broken>>
    BY <1>2 DEF Call, LockMu, ConnFails, LockerMu, AcquireFails, RunDone,
          Prepare, RunIndividually, UnlockMu
  <2> QED
    BY <1>1, <2>1
<1>3. ASSUME NEW w \in Workers, Acquire(w) \/ Release(w) PROVE FALSE
  BY <1>3, <1>c DEF Acquire, Release, LockedDiscipline
<1>4. ASSUME NEW w \in Workers, Conn(w) PROVE RightAt(c)
  <2>1. PICK d \in Conns : (\A x \in Workers : conn[x] # d) /\ conn' = [conn EXCEPT ![w] = d]
    BY <1>4, <1>c, ConnEffect
  <2>2. pc[w] \in {"conn", "connReadOnly"} /\ UNCHANGED <<broken, advisory, errors, locked>>
    BY <1>4, <1>c, ConnEffect
  <2>3. ~locked[w]
    BY <2>2, <1>c DEF LockedDiscipline
  <2>4. HeldOn(c)' <=> HeldOn(c)
    BY <2>1, <2>2, <2>3, <1>a, <1>c DEF HeldOn, Holds, TypeOK
  <2> QED
    BY <2>2, <2>4, <1>c, AccountsFrame
<1>5. ASSUME NEW w \in Workers, Close(w) PROVE RightAt(c)
  <2>1. /\ conn' = [conn EXCEPT ![w] = NoConn] /\ broken' = broken \ {w} /\ pc[w] = "close"
        /\ UNCHANGED <<advisory, errors, locked>>
    BY <1>5 DEF Close
  <2>2. ~locked[w]
    BY <2>1, <1>c DEF LockedDiscipline
  <2>3. HeldOn(c)' <=> HeldOn(c)
    BY <2>1, <2>2, <1>a, <1>c DEF HeldOn, Holds, TypeOK
  <2> QED
    BY <2>1, <2>3, <1>c, AccountsFrame
\* Steps about the lock of the connection of w.
<1>6. ASSUME NEW w \in Workers, conn[w] \in Conns, conn[w] # NoConn, conn' = conn,
             \A x \in Workers : x # w => (Holds(x)' <=> Holds(x)),
             \A d \in Conns : d # conn[w] => advisory'[d] = advisory[d] /\ errors'[d] = errors[d],
             NEW more \in 0 .. errors'[conn[w]] - errors[conn[w]],
             advisory'[conn[w]] = advisory[conn[w]] + more
                   + (IF Holds(w)' THEN 1 ELSE 0) - (IF Holds(w) THEN 1 ELSE 0),
             errors'[conn[w]] \in Int
      PROVE  RightAt(c)
  <2>1. CASE c # conn[w]
    <3>1. HeldOn(c)' <=> HeldOn(c)
      BY <1>6, <2>1 DEF HeldOn
    <3> QED
      BY <1>6, <2>1, <3>1, <1>c, AccountsFrame
  <2>2. CASE c = conn[w]
    <3>1. HeldOn(c) <=> Holds(w)
      BY <1>6, <2>2, <1>c, HeldOnByUser
    <3>2. HeldOn(c)' <=> Holds(w)'
      BY <1>6, <2>2, <3>1, <1>c DEF HeldOn, ConnDiscipline
    <3>3. /\ advisory'[c] = advisory[c] + more
                   + (IF HeldOn(c)' THEN 1 ELSE 0) - (IF HeldOn(c) THEN 1 ELSE 0)
          /\ more \in 0 .. errors'[c] - errors[c] /\ errors'[c] \in Int
      BY <1>6, <2>2, <3>1, <3>2
    <3> QED
      BY <3>3, <1>b DEF Right
  <2> QED
    BY <2>1, <2>2
<1>7. ASSUME NEW w \in Workers, SessionLock(w) PROVE RightAt(c)
  <2>1. conn[w] \in Conns /\ conn[w] # NoConn /\ ~Holds(w)
    BY ZenonT(60), <1>7, <1>c, PoolAssumption
    DEF SessionLock, Holds, TypeOK, ConnDiscipline, LockedDiscipline, WithConn
  <2>2. /\ conn' = conn /\ errors' = errors /\ advisory' = [advisory EXCEPT ![conn[w]] = @ + 1]
        /\ locked' = [locked EXCEPT ![w] = TRUE] /\ broken' = broken /\ w \notin broken
    BY <1>7 DEF SessionLock
  <2>3. Holds(w)' /\ \A x \in Workers : x # w => (Holds(x)' <=> Holds(x))
    BY <2>2, <1>a, <1>c DEF Holds, TypeOK
  <2>4. /\ advisory'[conn[w]] = advisory[conn[w]] + 1
        /\ advisory[conn[w]] \in Int /\ errors[conn[w]] \in Int
        /\ \A d \in Conns : d # conn[w] => advisory'[d] = advisory[d]
    BY <2>1, <2>2, <1>c DEF TypeOK
  <2>5. 0 \in 0 .. errors'[conn[w]] - errors[conn[w]]
    BY <2>2, <2>4
  <2> QED
    BY <1>6, <2>1, <2>2, <2>3, <2>4, <2>5
<1>8. ASSUME NEW w \in Workers, SessionUnlock(w) PROVE RightAt(c)
  <2>1. conn[w] \in Conns /\ conn[w] # NoConn /\ Holds(w)
    BY <1>8, <1>c, PoolAssumption
    DEF SessionUnlock, Holds, TypeOK, ConnDiscipline, LockedDiscipline, WithConn
  <2>2. /\ conn' = conn /\ errors' = errors /\ advisory' = [advisory EXCEPT ![conn[w]] = @ - 1]
        /\ locked' = [locked EXCEPT ![w] = FALSE] /\ broken' = broken
    BY <1>8 DEF SessionUnlock
  <2>3. ~Holds(w)' /\ \A x \in Workers : x # w => (Holds(x)' <=> Holds(x))
    BY <2>2, <1>a, <1>c DEF Holds, TypeOK
  <2>4. /\ advisory'[conn[w]] = advisory[conn[w]] - 1
        /\ advisory[conn[w]] \in Int /\ errors[conn[w]] \in Int
        /\ \A d \in Conns : d # conn[w] => advisory'[d] = advisory[d]
    BY <2>1, <2>2, <1>c DEF TypeOK
  <2>5. 0 \in 0 .. errors'[conn[w]] - errors[conn[w]]
    BY <2>2, <2>4
  <2> QED
    BY <1>6, <2>1, <2>2, <2>3, <2>4, <2>5
<1>9. ASSUME NEW w \in Workers, SessionUnlockFails(w) PROVE RightAt(c)
  <2>1. conn[w] \in Conns /\ conn[w] # NoConn /\ (Holds(w) <=> w \notin broken)
    BY <1>9, <1>c, PoolAssumption
    DEF SessionUnlockFails, Holds, TypeOK, ConnDiscipline, LockedDiscipline, WithConn
  <2>2. /\ conn' = conn /\ locked' = [locked EXCEPT ![w] = FALSE] /\ broken' = broken
        /\ \A d \in Conns : d # conn[w] => advisory'[d] = advisory[d] /\ errors'[d] = errors[d]
    BY <1>9, <1>c, SessionUnlockFailsEffect
  <2>3. ~Holds(w)' /\ \A x \in Workers : x # w => (Holds(x)' <=> Holds(x))
    BY <2>2, <1>a, <1>c DEF Holds, TypeOK
  <2>4. advisory[conn[w]] \in Int /\ errors[conn[w]] \in Int
    BY <2>1, <1>c DEF TypeOK
  <2>5. CASE /\ w \in broken /\ advisory'[conn[w]] = advisory[conn[w]]
             /\ errors'[conn[w]] = errors[conn[w]]
    <3>1. 0 \in 0 .. errors'[conn[w]] - errors[conn[w]]
      BY <2>4, <2>5
    <3> QED
      BY <1>6, <2>1, <2>2, <2>3, <2>4, <2>5, <3>1
  <2>6. CASE /\ w \notin broken /\ errors'[conn[w]] = errors[conn[w]] + 1
             /\ advisory'[conn[w]] \in {advisory[conn[w]], advisory[conn[w]] - 1}
    <3>1. PICK more \in {0, 1} : advisory'[conn[w]] = advisory[conn[w]] + more - 1
      BY <2>4, <2>6
    <3>2. more \in 0 .. errors'[conn[w]] - errors[conn[w]]
      BY <2>4, <2>6
    <3> QED
      BY <1>6, <2>1, <2>2, <2>3, <2>4, <2>6, <3>1, <3>2
  <2> QED
    BY <1>9, <1>c, <2>5, <2>6, SessionUnlockFailsEffect
<1>13. ASSUME NEW w \in Workers, SessionLockFails(w) PROVE RightAt(c)
  <2>1. conn[w] \in Conns /\ conn[w] # NoConn /\ ~locked[w]
    BY <1>13, <1>c, SessionLockFailsEffect DEF LockedDiscipline
  <2>2. /\ conn' = conn /\ locked' = locked /\ broken' = broken
        /\ \A d \in Conns : d # conn[w] => advisory'[d] = advisory[d] /\ errors'[d] = errors[d]
    BY <1>13, <1>c, SessionLockFailsEffect
  <2>3. ~Holds(w) /\ ~Holds(w)' /\ \A x \in Workers : x # w => (Holds(x)' <=> Holds(x))
    BY <2>1, <2>2, <1>a DEF Holds
  <2>4. advisory[conn[w]] \in Int /\ errors[conn[w]] \in Int
    BY <2>1, <1>c DEF TypeOK
  <2>5. /\ errors'[conn[w]] \in Int
        /\ \E more \in 0 .. errors'[conn[w]] - errors[conn[w]] :
              advisory'[conn[w]] = advisory[conn[w]] + more
    <3>1. CASE advisory'[conn[w]] = advisory[conn[w]] /\ errors'[conn[w]] = errors[conn[w]]
      BY <2>4, <3>1
    <3>2. CASE /\ advisory'[conn[w]] \in {advisory[conn[w]], advisory[conn[w]] + 1}
               /\ errors'[conn[w]] = errors[conn[w]] + 1
      BY <2>4, <3>2
    <3> QED
      BY <1>13, <1>c, <3>1, <3>2, SessionLockFailsEffect
  <2>6. PICK more \in 0 .. errors'[conn[w]] - errors[conn[w]] :
              advisory'[conn[w]] = advisory[conn[w]] + more
    BY <2>5
  <2> QED
    BY <1>6, <2>1, <2>2, <2>3, <2>4, <2>5, <2>6
<1>10. ASSUME NEW w \in Workers, ConnectionBreaks(w) PROVE RightAt(c)
  <2>1. /\ conn' = conn /\ locked' = locked /\ broken' = broken \cup {w}
        /\ advisory' = [advisory EXCEPT ![conn[w]] = 0]
        /\ errors' = [errors EXCEPT ![conn[w]] = 0] /\ conn[w] # NoConn
    BY <1>10 DEF ConnectionBreaks
  <2>2. ~Holds(w)' /\ \A x \in Workers : x # w => (Holds(x)' <=> Holds(x))
    BY <2>1, <1>a, <1>c DEF Holds, TypeOK
  <2>3. CASE c = conn[w]
    <3>1. ~HeldOn(c)'
      BY <2>1, <2>2, <2>3, <1>c DEF HeldOn, ConnDiscipline
    <3>2. advisory'[c] = 0 /\ errors'[c] = 0
      BY <2>1, <2>3, <1>c DEF TypeOK
    <3> QED
      BY <3>1, <3>2 DEF Right
  <2>4. CASE c # conn[w]
    <3>1. HeldOn(c)' <=> HeldOn(c)
      BY <2>1, <2>2, <2>4 DEF HeldOn
    <3>2. advisory'[c] = advisory[c] /\ errors'[c] = errors[c]
      BY <2>1, <2>4, <1>c DEF TypeOK
    <3> QED
      BY <3>1, <3>2, <1>c, AccountsFrame
  <2> QED
    BY <2>3, <2>4
<1>11. ASSUME NEW p \in Processes, Crash(p) PROVE RightAt(c)
  <2>1. /\ conn' = [w \in Workers |-> IF P(w) = p THEN NoConn ELSE conn[w]]
        /\ advisory' = [d \in Conns |-> IF d \in setup.conns[p] THEN 0 ELSE advisory[d]]
        /\ errors' = [d \in Conns |-> IF d \in setup.conns[p] THEN 0 ELSE errors[d]]
        /\ locked' = [w \in Workers |-> P(w) # p /\ locked[w]]
        /\ broken' = {w \in broken : P(w) # p}
    BY <1>11 DEF Crash
  <2>2. \A w \in Workers : Holds(w)' <=> P(w) # p /\ Holds(w)
    BY <2>1, <1>a DEF Holds
  <2>3. \A w \in Workers : Holds(w) => conn[w] \in setup.conns[P(w)]
    BY <1>c, HolderHasConn DEF Holds
  <2>4. CASE c \in setup.conns[p]
    <3>1. ~HeldOn(c)'
      <4> SUFFICES ASSUME NEW w \in Workers, Holds(w)', conn'[w] = c PROVE FALSE
        BY DEF HeldOn
      <4>1. P(w) # p /\ Holds(w) /\ conn[w] = c
        BY <2>1, <2>2
      <4> QED
        BY <2>3, <2>4, <4>1, <1>c, SetupFacts
    <3>2. advisory'[c] = 0 /\ errors'[c] = 0
      BY <2>1, <2>4
    <3> QED
      BY <3>1, <3>2 DEF Right
  <2>5. CASE c \notin setup.conns[p]
    <3>1. HeldOn(c)' <=> HeldOn(c)
      BY <2>1, <2>2, <2>3, <2>5 DEF HeldOn
    <3>2. advisory'[c] = advisory[c] /\ errors'[c] = errors[c]
      BY <2>1, <2>5
    <3> QED
      BY <3>1, <3>2, <1>c, AccountsFrame
  <2> QED
    BY <2>4, <2>5
<1>12. CASE UNCHANGED vars
  BY <1>12, <1>1 DEF vars
<1> QED
  BY <1>2, <1>3, <1>4, <1>5, <1>7, <1>8, <1>9, <1>10, <1>11, <1>12, <1>13 DEF Next, Step

\* Whoever gives up the lock has met the error, or has its session still.
LEMMA UnseenStep ==
    ASSUME Inv, UnseenDiscipline, [Next]_vars
    PROVE  UnseenDiscipline'
<1>a. TypeOK /\ LockedDiscipline /\ ConnDiscipline
  BY DEF Inv
<1>1. ASSUME NEW w \in Workers, unseen' \in {unseen, unseen \ {w}},
             UNCHANGED <<setup, locked, broken>>
      PROVE  UnseenDiscipline'
  BY <1>1 DEF UnseenDiscipline
<1>2. ASSUME NEW w \in Workers,
             \/ Call(w) \/ LockMu(w) \/ ConnFails(w) \/ LockerMu(w) \/ AcquireFails(w)
             \/ RunDone(w) \/ UnlockMu(w) \/ Conn(w)
      PROVE  UnseenDiscipline'
  <2>1. unseen' \in {unseen, unseen \ {w}} /\ UNCHANGED <<setup, locked, broken>>
    BY <1>2 DEF Call, LockMu, ConnFails, LockerMu, AcquireFails, RunDone, UnlockMu, Conn, Abort
  <2> QED
    BY <1>1, <2>1
<1>3. ASSUME NEW w \in Workers, Prepare(w) \/ RunIndividually(w) PROVE UnseenDiscipline'
  <2>1. unseen' \in {unseen, unseen \ {w}} /\ UNCHANGED <<setup, locked, broken>>
    BY <1>3, <1>a, WorkEffect
  <2> QED
    BY <1>1, <2>1
<1>4. ASSUME NEW w \in Workers, SessionLockFails(w) PROVE UnseenDiscipline'
  <2>1. unseen' \in {unseen, unseen \ {w}} /\ UNCHANGED <<setup, locked, broken>>
    BY <1>4, <1>a, SessionLockFailsEffect
  <2> QED
    BY <1>1, <2>1
<1>5. ASSUME NEW w \in Workers, SessionLock(w) \/ Acquire(w) PROVE UnseenDiscipline'
  BY <1>5, <1>a DEF SessionLock, Acquire, UnseenDiscipline, TypeOK
<1>6. ASSUME NEW w \in Workers, SessionUnlock(w) PROVE UnseenDiscipline'
  <2>1. /\ w \notin broken /\ locked' = [locked EXCEPT ![w] = FALSE]
        /\ UNCHANGED <<setup, broken, unseen>>
    BY <1>6 DEF SessionUnlock
  <2> QED
    BY <2>1, <1>a DEF UnseenDiscipline, TypeOK
<1>7. ASSUME NEW w \in Workers, SessionUnlockFails(w) PROVE UnseenDiscipline'
  <2>1. /\ locked' = [locked EXCEPT ![w] = FALSE] /\ unseen' = unseen \ {w}
        /\ UNCHANGED <<setup, broken>>
    BY <1>7, <1>a, SessionUnlockFailsEffect
  <2> QED
    BY <2>1, <1>a DEF UnseenDiscipline, TypeOK
<1>8. ASSUME NEW w \in Workers, Release(w) PROVE UnseenDiscipline'
  BY <1>8, <1>a DEF Release, UnseenDiscipline, LockedDiscipline
<1>9. ASSUME NEW w \in Workers, Close(w) PROVE UnseenDiscipline'
  BY <1>9, <1>a DEF Close, UnseenDiscipline, TypeOK
<1>10. ASSUME NEW w \in Workers, ConnectionBreaks(w) PROVE UnseenDiscipline'
  BY <1>10, <1>a DEF ConnectionBreaks, UnseenDiscipline, TypeOK
<1>11. ASSUME NEW p \in Processes, Crash(p) PROVE UnseenDiscipline'
  BY <1>11, <1>a DEF Crash, UnseenDiscipline, TypeOK
<1>12. CASE UNCHANGED vars
  BY <1>12 DEF vars, UnseenDiscipline
<1> QED
  BY <1>2, <1>3, <1>4, <1>5, <1>6, <1>7, <1>8, <1>9, <1>10, <1>11, <1>12 DEF Next, Step

-----------------------------------------------------------------------------
\* The inductive invariant holds initially, and every step preserves it.
LEMMA IInvInit == Init => IInv
<1> SUFFICES ASSUME Init PROVE IInv
  OBVIOUS
<1>1. TypeOK
  BY EmptySeq DEF Init, TypeOK, PCs
<1>2. ConnDiscipline /\ LockedDiscipline
  BY DEF Init, ConnDiscipline, LockedDiscipline, WithConn
<1>3. MuDiscipline
  BY <1>1, SetupFacts, PoolAssumption DEF Init, MuDiscipline, HoldsMu, HoldsLmu, WithMu
<1>4. Accounts /\ AtMostOne /\ UnseenDiscipline
  BY DEF Init, Accounts, Right, HeldOn, Holds, AtMostOne, UnseenDiscipline
<1> QED
  BY <1>1, <1>2, <1>3, <1>4 DEF IInv, Inv

LEMMA IInvStep == IInv /\ [Next]_vars => IInv'
<1> SUFFICES ASSUME IInv, [Next]_vars PROVE IInv'
  OBVIOUS
<1>1. TypeOK /\ ConnDiscipline /\ LockedDiscipline /\ MuDiscipline
  BY DEF IInv, Inv
<1>2. TypeOK' /\ ConnDiscipline' /\ LockedDiscipline' /\ MuDiscipline'
  BY <1>1, TypeStep, ConnStep, LockedStep, MuStep
<1>3. Inv'
  BY <1>2 DEF Inv
<1> QED
  BY <1>3, AccountsStep, AtMostOneStep, UnseenStep DEF IInv

\* initialize and cleanup: a call that is over has left neither p.mu nor l.mu
\* nor its connection nor the lock behind, whatever failed, broke or crashed.
THEOREM NothingLeftBehindCorrect == Spec => []NothingLeftBehind
<1>1. IInv => NothingLeftBehind
  BY DEF IInv, Inv, NothingLeftBehind, ConnDiscipline, LockedDiscipline, MuDiscipline,
        HoldsMu, HoldsLmu, WithMu, WithConn
<1> QED
  BY <1>1, IInvInit, IInvStep, PTL DEF Spec

\* SessionLock and SessionUnlock: the session of a connection has the advisory
\* lock at least once for the call that was given it, and at most once more for
\* every error that one of the two has returned in that session.
THEOREM AdvisoryIsBoundedCorrect == Spec => []AdvisoryIsBounded
<1>1. IInv => AdvisoryIsBounded
  <2> SUFFICES ASSUME IInv, setup.lock = "session", NEW c \in Conns
               PROVE  LET calls == Cardinality({w \in Workers : Holds(w) /\ conn[w] = c})
                      IN  calls <= advisory[c] /\ advisory[c] <= calls + errors[c]
    BY DEF AdvisoryIsBounded
  <2> DEFINE S == {w \in Workers : Holds(w) /\ conn[w] = c}
  <2>1. Right(advisory[c], errors[c], HeldOn(c))
    BY DEF IInv, Accounts
  <2>2. CASE HeldOn(c)
    <3>1. PICK w \in Workers : Holds(w) /\ conn[w] = c
      BY <2>2 DEF HeldOn
    <3>2. S = {w}
      BY <3>1 DEF IInv, AtMostOne
    <3>3. Cardinality(S) = 1
      BY <3>2, FS_Singleton
    <3> QED
      BY <2>1, <2>2, <3>3 DEF Right
  <2>3. CASE ~HeldOn(c)
    <3>1. S = {}
      BY <2>3 DEF HeldOn
    <3>2. Cardinality(S) = 0
      BY <3>1, FS_EmptySet
    <3> QED
      BY <2>1, <2>3, <3>2 DEF Right
  <2> QED
    BY <2>2, <2>3
<1> QED
  BY <1>1, IInvInit, IInvStep, PTL DEF Spec

\* cleanup: a call whose session ended while it had the lock does not get to the
\* end of its cleanup without having met an error, whatever its migrations use.
THEOREM LossIsReportedCorrect == Spec => []LossIsReported
<1>1. IInv => LossIsReported
  BY DEF IInv, Inv, LossIsReported, UnseenDiscipline, LockedDiscipline
<1> QED
  BY <1>1, IInvInit, IInvStep, PTL DEF Spec

\* Every step takes the lock for one call when nobody has it, gives it up for
\* the one call that has it, or leaves it alone.
LEMMA MutexSimulation ==
    IInv /\ IInv' /\ [Next]_vars => [Mutex!Next]_{w \in Workers : Holds(w)}
<1> SUFFICES ASSUME IInv, IInv', [Next]_vars
             PROVE  [Mutex!Next]_{w \in Workers : Holds(w)}
  OBVIOUS
<1> DEFINE H  == {w \in Workers : Holds(w)}
           H1 == {w \in Workers : Holds(w)'}
<1>1. (\A w, x \in H : w = x) /\ (\A w, x \in H1 : w = x)
  BY DEF IInv, AtMostOne
<1>2. ASSUME NEW x \in H1, x \notin H PROVE H = {} /\ H1 = {x}
  BY <1>2, Granted
<1>3. CASE H1 \subseteq H
  <2>1. CASE H1 = H
    BY <2>1
  <2>2. CASE H1 # H
    <3>1. PICK w \in H : w \notin H1
      BY <1>3, <2>2
    <3>2. H = {w} /\ H1 = {}
      BY <1>1, <1>3, <3>1
    <3> QED
      BY <3>1, <3>2 DEF Mutex!Next, Mutex!Release
  <2> QED
    BY <2>1, <2>2
<1>4. CASE ~(H1 \subseteq H)
  <2>1. PICK x \in H1 : x \notin H
    BY <1>4
  <2>2. H = {} /\ H1 = {x}
    BY <1>2, <2>1
  <2> QED
    BY <2>1, <2>2 DEF Mutex!Next, Mutex!Acquire
<1> QED
  BY <1>3, <1>4

\* Locker, connections and Provider together implement the lock that the
\* Provider is written against: at most one call has it, in whatever process.
THEOREM ProviderLockIsAMutex == Spec => ImplementsMutex
<1>1. Init => Mutex!Init
  BY DEF Init, Mutex!Init, Holds
<1> QED
  BY <1>1, IInvInit, IInvStep, MutexSimulation, PTL DEF Spec, ImplementsMutex, Mutex!Spec
=============================================================================
