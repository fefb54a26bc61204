-------------------------- MODULE ContainersProofs --------------------------
(***************************************************************************)
(* Proofs about Containers, for every number of callers and containers,    *)
(* whatever requests fail or lose their answer, whoever cancels and        *)
(* whoever dies.                                                           *)
(***************************************************************************)
EXTENDS Containers, TLAPS

Statuses == {"none", "created", "running", "exited", "removed"}

\* The places of a call with a container that its Start has created.
WithContainer == {"start", "inspect", "undo", "started", "wait", "giveUp"}
PCs == {"idle", "pull", "create", "list", "each", "done", "failed"} \cup WithContainer

TypeOK ==
    /\ container \in [Ids -> Statuses]
    /\ autoRemove \in [Ids -> BOOLEAN]
    /\ pc \in [Callers -> PCs]
    /\ call \in [Callers -> {"none"} \cup Starts \cup Managed]
    /\ cid \in [Callers -> Ids \cup {NoId}]
    /\ cancelled \in [Callers -> BOOLEAN]
    /\ todo \in [Callers -> SUBSET Ids]
    /\ errs \in [Callers -> SUBSET Ids]
    /\ before \in [Callers -> SUBSET Ids]
    /\ owned \in SUBSET Ids
    /\ faults \in SUBSET (Faults \X Ids)

\* What the variables of a call hold in its places.
Locals ==
    \A w \in Callers :
        /\ cid[w] # NoId <=> pc[w] \in WithContainer
        /\ before[w] # {} => pc[w] \in {"each", "done", "failed"}
        /\ todo[w] # {} => pc[w] = "each"
        /\ pc[w] = "idle" => call[w] = "none"
        /\ pc[w] \in {"list", "each"} => call[w] \in Managed

\* Only the cancellation can have made dockerpostgres.Start fail and fail again.
Interrupted ==
    \A w \in Callers : cancelled[w] /\ pc[w] \in {"wait", "giveUp"} =>
        <<"interrupted", cid[w]>> \in faults

\* StopManaged and RemoveManaged have to see to containers that will never be
\* started again: they have run, or have been removed ...
Watched ==
    \A w \in Callers : \A id \in before[w] :
        IF call[w] = "RemoveManaged" THEN container[id] # "none"
        ELSE container[id] \in {"running", "exited", "removed"}

\* ... and those the loop is through with are as they should be.
Settled(w, id) ==
    IF call[w] = "RemoveManaged" THEN ~Exists(id) ELSE container[id] # "running"

Progress ==
    \A w \in Callers : \A id \in before[w] \ (errs[w] \cup todo[w]) : Settled(w, id)

\* The inductive invariant.
IInv == TypeOK /\ Locals /\ Interrupted /\ NothingForgotten /\ Watched /\ Progress

-----------------------------------------------------------------------------
\* No step breaks the types or the discipline of the local variables.
LEMMA TypeStep ==
    ASSUME TypeOK, Locals, [Next]_vars
    PROVE  TypeOK' /\ Locals'
<1> USE ContainersAssumption
<1> USE DEF TypeOK, Locals, Goto, daemon, loop, ledger, PCs, WithContainer, Statuses
<1>1. ASSUME NEW w \in Callers, pullImageIfNotExists(w) PROVE TypeOK' /\ Locals'
  BY <1>1 DEF pullImageIfNotExists
<1>2. ASSUME NEW w \in Callers, ContainerInspect(w) PROVE TypeOK' /\ Locals'
  BY <1>2 DEF ContainerInspect
<1>3. ASSUME NEW w \in Callers, Undo(w) PROVE TypeOK' /\ Locals'
  BY <1>3 DEF Undo, Faults
<1>4. ASSUME NEW w \in Callers, Started(w) PROVE TypeOK' /\ Locals'
  BY <1>4 DEF Started
<1>5. ASSUME NEW w \in Callers, Ready(w) PROVE TypeOK' /\ Locals'
  BY <1>5 DEF Ready
<1>6. ASSUME NEW w \in Callers, NotReady(w) PROVE TypeOK' /\ Locals'
  BY <1>6 DEF NotReady
<1>7. ASSUME NEW w \in Callers, RemoveUnready(w) PROVE TypeOK' /\ Locals'
  BY <1>7 DEF RemoveUnready, Refused, Faults
<1>8. ASSUME NEW w \in Callers, ListManaged(w) PROVE TypeOK' /\ Locals'
  BY <1>8 DEF ListManaged, Existing, Concerned
<1>9. ASSUME NEW w \in Callers, EachDone(w) PROVE TypeOK' /\ Locals'
  BY <1>9 DEF EachDone
<1>10. ASSUME NEW w \in Callers, Return(w) PROVE TypeOK' /\ Locals'
  BY <1>10 DEF Return, Reset
<1>11. ASSUME NEW w \in Callers, Cancel(w) PROVE TypeOK' /\ Locals'
  BY <1>11 DEF Cancel, Faults
<1>12. ASSUME NEW w \in Callers, Crash(w) PROVE TypeOK' /\ Locals'
  BY <1>12 DEF Crash, Reset, Faults
<1>13. ASSUME NEW w \in Callers, StopOrRemove(w) PROVE TypeOK' /\ Locals'
  BY <1>13 DEF StopOrRemove, StopOne, RemoveOne, Ended
<1>14. ASSUME NEW w \in Callers, Call(w) PROVE TypeOK' /\ Locals'
  <2>1. PICK l \in {"pull", "failed", "list"}, f \in Starts \cup Managed :
            /\ pc' = [pc EXCEPT ![w] = l] /\ call' = [call EXCEPT ![w] = f]
            /\ l = "list" => f \in Managed
    BY <1>14 DEF Call
  <2> QED
    BY <1>14, <2>1 DEF Call
<1>15. ASSUME NEW w \in Callers, ContainerCreate(w) PROVE TypeOK' /\ Locals'
  <2>1. CASE UNCHANGED <<container, autoRemove, cid, faults>> /\ pc' = [pc EXCEPT ![w] = "failed"]
    BY <1>15, <2>1 DEF ContainerCreate
  <2>2. ASSUME NEW id \in Fresh, NEW auto \in BOOLEAN,
               container' = [container EXCEPT ![id] = "created"],
               autoRemove' = [autoRemove EXCEPT ![id] = auto],
               \/ /\ cid' = [cid EXCEPT ![w] = id] /\ pc' = [pc EXCEPT ![w] = "start"]
                  /\ UNCHANGED faults
               \/ /\ faults' = faults \cup {<<"unanswered", id>>} /\ pc' = [pc EXCEPT ![w] = "failed"]
                  /\ UNCHANGED cid
        PROVE  TypeOK' /\ Locals'
    BY <1>15, <2>2 DEF ContainerCreate, Fresh, Faults
  <2> QED
    BY <1>15, <2>1, <2>2 DEF ContainerCreate
<1>16. ASSUME NEW w \in Callers, ContainerStart(w) PROVE TypeOK' /\ Locals'
  <2>1. PICK l \in {"inspect", "started", "wait", "undo"} : pc' = [pc EXCEPT ![w] = l]
    BY <1>16 DEF ContainerStart, AfterStart
  <2>2. container' \in [Ids -> Statuses]
    BY <1>16 DEF ContainerStart
  <2> QED
    BY <1>16, <2>1, <2>2 DEF ContainerStart
<1>17. ASSUME NEW w \in Callers, Each(w) PROVE TypeOK' /\ Locals'
  <2>1. PICK id \in todo[w] : todo' = [todo EXCEPT ![w] = @ \ {id}]
    BY <1>17 DEF Each
  <2>2. container' \in [Ids -> Statuses]
    BY <1>17 DEF Each, StopOne, RemoveOne, Ended
  <2>3. errs' \in [Callers -> SUBSET Ids]
    BY <1>17 DEF Each
  <2> QED
    BY <1>17, <2>1, <2>2, <2>3 DEF Each
<1>18. ASSUME NEW id \in Ids, ContainerExits(id) PROVE TypeOK' /\ Locals'
  BY <1>18 DEF ContainerExits, Ended
<1>19. CASE UNCHANGED vars
  BY <1>19 DEF vars
<1> QED
  BY <1>1, <1>2, <1>3, <1>4, <1>5, <1>6, <1>7, <1>8, <1>9,
     <1>10, <1>11, <1>12, <1>13, <1>14, <1>15, <1>16, <1>17, <1>18, <1>19
  DEF Next, Step

\* The daemon's side of every step: the status of a container only moves on,
\* and a container that has run is never started again.
Onward(id) ==
    \/ container'[id] = container[id]
    \/ container[id] = "none" /\ container'[id] = "created"
    \/ container[id] = "created" /\ container'[id] \in {"running", "removed"}
    \/ container[id] = "running" /\ container'[id] \in {"exited", "removed"}
    \/ container[id] = "exited" /\ container'[id] = "removed"

LEMMA MovesOn ==
    ASSUME TypeOK, [Next]_vars, NEW id \in Ids
    PROVE  Onward(id)
<1> USE DEF TypeOK, Statuses, daemon, Onward
<1>1. ASSUME NEW i \in Ids, container' = [container EXCEPT ![i] = "removed"], Exists(i)
      PROVE  Onward(id)
  BY <1>1 DEF Exists
<1>2. ASSUME NEW i \in Ids, container[i] = "running", container' = Ended(i)
      PROVE  Onward(id)
  BY <1>2 DEF Ended
<1>3. ASSUME container' = container PROVE Onward(id)
  BY <1>3
<1>4. ASSUME NEW i, Exists(i), container' = [container EXCEPT ![i] = "removed"]
      PROVE  Onward(id)
  BY <1>1, <1>3, <1>4
<1>5. ASSUME NEW w \in Callers, ContainerCreate(w) PROVE Onward(id)
  BY <1>5 DEF ContainerCreate, Fresh
<1>6. ASSUME NEW w \in Callers, ContainerStart(w) PROVE Onward(id)
  BY <1>6 DEF ContainerStart
<1>7. ASSUME NEW w \in Callers, Undo(w) \/ RemoveUnready(w) PROVE Onward(id)
  BY <1>3, <1>4, <1>7 DEF Undo, RemoveUnready
<1>8. ASSUME NEW w \in Callers, StopOrRemove(w) PROVE Onward(id)
  BY <1>1, <1>2, <1>8 DEF StopOrRemove, StopOne, RemoveOne
<1>9. ASSUME NEW w \in Callers, Each(w) PROVE Onward(id)
  <2>1. \/ container' = container
        \/ \E i \in todo[w] : StopOne(i) \/ RemoveOne(i)
    BY <1>9 DEF Each
  <2> QED
    BY <2>1, <1>1, <1>2, <1>3 DEF StopOne, RemoveOne
<1>10. ASSUME NEW i \in Ids, ContainerExits(i) PROVE Onward(id)
  BY <1>2, <1>10 DEF ContainerExits
<1>11. ASSUME NEW w \in Callers,
              \/ Call(w) \/ pullImageIfNotExists(w) \/ ContainerInspect(w) \/ Started(w)
              \/ Ready(w) \/ NotReady(w) \/ ListManaged(w) \/ EachDone(w) \/ Return(w)
              \/ Cancel(w) \/ Crash(w)
       PROVE  container' = container
  BY <1>11 DEF Call, pullImageIfNotExists, ContainerInspect, Started, Ready, NotReady,
        ListManaged, EachDone, Return, Cancel, Crash
<1>12. CASE UNCHANGED vars
  BY <1>12 DEF vars
<1> QED
  BY <1>3, <1>5, <1>6, <1>7, <1>8, <1>9, <1>10, <1>11, <1>12 DEF Next, Step

\* No fault is forgotten, and a cancellation that matters is one.
LEMMA InterruptedStep ==
    ASSUME TypeOK, Locals, Interrupted, [Next]_vars
    PROVE  Interrupted' /\ faults \subseteq faults'
<1> USE DEF TypeOK, Locals, Goto, daemon, loop, ledger, WithContainer
<1> DEFINE Good == Interrupted' /\ faults \subseteq faults'
<1>1. ASSUME NEW w \in Callers,
             \/ pullImageIfNotExists(w) \/ ContainerInspect(w) \/ Ready(w) \/ NotReady(w)
             \/ EachDone(w)
      PROVE  Good
  BY <1>1 DEF pullImageIfNotExists, ContainerInspect, Ready, NotReady, EachDone, OK, Interrupted
<1>2. ASSUME NEW w \in Callers, Undo(w) \/ RemoveUnready(w) PROVE Good
  <2>1. /\ pc' = [pc EXCEPT ![w] = "failed"] /\ cid' = [cid EXCEPT ![w] = NoId]
        /\ cancelled' = cancelled /\ faults \subseteq faults'
    BY <1>2 DEF Undo, RemoveUnready, Refused
  <2> QED
    BY <2>1 DEF Interrupted
<1>3. ASSUME NEW w \in Callers, Started(w) PROVE Good
  BY <1>3 DEF Started, Interrupted
<1>4. ASSUME NEW w \in Callers, Return(w) \/ Crash(w) PROVE Good
  <2>1. /\ pc' = [pc EXCEPT ![w] = "idle"] /\ cid' = [cid EXCEPT ![w] = NoId]
        /\ cancelled' = [cancelled EXCEPT ![w] = FALSE] /\ faults \subseteq faults'
    BY <1>4 DEF Return, Crash, Reset
  <2> QED
    BY <2>1 DEF Interrupted
<1>5. ASSUME NEW w \in Callers, Cancel(w) PROVE Good
  <2>1. /\ UNCHANGED <<pc, cid>> /\ faults \subseteq faults'
        /\ \A x \in Callers : x # w => cancelled'[x] = cancelled[x]
        /\ pc[w] \in {"wait", "giveUp"} => <<"interrupted", cid[w]>> \in faults'
    BY <1>5 DEF Cancel
  <2> QED
    BY <2>1 DEF Interrupted
<1>6. ASSUME NEW w \in Callers, Call(w) \/ ListManaged(w) PROVE Good
  <2>1. UNCHANGED <<cid, cancelled, faults>>
    BY <1>6 DEF Call, ListManaged
  <2>2. \E l \in {"pull", "failed", "list", "each"} : pc' = [pc EXCEPT ![w] = l]
    BY <1>6 DEF Call, ListManaged
  <2> QED
    BY <2>1, <2>2 DEF Interrupted
<1>7. ASSUME NEW w \in Callers, ContainerCreate(w) PROVE Good
  <2>1. cancelled' = cancelled /\ faults \subseteq faults'
    BY <1>7 DEF ContainerCreate
  <2>2. \E l \in {"start", "failed"} : pc' = [pc EXCEPT ![w] = l]
    BY <1>7 DEF ContainerCreate
  <2>3. \A x \in Callers : x # w => cid'[x] = cid[x]
    BY <1>7 DEF ContainerCreate
  <2> QED
    BY <2>1, <2>2, <2>3 DEF Interrupted
<1>8. ASSUME NEW w \in Callers, ContainerStart(w) PROVE Good
  <2>1. UNCHANGED <<cid, cancelled, faults>>
    BY <1>8 DEF ContainerStart
  <2>2. \E l \in {"inspect", "started", "wait", "undo"} :
           pc' = [pc EXCEPT ![w] = l] /\ (l = "wait" => ~cancelled[w])
    BY <1>8 DEF ContainerStart, AfterStart, OK
  <2> QED
    BY <2>1, <2>2 DEF Interrupted
<1>9. ASSUME NEW w \in Callers, Each(w) \/ StopOrRemove(w) PROVE Good
  BY <1>9 DEF Each, StopOrRemove, Interrupted
<1>10. ASSUME NEW i \in Ids, ContainerExits(i) PROVE Good
  BY <1>10 DEF ContainerExits, Interrupted
<1>11. CASE UNCHANGED vars
  BY <1>11 DEF vars, Interrupted
<1> QED
  BY <1>1, <1>2, <1>3, <1>4, <1>5, <1>6, <1>7, <1>8, <1>9, <1>10, <1>11 DEF Next, Step

\* No step forgets a container.
LEMMA ForgottenStep ==
    ASSUME TypeOK, Locals, Interrupted, NothingForgotten, [Next]_vars
    PROVE  NothingForgotten'
<1> DEFINE Struck(id) == \E e \in Faults : <<e, id>> \in faults
           Known(id)  == id \in owned \/ (\E w \in Callers : cid[w] = id) \/ Struck(id)
<1> SUFFICES ASSUME NEW id \in Ids, Exists(id)' PROVE Known(id)'
  BY DEF NothingForgotten, Existing
<1>1. container[id] = "none" \/ Exists(id)
  BY MovesOn DEF Onward, Exists, TypeOK, Statuses
<1>2. Exists(id) => Known(id)
  BY DEF NothingForgotten, Existing
<1>a. Struck(id) => Struck(id)'
  BY InterruptedStep
\* Steps that keep what they know of containers that were there.
<1>3. ASSUME Exists(id), owned \subseteq owned',
             \A w \in Callers : cid[w] = id => cid'[w] = id \/ id \in owned' \/ Struck(id)'
      PROVE  Known(id)'
  BY <1>2, <1>3, <1>a
<1>4. ASSUME NEW w \in Callers, ContainerCreate(w) PROVE Known(id)'
  <2>1. CASE Exists(id)
    <3>1. cid[w] # id
      BY <1>4, ContainersAssumption DEF ContainerCreate, Locals, WithContainer
    <3>2. \A x \in Callers : cid[x] = id => cid'[x] = id
      BY <1>4, <3>1 DEF ContainerCreate, TypeOK
    <3>3. owned \subseteq owned'
      BY <1>4 DEF ContainerCreate
    <3> QED
      BY <2>1, <3>2, <3>3, <1>3
  <2>2. CASE ~Exists(id)
    <3>1. container' # container
      BY <2>2 DEF Exists
    <3>2. PICK i \in Fresh : /\ container' = [container EXCEPT ![i] = "created"]
                             /\ \/ cid' = [cid EXCEPT ![w] = i]
                                \/ faults' = faults \cup {<<"unanswered", i>>}
      BY <1>4, <3>1 DEF ContainerCreate
    <3>3. i = id
      BY <2>2, <3>2 DEF Exists, TypeOK
    <3>4. cid'[w] = id \/ <<"unanswered", id>> \in faults'
      BY <3>2, <3>3 DEF TypeOK
    <3> QED
      BY <3>4 DEF Faults
  <2> QED
    BY <2>1, <2>2
<1>5. ASSUME NEW w \in Callers, Undo(w) \/ RemoveUnready(w) PROVE Known(id)'
  <2>1. cid' = [cid EXCEPT ![w] = NoId] /\ owned' = owned
    BY <1>5 DEF Undo, RemoveUnready
  <2>2. \/ container' = [container EXCEPT ![cid[w]] = "removed"]
        \/ container' = container /\ ~Exists(cid[w])
        \/ container' = container /\ <<"refused", cid[w]>> \in faults'
        \/ container' = container /\ <<"interrupted", cid[w]>> \in faults'
    <3>1. CASE Undo(w)
      BY <3>1 DEF Undo
    <3>2. CASE RemoveUnready(w)
      <4>1. cancelled[w] => <<"interrupted", cid[w]>> \in faults
        BY <3>2 DEF RemoveUnready, Interrupted
      <4> QED
        BY <3>2, <4>1, InterruptedStep DEF RemoveUnready, Refused, OK
    <3> QED
      BY <1>5, <3>1, <3>2
  <2>3. Exists(id)
    BY <1>1, <2>2 DEF Exists, TypeOK
  <2>4. ASSUME cid[w] = id PROVE Struck(id)'
    <3>1. container'[id] # "removed"
      BY DEF Exists
    <3>2. <<"refused", id>> \in faults' \/ <<"interrupted", id>> \in faults'
      BY <2>2, <2>3, <2>4, <3>1 DEF TypeOK
    <3> QED
      BY <3>2 DEF Faults
  <2>5. \A x \in Callers : cid[x] = id => cid'[x] = id \/ Struck(id)'
    BY <2>1, <2>4 DEF TypeOK
  <2> QED
    BY <2>1, <2>3, <2>5, <1>3
<1>6. ASSUME NEW w \in Callers, Crash(w) \/ Started(w) \/ Return(w) PROVE Known(id)'
  <2>1. cid' = [cid EXCEPT ![w] = NoId] /\ container' = container
    BY <1>6 DEF Crash, Reset, Started, Return, daemon
  <2>2. Exists(id)
    BY <2>1 DEF Exists
  <2>3. ASSUME cid[w] = id PROVE id \in owned' \/ <<"orphaned", id>> \in faults'
    BY <1>6, <2>3, ContainersAssumption DEF Crash, Started, Return, Locals, WithContainer
  <2>4. owned \subseteq owned'
    BY <1>6 DEF Crash, Started, Return, ledger
  <2>5. <<"orphaned", id>> \in faults' => Struck(id)'
    BY DEF Faults
  <2>6. \A x \in Callers : cid[x] = id => cid'[x] = id \/ id \in owned' \/ Struck(id)'
    BY <2>1, <2>3, <2>5 DEF TypeOK
  <2> QED
    BY <2>2, <2>4, <2>6, <1>3
<1>7. ASSUME cid' = cid, owned' = owned, container[id] # "none" PROVE Known(id)'
  BY <1>1, <1>3, <1>7
<1>8. ASSUME NEW w \in Callers,
             \/ Call(w) \/ pullImageIfNotExists(w) \/ ContainerStart(w) \/ ContainerInspect(w)
             \/ Ready(w) \/ NotReady(w) \/ ListManaged(w) \/ Each(w) \/ EachDone(w)
             \/ StopOrRemove(w) \/ Cancel(w)
      PROVE  cid' = cid /\ owned' = owned
  BY <1>8 DEF Call, pullImageIfNotExists, ContainerStart, ContainerInspect, Ready, NotReady,
        ListManaged, Each, EachDone, StopOrRemove, Cancel, ledger
<1>9. ASSUME NEW w \in Callers,
             \/ Call(w) \/ pullImageIfNotExists(w) \/ ContainerStart(w) \/ ContainerInspect(w)
             \/ Ready(w) \/ NotReady(w) \/ ListManaged(w) \/ Each(w) \/ EachDone(w)
             \/ StopOrRemove(w) \/ Cancel(w)
      PROVE  container[id] # "none"
  <2> USE DEF Exists, TypeOK
  <2>1. CASE ContainerStart(w)
    BY <2>1 DEF ContainerStart
  <2>2. CASE Each(w)
    BY <2>2 DEF Each, StopOne, RemoveOne, Ended
  <2>3. CASE StopOrRemove(w)
    BY <2>3 DEF StopOrRemove, StopOne, RemoveOne, Ended
  <2>4. CASE container' = container
    BY <2>4
  <2> QED
    BY <1>9, <2>1, <2>2, <2>3, <2>4 DEF Call, pullImageIfNotExists, ContainerInspect, Ready,
          NotReady, ListManaged, EachDone, Cancel, daemon
<1>10. ASSUME NEW i \in Ids, ContainerExits(i)
       PROVE  cid' = cid /\ owned' = owned /\ container[id] # "none"
  BY <1>10 DEF ContainerExits, Ended, ledger, Exists, TypeOK
<1>11. CASE UNCHANGED vars
  <2>1. container[id] # "none"
    BY <1>11 DEF vars, Exists
  <2> QED
    BY <1>7, <1>11, <2>1 DEF vars
<1> QED
  BY <1>4, <1>5, <1>6, <1>7, <1>8, <1>9, <1>10, <1>11 DEF Next, Step

\* No step makes StopManaged or RemoveManaged see to a container that can be
\* started afterwards, and none undoes what they are through with.
LEMMA WatchedStep ==
    ASSUME TypeOK, Locals, Watched, Progress, [Next]_vars
    PROVE  Watched' /\ Progress'
<1> DEFINE Good(w) ==
        /\ \A id \in before'[w] :
              IF call'[w] = "RemoveManaged" THEN container'[id] # "none"
              ELSE container'[id] \in {"running", "exited", "removed"}
        /\ \A id \in before'[w] \ (errs'[w] \cup todo'[w]) :
              IF call'[w] = "RemoveManaged"
              THEN container'[id] \notin {"created", "running", "exited"}
              ELSE container'[id] # "running"
<1>a. ASSUME \A w \in Callers : Good(w) PROVE Watched' /\ Progress'
  BY <1>a DEF Watched, Progress, Settled, Exists
<1> SUFFICES ASSUME NEW w \in Callers PROVE Good(w)
  BY <1>a
<1>b. \A id \in Ids : Onward(id) /\ container[id] \in Statuses
  BY MovesOn DEF TypeOK
<1>c. before[w] \subseteq Ids
  BY DEF TypeOK
\* What the daemon does in the meantime is no harm.
<1>1. ASSUME before'[w] = before[w], call'[w] = call[w],
             \A id \in before[w] \ (errs'[w] \cup todo'[w]) :
                \/ id \notin errs[w] \cup todo[w]
                \/ IF call[w] = "RemoveManaged" THEN container'[id] = "removed"
                   ELSE container'[id] # "running"
      PROVE  Good(w)
  <2>1. ASSUME NEW id \in before[w]
        PROVE  IF call[w] = "RemoveManaged" THEN container'[id] # "none"
               ELSE container'[id] \in {"running", "exited", "removed"}
    BY <2>1, <1>b, <1>c DEF Watched, Onward, Statuses
  <2>2. ASSUME NEW id \in before[w], id \notin errs[w] \cup todo[w]
        PROVE  IF call[w] = "RemoveManaged"
               THEN container'[id] \notin {"created", "running", "exited"}
               ELSE container'[id] # "running"
    BY <2>2, <1>b, <1>c DEF Watched, Progress, Settled, Exists, Onward, Statuses
  <2> QED
    BY <1>1, <2>1, <2>2
<1>2. ASSUME before'[w] = {} PROVE Good(w)
  BY <1>2
<1>3. ASSUME UNCHANGED <<before, errs, todo, call>> PROVE Good(w)
  BY <1>1, <1>3
<1>4. ASSUME NEW x \in Callers,
             \/ pullImageIfNotExists(x) \/ ContainerCreate(x) \/ ContainerStart(x)
             \/ ContainerInspect(x) \/ Undo(x) \/ Started(x) \/ Ready(x) \/ NotReady(x)
             \/ RemoveUnready(x) \/ EachDone(x) \/ StopOrRemove(x) \/ Cancel(x)
      PROVE  UNCHANGED <<before, errs, todo, call>>
  BY <1>4 DEF pullImageIfNotExists, ContainerCreate, ContainerStart, ContainerInspect, Undo,
        Started, Ready, NotReady, RemoveUnready, EachDone, StopOrRemove, Cancel, loop
<1>5. ASSUME NEW x \in Callers, Return(x) \/ Crash(x) PROVE Good(w)
  <2>1. /\ before' = [before EXCEPT ![x] = {}] /\ call' = [call EXCEPT ![x] = "none"]
        /\ todo' = [todo EXCEPT ![x] = {}] /\ errs' = [errs EXCEPT ![x] = {}]
    BY <1>5 DEF Return, Crash, Reset
  <2>2. CASE x = w
    <3>1. before'[w] = {}
      BY <2>1, <2>2 DEF TypeOK
    <3> QED
      BY <3>1, <1>2
  <2>3. CASE x # w
    <3>1. /\ before'[w] = before[w] /\ call'[w] = call[w]
          /\ todo'[w] = todo[w] /\ errs'[w] = errs[w]
      BY <2>1, <2>3 DEF TypeOK
    <3> QED
      BY <3>1, <1>1
  <2> QED
    BY <2>2, <2>3
<1>6. ASSUME NEW x \in Callers, Call(x) PROVE Good(w)
  <2>1. before' = before /\ todo' = todo /\ errs' = errs /\ pc[x] = "idle"
    BY <1>6 DEF Call, loop
  <2>2. CASE x = w
    <3>1. before'[w] = {}
      BY <2>1, <2>2 DEF Locals
    <3> QED
      BY <3>1, <1>2
  <2>3. CASE x # w
    <3>1. call'[w] = call[w]
      BY <1>6, <2>3 DEF Call, TypeOK
    <3> QED
      BY <2>1, <3>1, <1>1
  <2> QED
    BY <2>2, <2>3
<1>7. ASSUME NEW x \in Callers, ListManaged(x) PROVE Good(w)
  <2>1. errs' = errs /\ call' = call /\ container' = container /\ pc[x] = "list"
    BY <1>7 DEF ListManaged, daemon
  <2>2. CASE todo' = todo /\ before' = before
    BY <2>1, <2>2, <1>3
  <2>3. CASE /\ todo' = [todo EXCEPT ![x] = Existing]
             /\ before' = [before EXCEPT ![x] = Concerned(x)]
    <3>1. CASE x = w
      <4>1. todo'[w] = Existing /\ before'[w] = Concerned(w)
        BY <2>3, <3>1 DEF TypeOK
      <4>2. Concerned(w) \subseteq Existing
        BY DEF Concerned, Existing, Exists
      <4>3. ASSUME NEW id \in Concerned(w)
            PROVE  IF call[w] = "RemoveManaged" THEN container[id] # "none"
                   ELSE container[id] \in {"running", "exited", "removed"}
        BY <4>3 DEF Concerned, Existing, Exists
      <4> QED
        BY <2>1, <4>1, <4>2, <4>3
    <3>2. CASE x # w
      <4>1. todo'[w] = todo[w] /\ before'[w] = before[w]
        BY <2>3, <3>2 DEF TypeOK
      <4> QED
        BY <2>1, <4>1, <1>1
    <3> QED
      BY <3>1, <3>2
  <2> QED
    BY <1>7, <2>2, <2>3 DEF ListManaged
<1>8. ASSUME NEW x \in Callers, Each(x) PROVE Good(w)
  <2>1. before' = before /\ call' = call /\ pc[x] = "each"
    BY <1>8 DEF Each
  <2>2. PICK id \in todo[x] :
            /\ todo' = [todo EXCEPT ![x] = @ \ {id}]
            /\ \/ /\ \/ IF call[x] = "StopManaged" THEN StopOne(id) ELSE RemoveOne(id)
                     \/ /\ call[x] = "StopManaged" /\ container[id] \in {"created", "exited"}
                        /\ UNCHANGED container
                  /\ UNCHANGED errs
               \/ errs' = [errs EXCEPT ![x] = @ \cup {id}]
    BY <1>8 DEF Each
  <2>3. CASE x # w
    <3>1. todo'[w] = todo[w] /\ errs'[w] = errs[w]
      BY <2>2, <2>3 DEF TypeOK
    <3> QED
      BY <2>1, <3>1, <1>1
  <2>4. CASE x = w
    <3>1. todo'[w] = todo[w] \ {id} /\ id \in Ids
      BY <2>2, <2>4 DEF TypeOK
    <3>2. call[w] \in Managed
      BY <2>1, <2>4 DEF Locals
    <3>3. CASE errs' = [errs EXCEPT ![x] = @ \cup {id}]
      <4>1. errs'[w] = errs[w] \cup {id}
        BY <2>4, <3>3 DEF TypeOK
      <4> QED
        BY <2>1, <3>1, <4>1, <1>1
    <3>4. CASE /\ \/ IF call[x] = "StopManaged" THEN StopOne(id) ELSE RemoveOne(id)
                  \/ /\ call[x] = "StopManaged" /\ container[id] \in {"created", "exited"}
                     /\ UNCHANGED container
               /\ UNCHANGED errs
      <4>1. IF call[w] = "RemoveManaged" THEN container'[id] = "removed"
            ELSE container'[id] # "running"
        BY <2>4, <3>1, <3>2, <3>4 DEF StopOne, RemoveOne, Ended, TypeOK, Managed
      <4> QED
        BY <2>1, <3>1, <3>4, <4>1, <1>1
    <3> QED
      BY <2>2, <3>3, <3>4
  <2> QED
    BY <2>3, <2>4
<1>9. ASSUME NEW i \in Ids, ContainerExits(i) PROVE UNCHANGED <<before, errs, todo, call>>
  BY <1>9 DEF ContainerExits, loop
<1>10. CASE UNCHANGED vars
  BY <1>3, <1>10 DEF vars
<1> QED
  BY <1>3, <1>4, <1>5, <1>6, <1>7, <1>8, <1>9, <1>10 DEF Next, Step

-----------------------------------------------------------------------------
\* The inductive invariant holds initially, and every step preserves it.
LEMMA IInvInit == Init => IInv
<1> SUFFICES ASSUME Init PROVE IInv
  OBVIOUS
<1>1. TypeOK
  BY DEF Init, TypeOK, Statuses, PCs
<1>2. Locals /\ Interrupted /\ Watched /\ Progress
  BY DEF Init, Locals, Interrupted, Watched, Progress, WithContainer
<1>3. NothingForgotten
  BY DEF Init, NothingForgotten, Existing, Exists
<1> QED
  BY <1>1, <1>2, <1>3 DEF IInv

LEMMA IInvStep == IInv /\ [Next]_vars => IInv'
BY TypeStep, InterruptedStep, ForgottenStep, WatchedStep DEF IInv

\* Manager.Start leaves a container behind only if its creation was not answered,
\* the daemon refused the removal or the process died, never because the context
\* was cancelled once the container was known; dockerpostgres.Start also if the
\* context was cancelled while it waited for the server.
THEOREM NothingForgottenCorrect == Spec => []NothingForgotten
<1>1. IInv => NothingForgotten
  BY DEF IInv
<1> QED
  BY <1>1, IInvInit, IInvStep, PTL DEF Spec

\* StopManaged and RemoveManaged: when they return, every container they had to
\* see to has stopped or is gone, but for those named in the error.
THEOREM ManagedIsThoroughCorrect == Spec => []ManagedIsThorough
<1>1. IInv => ManagedIsThorough
  BY DEF IInv, ManagedIsThorough, Progress, Settled, Locals
<1> QED
  BY <1>1, IInvInit, IInvStep, PTL DEF Spec
=============================================================================
