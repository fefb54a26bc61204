----------------------------- MODULE Containers -----------------------------
(***************************************************************************)
(* The Docker helper: Manager (pkg/dockermanage) and Start of              *)
(* dockerpostgres on top of it, as callers of one Docker daemon.  Every    *)
(* request to the daemon is one step that succeeds, fails, or takes effect *)
(* and loses its answer; a request whose context is cancelled has no       *)
(* answer, and may have had its effect.  All containers here carry the     *)
(* label of the package.                                                   *)
(***************************************************************************)
EXTENDS Naturals, FiniteSets

CONSTANTS Callers,  \* goroutines or processes that use a Manager
          Calls,    \* the functions that each of them calls
          Ids,      \* bound: containers that are ever created
          NoId,     \* "no container"
          MayFail   \* may requests fail and callers die?

Starts  == {"Start", "StartPostgres"}
Managed == {"StopManaged", "RemoveManaged"}

\* What may befall a container that its Start does not answer for: its creation was
\* not answered, the daemon refused a removal with a context that is not cancelled,
\* the process that had it in hand died, or the context was cancelled while
\* dockerpostgres.Start had it.
Faults == {"unanswered", "refused", "orphaned", "interrupted"}

ASSUME ContainersAssumption == /\ NoId \notin Ids
                               /\ Calls \in [Callers -> SUBSET (Starts \cup Managed)]
                               /\ MayFail \in BOOLEAN

VARIABLES container,   \* status of each container at the daemon
          autoRemove,  \* will the daemon remove it when it stops?
          pc, call,    \* where each caller is, and in which function
          cid,         \* the container that its Start has created
          cancelled,   \* has its context been cancelled?
          todo, errs,  \* RemoveManaged, StopManaged: still to do, and failed
          before,      \* history: the containers it has to see to
          owned,       \* containers that a Start has returned
          faults       \* history: what befell containers, see Faults

vars == <<container, autoRemove, pc, call, cid, cancelled, todo, errs,
          before, owned, faults>>

daemon == <<container, autoRemove>>
loop   == <<todo, errs, before>>
ledger == <<owned, faults>>

Exists(id)  == container[id] \in {"created", "running", "exited"}
Existing    == {id \in Ids : Exists(id)}
Fresh       == {id \in Ids : container[id] = "none"}
Goto(w, l)  == pc' = [pc EXCEPT ![w] = l]

Init == /\ container = [id \in Ids |-> "none"]
        /\ autoRemove = [id \in Ids |-> FALSE]
        /\ pc = [w \in Callers |-> "idle"]
        /\ call = [w \in Callers |-> "none"]
        /\ cid = [w \in Callers |-> NoId]
        /\ cancelled = [w \in Callers |-> FALSE]
        /\ todo = [w \in Callers |-> {}]
        /\ errs = [w \in Callers |-> {}]
        /\ before = [w \in Callers |-> {}]
        /\ owned = {}
        /\ faults = {}

\* What may become of a request with the context of w.
OK(w)    == ~cancelled[w]
Fails(w) == cancelled[w] \/ MayFail

\* What Docker makes of a container whose process ends or is stopped.
Ended(id) == [container EXCEPT ![id] = IF autoRemove[id] THEN "removed" ELSE "exited"]

\* A request to remove the container of w, with its context, gets an error.
Refused(w) == /\ Fails(w)
              /\ faults' = IF OK(w) THEN faults \cup {<<"refused", cid[w]>>} ELSE faults

-----------------------------------------------------------------------------
(* Manager.Start *)

\* Options may be refused before anything is asked of the daemon.  Never more
\* Starts than there are containers left.
Call(w) ==
    /\ pc[w] = "idle"
    /\ \/ /\ Cardinality(Fresh)
               > Cardinality({x \in Callers : pc[x] \in {"pull", "create"}})
          /\ \E l \in {"pull", "failed"} : Goto(w, l)
          /\ \E f \in Calls[w] \cap Starts : call' = [call EXCEPT ![w] = f]
       \/ /\ Goto(w, "list")
          /\ \E f \in Calls[w] \cap Managed : call' = [call EXCEPT ![w] = f]
    /\ UNCHANGED <<daemon, cid, cancelled, loop, ledger>>

\* The image is there, is pulled, or cannot be; nothing else depends on it.
pullImageIfNotExists(w) ==
    /\ pc[w] = "pull"
    /\ \/ OK(w) /\ Goto(w, "create")
       \/ Fails(w) /\ Goto(w, "failed")
    /\ UNCHANGED <<daemon, call, cid, cancelled, loop, ledger>>

\* A container whose creation was not answered is nobody's.  dockerpostgres does not
\* ask for automatic removal.
ContainerCreate(w) ==
    /\ pc[w] = "create"
    /\ \/ \E auto \in IF call[w] = "Start" THEN BOOLEAN ELSE {FALSE}, id \in Fresh :
              /\ container' = [container EXCEPT ![id] = "created"]
              /\ autoRemove' = [autoRemove EXCEPT ![id] = auto]
              /\ \/ /\ OK(w) /\ cid' = [cid EXCEPT ![w] = id]
                    /\ Goto(w, "start") /\ UNCHANGED faults
                 \/ /\ Fails(w) /\ faults' = faults \cup {<<"unanswered", id>>}
                    /\ Goto(w, "failed") /\ UNCHANGED cid
       \/ Fails(w) /\ Goto(w, "failed") /\ UNCHANGED <<container, autoRemove, cid, faults>>
    /\ UNCHANGED <<call, cancelled, loop, owned>>

\* With a fixed host port the container is not inspected.
AfterStart(w) == IF call[w] = "Start" THEN {"inspect", "started"} ELSE {"inspect", "wait"}

ContainerStart(w) ==
    /\ pc[w] = "start"
    /\ \/ /\ OK(w) /\ container[cid[w]] = "created"
          /\ container' = [container EXCEPT ![cid[w]] = "running"]
          /\ \E l \in AfterStart(w) : Goto(w, l)
       \/ /\ Fails(w) /\ container[cid[w]] = "created"
          /\ container' = [container EXCEPT ![cid[w]] = "running"]
          /\ Goto(w, "undo")
       \/ /\ Fails(w) \/ ~Exists(cid[w])
          /\ Goto(w, "undo") /\ UNCHANGED container
    /\ UNCHANGED <<autoRemove, call, cid, cancelled, loop, ledger>>

\* The port is known only while the container runs.
ContainerInspect(w) ==
    /\ pc[w] = "inspect"
    /\ \/ /\ OK(w) /\ container[cid[w]] = "running"
          /\ Goto(w, IF call[w] = "Start" THEN "started" ELSE "wait")
       \/ (Fails(w) \/ container[cid[w]] # "running") /\ Goto(w, "undo")
    /\ UNCHANGED <<daemon, call, cid, cancelled, loop, ledger>>

\* Fault: the deferred removal uses the context of the caller.
UndoWithContext(w) ==
    /\ pc[w] = "undo"
    /\ \/ /\ Exists(cid[w])
          /\ container' = [container EXCEPT ![cid[w]] = "removed"] /\ UNCHANGED faults
       \/ Exists(cid[w]) /\ Refused(w) /\ UNCHANGED container
       \/ ~Exists(cid[w]) /\ UNCHANGED <<container, faults>>
    /\ cid' = [cid EXCEPT ![w] = NoId]
    /\ Goto(w, "failed")
    /\ UNCHANGED <<autoRemove, call, cancelled, loop, owned>>

\* The deferred removal, with context.WithoutCancel; its error is only logged.
Undo(w) ==
    /\ pc[w] = "undo"
    /\ \/ /\ Exists(cid[w])
          /\ container' = [container EXCEPT ![cid[w]] = "removed"] /\ UNCHANGED faults
       \/ /\ MayFail /\ Exists(cid[w])
          /\ faults' = faults \cup {<<"refused", cid[w]>>} /\ UNCHANGED container
       \/ ~Exists(cid[w]) /\ UNCHANGED <<container, faults>>
    /\ cid' = [cid EXCEPT ![w] = NoId]
    /\ Goto(w, "failed")
    /\ UNCHANGED <<autoRemove, call, cancelled, loop, owned>>

\* The container is the caller's.
Started(w) ==
    /\ pc[w] = "started"
    /\ owned' = owned \cup {cid[w]}
    /\ cid' = [cid EXCEPT ![w] = NoId]
    /\ Goto(w, "done")
    /\ UNCHANGED <<daemon, call, cancelled, loop, faults>>

-----------------------------------------------------------------------------
(* dockerpostgres.Start: WaitReady, and Remove if that fails *)

\* TCPReady succeeds, before the timeout.
Ready(w) ==
    /\ pc[w] = "wait" /\ OK(w)
    /\ container[cid[w]] = "running"
    /\ Goto(w, "started")
    /\ UNCHANGED <<daemon, call, cid, cancelled, loop, ledger>>

\* The timeout of WaitReady has passed, or the context is cancelled.
NotReady(w) ==
    /\ pc[w] = "wait"
    /\ Goto(w, "giveUp")
    /\ UNCHANGED <<daemon, call, cid, cancelled, loop, ledger>>

\* Manager.Remove with the context of the caller, cancelled or not.
RemoveUnready(w) ==
    /\ pc[w] = "giveUp"
    /\ \/ /\ Exists(cid[w])
          /\ container' = [container EXCEPT ![cid[w]] = "removed"] /\ UNCHANGED faults
       \/ Exists(cid[w]) /\ Refused(w) /\ UNCHANGED container
       \/ ~Exists(cid[w]) /\ UNCHANGED <<container, faults>>
    /\ cid' = [cid EXCEPT ![w] = NoId]
    /\ Goto(w, "failed")
    /\ UNCHANGED <<autoRemove, call, cancelled, loop, owned>>

-----------------------------------------------------------------------------
(* Stop, Remove, and both for all containers of the package *)

\* Manager.Stop
StopOne(id) == container[id] = "running" /\ container' = Ended(id)

\* Manager.Remove, by force
RemoveOne(id) == Exists(id) /\ container' = [container EXCEPT ![id] = "removed"]

\* The owner of a container stops or removes it.
StopOrRemove(w) ==
    /\ pc[w] = "idle"
    /\ \E id \in owned : StopOne(id) \/ RemoveOne(id)
    /\ UNCHANGED <<autoRemove, pc, call, cid, cancelled, loop, ledger>>

\* All there are, or all that run.
Concerned(w) == IF call[w] = "RemoveManaged" THEN Existing
                ELSE {id \in Ids : container[id] = "running"}

\* Fault: containers that do not run are not listed.
ListRunning(w) ==
    /\ pc[w] = "list"
    /\ \/ /\ OK(w) /\ Goto(w, "each")
          /\ todo' = [todo EXCEPT ![w] = {id \in Ids : container[id] = "running"}]
          /\ before' = [before EXCEPT ![w] = Concerned(w)]
       \/ Fails(w) /\ Goto(w, "failed") /\ UNCHANGED <<todo, before>>
    /\ UNCHANGED <<daemon, call, cid, cancelled, errs, ledger>>

\* All: true, so in any state.
ListManaged(w) ==
    /\ pc[w] = "list"
    /\ \/ /\ OK(w) /\ Goto(w, "each")
          /\ todo' = [todo EXCEPT ![w] = Existing]
          /\ before' = [before EXCEPT ![w] = Concerned(w)]
       \/ Fails(w) /\ Goto(w, "failed") /\ UNCHANGED <<todo, before>>
    /\ UNCHANGED <<daemon, call, cid, cancelled, errs, ledger>>

\* One container after the other; errors are collected.  To stop a container
\* that does not run is no error, to stop or remove one that is gone is.
Each(w) ==
    /\ pc[w] = "each"
    /\ \E id \in todo[w] :
           /\ todo' = [todo EXCEPT ![w] = @ \ {id}]
           /\ \/ /\ OK(w)
                 /\ \/ IF call[w] = "StopManaged" THEN StopOne(id) ELSE RemoveOne(id)
                    \/ /\ call[w] = "StopManaged" /\ container[id] \in {"created", "exited"}
                       /\ UNCHANGED container
                 /\ UNCHANGED errs
              \/ /\ errs' = [errs EXCEPT ![w] = @ \cup {id}]
                 /\ \/ (Fails(w) \/ ~Exists(id)) /\ UNCHANGED container
                    \/ Fails(w) /\ IF call[w] = "StopManaged" THEN StopOne(id) ELSE RemoveOne(id)
    /\ UNCHANGED <<autoRemove, pc, call, cid, cancelled, before, ledger>>

EachDone(w) ==
    /\ pc[w] = "each" /\ todo[w] = {}
    /\ Goto(w, IF errs[w] = {} THEN "done" ELSE "failed")
    /\ UNCHANGED <<daemon, call, cid, cancelled, loop, ledger>>

-----------------------------------------------------------------------------
Reset(w) ==
    /\ call' = [call EXCEPT ![w] = "none"]
    /\ cid' = [cid EXCEPT ![w] = NoId]
    /\ cancelled' = [cancelled EXCEPT ![w] = FALSE]
    /\ todo' = [todo EXCEPT ![w] = {}]
    /\ errs' = [errs EXCEPT ![w] = {}]
    /\ before' = [before EXCEPT ![w] = {}]
    /\ Goto(w, "idle")

Return(w) ==
    /\ pc[w] \in {"done", "failed"}
    /\ Reset(w)
    /\ UNCHANGED <<daemon, ledger>>

Cancel(w) ==
    /\ pc[w] \notin {"idle", "done", "failed"} /\ ~cancelled[w]
    /\ cancelled' = [cancelled EXCEPT ![w] = TRUE]
    /\ faults' = IF pc[w] \in {"wait", "giveUp"}
                 THEN faults \cup {<<"interrupted", cid[w]>>} ELSE faults
    /\ UNCHANGED <<daemon, pc, call, cid, loop, owned>>

\* The process dies in the middle of a call.
Crash(w) ==
    /\ MayFail /\ pc[w] \notin {"idle", "done", "failed"}
    /\ Reset(w)
    /\ faults' = IF cid[w] = NoId THEN faults ELSE faults \cup {<<"orphaned", cid[w]>>}
    /\ UNCHANGED <<daemon, owned>>

\* What runs in the container ends by itself.
ContainerExits(id) ==
    /\ container[id] = "running"
    /\ container' = Ended(id)
    /\ UNCHANGED <<autoRemove, pc, call, cid, cancelled, loop, ledger>>

Step(w) == \/ pullImageIfNotExists(w) \/ ContainerCreate(w) \/ ContainerStart(w)
           \/ ContainerInspect(w) \/ Undo(w) \/ Started(w)
           \/ Ready(w) \/ NotReady(w) \/ RemoveUnready(w)
           \/ ListManaged(w) \/ Each(w) \/ EachDone(w) \/ Return(w)

Next == \/ \E w \in Callers : Call(w) \/ Step(w) \/ StopOrRemove(w) \/ Cancel(w) \/ Crash(w)
        \/ \E id \in Ids : ContainerExits(id)

Spec == Init /\ [][Next]_vars

-----------------------------------------------------------------------------
(* Properties *)

\* A container that exists and that nobody was given, nor has in hand, is one that
\* one of four things befell.  Manager.Start leaves one behind only if the creation
\* was not answered (the removal is deferred after it, so a context cancelled while
\* the daemon creates the container counts), if the daemon refused the removal or
\* if the process died: a context that is cancelled once the container is known, at
\* whatever request, leaves none.  dockerpostgres.Start removes with the context
\* that may be why it failed: cancelled while it waits, it may leave the container.
NothingForgotten ==
    \A id \in Existing : \/ id \in owned
                         \/ \E w \in Callers : cid[w] = id
                         \/ \E e \in Faults : <<e, id>> \in faults

\* When RemoveManaged returns, every container it found is gone, and when
\* StopManaged does, every one that ran has stopped, but for those named in the
\* error: whoever else starts, stops and removes containers meanwhile, and
\* although the first error does not end the loop.  (A container that StopManaged
\* finds created, in the middle of a Start, runs afterwards.)
ManagedIsThorough ==
    \A w \in Callers :
        pc[w] \in {"done", "failed"} =>
            \A id \in before[w] \ errs[w] :
                IF call[w] = "RemoveManaged" THEN ~Exists(id) ELSE container[id] # "running"

=============================================================================
