------------------------------ MODULE MutexLock ------------------------------
(***************************************************************************)
(* What goose asks of a locker, whatever its implementation: at most one   *)
(* client is between a successful Lock and the call of Unlock.  This is    *)
(* the contract of the interfaces in lock/locker.go that the provider      *)
(* relies on, and that the session locker and the table locker are meant   *)
(* to implement.  A client that dies gives the lock up.                    *)
(***************************************************************************)
CONSTANT Clients

VARIABLE holders       \* the clients that hold the lock

TypeOK == holders \in SUBSET Clients

Init == holders = {}

Acquire(c) == /\ holders = {}
              /\ holders' = {c}

\* The holder unlocks, or its process ends.
Release(c) == /\ holders = {c}
              /\ holders' = {}

Next == \E c \in Clients : Acquire(c) \/ Release(c)

Spec == Init /\ [][Next]_holders
=============================================================================
