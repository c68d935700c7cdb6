-------------------------- MODULE ExecutionLock --------------------------
(***************************************************************************)
(* What the ledger of the action agent promises, without its table, its    *)
(* connections or its calls: a key is executed under a lock.  An attempt   *)
(* that takes the lock of a key is the only one to hold it, it holds no    *)
(* other, and after a settled execution nobody takes it again.  An attempt *)
(* that dies with the lock keeps it: nothing in the code takes it back.    *)
(***************************************************************************)
CONSTANTS Attempt, Key, Nobody

VARIABLES
    owner,    \* who holds the lock of each key
    settled   \* keys whose execution is over

lockVars == <<owner, settled>>

LockInit ==
    /\ owner = [k \in Key |-> Nobody]
    /\ settled = {}

Acquire(a, k) ==
    /\ owner[k] = Nobody
    /\ k \notin settled
    /\ \A other \in Key : owner[other] # a
    /\ owner' = [owner EXCEPT ![k] = a]
    /\ UNCHANGED settled

\* The execution failed: the key is free for another attempt.
Release(a, k) ==
    /\ owner[k] = a
    /\ owner' = [owner EXCEPT ![k] = Nobody]
    /\ UNCHANGED settled

\* The execution is over.
Settle(a, k) ==
    /\ owner[k] = a
    /\ owner' = [owner EXCEPT ![k] = Nobody]
    /\ settled' = settled \cup {k}

LockNext ==
    \E a \in Attempt, k \in Key : Acquire(a, k) \/ Release(a, k) \/ Settle(a, k)

LockSpec == LockInit /\ [][LockNext]_lockVars
===========================================================================
