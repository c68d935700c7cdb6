---------------------- MODULE ActionLedgerRefinement ----------------------
(***************************************************************************)
(* ActionLedger implements ExecutionLock: the attempt that owns the row of *)
(* a key holds its lock, and the completed keys are the settled ones.      *)
(***************************************************************************)
EXTENDS ActionLedger

CONSTANT Nobody

ASSUME NobodyIsNoAttempt == Nobody \notin Attempt

Owner(k) ==
    IF \E a \in Attempt : Owns(a) /\ Row(a) = k
    THEN CHOOSE a \in Attempt : Owns(a) /\ Row(a) = k
    ELSE Nobody

Completed == {k \in Key : ledger[k] = "completed"}

Lock == INSTANCE ExecutionLock WITH
    owner <- [k \in Key |-> Owner(k)], settled <- Completed

\* Every step of execute_tool, of the order system and of a fault takes one
\* lock, frees it, settles it, or leaves all of them alone.
ImplementsLock == Lock!LockSpec
===========================================================================
