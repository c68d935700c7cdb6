----------------------- MODULE ActionLedger_proofs -----------------------
(***************************************************************************)
(* Proofs about ActionLedger, for any attempts, turns, actions, parameters *)
(* and pool size: the row of a key is a lock, a success is durable, a      *)
(* completed key is final, a second execution follows a failure, and the   *)
(* ledger implements ExecutionLock.                                        *)
(***************************************************************************)
EXTENDS ActionLedgerRefinement, TLAPS

\* An attempt that left its row unmarked has ended, so it is not executing.
UnmarkedEnded == \A a \in unmarked : pc[a] \in {"done", "crashed"}

\* The lock invariant: pending rows and owners correspond one to one.
LockInv == UnmarkedEnded /\ OneOwnerPerKey /\ PendingIffOwned

\* The row of an attempt that carries a request is a row of the table.
LEMMA RowIsKey ==
    ASSUME TypeOK, NEW a \in Attempt, pc[a] # "idle"
    PROVE  Row(a) \in Key
BY DEF TypeOK, Row, KeyOf, Request, Key

LEMMA InitTypeOK == Init => TypeOK
BY DEF Init, TypeOK, Key, Status, Control, Call, Result

LEMMA NextTypeOK == TypeOK /\ [Next]_vars => TypeOK'
<1> SUFFICES ASSUME TypeOK, [Next]_vars PROVE TypeOK'
    OBVIOUS
<1> USE DEF Status, Control, Call, Result, Goto, Return, SetRow
<1>1. ASSUME NEW a \in Attempt, NEW r \in Request, Invoke(a, r) PROVE TypeOK'
    BY <1>1 DEF Invoke, TypeOK
<1>2. ASSUME NEW a \in Attempt, Execute(a) PROVE TypeOK'
    <2>1. pc[a] # "idle" /\ Row(a) \in Key
        BY <1>2, RowIsKey DEF Execute, GetConn, PoolTimeout, Claim, Skip, CallTool,
           CallBroken, ToolAnswers, MarkCompleted, MarkFailed
    <2>2. CASE GetConn(a) \/ PoolTimeout(a) \/ Skip(a)
        BY <2>1, <2>2 DEF GetConn, PoolTimeout, Skip, TypeOK
    <2>3. CASE Claim(a)
        BY <2>1, <2>3 DEF Claim, TypeOK
    <2>4. CASE CallTool(a) \/ CallBroken(a)
        BY <2>1, <2>4 DEF CallTool, CallBroken, TypeOK
    <2>5. CASE ToolAnswers(a, TRUE) \/ ToolAnswers(a, FALSE)
        BY <2>1, <2>5 DEF ToolAnswers, TypeOK
    <2>6. CASE MarkCompleted(a)
        BY <2>1, <2>6 DEF MarkCompleted, TypeOK
    <2>7. CASE MarkFailed(a)
        BY <2>1, <2>7 DEF MarkFailed, TypeOK
    <2> QED
        BY <1>2, <2>2, <2>3, <2>4, <2>5, <2>6, <2>7 DEF Execute
<1>3. ASSUME NEW a \in Attempt, Backend(a) PROVE TypeOK'
    BY <1>3 DEF Backend, Perform, Refuse, Drop, TypeOK
<1>4. ASSUME NEW a \in Attempt, Fault(a) PROVE TypeOK'
    <2>1. pc[a] # "idle" /\ Row(a) \in Key
        BY <1>4, RowIsKey DEF Fault, ClaimRaises, ToolRaises, MarkCompletedRaises, Crash
    <2>2. CASE ClaimRaises(a)
        BY <2>1, <2>2 DEF ClaimRaises, TypeOK
    <2>3. CASE ToolRaises(a)
        BY <2>1, <2>3 DEF ToolRaises, TypeOK
    <2>4. CASE MarkCompletedRaises(a)
        BY <2>1, <2>4 DEF MarkCompletedRaises, TypeOK
    <2>5. CASE Crash(a)
        BY <2>1, <2>5 DEF Crash, TypeOK
    <2> QED
        BY <1>4, <2>2, <2>3, <2>4, <2>5 DEF Fault
<1>5. ASSUME UNCHANGED vars PROVE TypeOK'
    BY <1>5 DEF vars, TypeOK
<1> QED
    BY <1>1, <1>2, <1>3, <1>4, <1>5 DEF Next

\* Every variable keeps its type: rows, requests and results are never lost or
\* mixed up on the way through execute_tool.
THEOREM TypeCorrect == Spec => []TypeOK
BY InitTypeOK, NextTypeOK, PTL DEF Spec

---------------------------------------------------------------------------

LEMMA InitLockInv == Init => LockInv
BY DEF Init, LockInv, UnmarkedEnded, OneOwnerPerKey, PendingIffOwned, Owns,
       Executing, Key

\* The three things a step can do to the rows and their owners: nothing, ...
Keeps ==
    /\ ledger' = ledger
    /\ \A b \in Attempt : (Owns(b)' <=> Owns(b)) /\ (Owns(b) => req'[b] = req[b])

\* ... let an attempt take a row that is absent or failed, ...
Takes(a) ==
    /\ Row(a) \in Key
    /\ ~Owns(a)
    /\ Claimable(Row(a))
    /\ SetRow(a, "pending")
    /\ req' = req
    /\ \A b \in Attempt : Owns(b)' <=> Owns(b) \/ b = a

\* ... or let it write its outcome and give the row up.
Settles(a, s) ==
    /\ Row(a) \in Key
    /\ Owns(a)
    /\ SetRow(a, s)
    /\ req' = req
    /\ \A b \in Attempt : Owns(b)' <=> Owns(b) /\ b # a

KeepsTakesOrSettles ==
    \/ Keeps
    \/ \E a \in Attempt : Takes(a) \/ \E s \in {"completed", "failed"} : Settles(a, s)

LEMMA StepKinds ==
    TypeOK /\ UnmarkedEnded /\ [Next]_vars => UnmarkedEnded' /\ KeepsTakesOrSettles
<1> SUFFICES ASSUME TypeOK, UnmarkedEnded, [Next]_vars
             PROVE  UnmarkedEnded' /\ KeepsTakesOrSettles
    OBVIOUS
<1> USE DEF Goto, Return, UnmarkedEnded, TypeOK, Owns, Executing
<1>1. ASSUME NEW a \in Attempt, NEW r \in Request, Invoke(a, r)
      PROVE  UnmarkedEnded' /\ Keeps
    BY <1>1 DEF Invoke, Keeps
<1>2. ASSUME NEW a \in Attempt, Claim(a)
      PROVE  UnmarkedEnded' /\ Takes(a)
    <2>1. Row(a) \in Key
        BY <1>2, RowIsKey DEF Claim
    <2> QED
        BY <1>2, <2>1 DEF Claim, Takes
<1>3. ASSUME NEW a \in Attempt, ClaimRaises(a)
      PROVE  UnmarkedEnded' /\ (Keeps \/ Takes(a))
    <2>1. Row(a) \in Key
        BY <1>3, RowIsKey DEF ClaimRaises
    <2>2. CASE UNCHANGED <<ledger, unmarked>>
        BY <1>3, <2>2 DEF ClaimRaises, Keeps
    <2>3. CASE Claimable(Row(a)) /\ SetRow(a, "pending") /\ unmarked' = unmarked \cup {a}
        BY <1>3, <2>1, <2>3 DEF ClaimRaises, Takes
    <2> QED
        BY <1>3, <2>2, <2>3 DEF ClaimRaises
<1>4. ASSUME NEW a \in Attempt, MarkCompleted(a) \/ MarkCompletedRaises(a) \/ MarkFailed(a)
      PROVE  UnmarkedEnded' /\ (Keeps \/ \E s \in {"completed", "failed"} : Settles(a, s))
    <2>1. Row(a) \in Key /\ Owns(a) /\ a \notin unmarked /\ req' = req
        BY <1>4, RowIsKey DEF MarkCompleted, MarkCompletedRaises, MarkFailed
    <2>2. CASE unmarked' = unmarked \cup {a} /\ ledger' = ledger
        BY <1>4, <2>1, <2>2 DEF MarkCompleted, MarkCompletedRaises, MarkFailed, Keeps
    <2>3. ASSUME unmarked' = unmarked, NEW s \in {"completed", "failed"}, SetRow(a, s)
          PROVE  UnmarkedEnded' /\ Settles(a, s)
        BY <1>4, <2>1, <2>3 DEF MarkCompleted, MarkCompletedRaises, MarkFailed, Settles
    <2> QED
        BY <1>4, <2>2, <2>3 DEF MarkCompleted, MarkCompletedRaises, MarkFailed
<1>5. ASSUME NEW a \in Attempt, Crash(a)
      PROVE  UnmarkedEnded' /\ Keeps
    BY <1>5 DEF Crash, Keeps
<1>6. ASSUME NEW a \in Attempt,
             \/ GetConn(a) \/ PoolTimeout(a) \/ Skip(a)
             \/ CallTool(a) \/ CallBroken(a) \/ ToolRaises(a)
             \/ ToolAnswers(a, TRUE) \/ ToolAnswers(a, FALSE)
      PROVE  UnmarkedEnded' /\ Keeps
    BY <1>6 DEF GetConn, PoolTimeout, Skip, CallTool, CallBroken, ToolRaises, ToolAnswers, Keeps
<1>7. ASSUME (\E a \in Attempt : Backend(a)) \/ UNCHANGED vars
      PROVE  UnmarkedEnded' /\ Keeps
    BY <1>7 DEF Backend, Perform, Refuse, Drop, vars, Keeps
<1> QED
    BY <1>1, <1>2, <1>3, <1>4, <1>5, <1>6, <1>7 DEF Next, Execute, Fault, KeepsTakesOrSettles

LEMMA NextLockInv == TypeOK /\ LockInv /\ [Next]_vars => LockInv'
<1> SUFFICES ASSUME TypeOK, LockInv, [Next]_vars PROVE LockInv'
    OBVIOUS
<1> USE DEF LockInv, OneOwnerPerKey, PendingIffOwned
<1>1. UnmarkedEnded' /\ KeepsTakesOrSettles
    BY StepKinds
<1>2. CASE Keeps
    BY <1>1, <1>2 DEF Keeps, Row
<1>3. ASSUME NEW a \in Attempt, Takes(a) PROVE LockInv'
    <2>1. \A b \in Attempt : Row(b)' = Row(b)
        BY <1>3 DEF Takes, Row
    <2>2. \A k \in Key : ledger'[k] = IF k = Row(a) THEN "pending" ELSE ledger[k]
        BY <1>3 DEF Takes, SetRow, TypeOK
    <2>3. \A b \in Attempt : Owns(b) => Row(b) # Row(a)
        BY <1>3 DEF Takes, Claimable
    <2> QED
        BY <1>1, <1>3, <2>1, <2>2, <2>3 DEF Takes
<1>4. ASSUME NEW a \in Attempt, NEW s \in {"completed", "failed"}, Settles(a, s) PROVE LockInv'
    <2>1. \A b \in Attempt : Row(b)' = Row(b)
        BY <1>4 DEF Settles, Row
    <2>2. \A k \in Key : ledger'[k] = IF k = Row(a) THEN s ELSE ledger[k]
        BY <1>4 DEF Settles, SetRow, TypeOK
    <2> QED
        BY <1>1, <1>4, <2>1, <2>2 DEF Settles
<1> QED
    BY <1>1, <1>2, <1>3, <1>4 DEF KeepsTakesOrSettles

\* The row of a key is owned by at most one attempt at a time (executing it, or
\* gone without having written its outcome), however attempts overlap, fail and
\* die; it is pending exactly then.
THEOREM RowStaysLock == Spec => []RowIsLock
<1>1. Init => TypeOK /\ LockInv
    BY InitTypeOK, InitLockInv
<1>2. TypeOK /\ LockInv /\ [Next]_vars => TypeOK' /\ LockInv'
    BY NextTypeOK, NextLockInv
<1>3. TypeOK /\ LockInv => RowIsLock
    BY DEF LockInv, RowIsLock
<1> QED
    BY <1>1, <1>2, <1>3, PTL DEF Spec

---------------------------------------------------------------------------

\* No step changes a completed row or sends a call for it: whoever writes to the
\* table owns the row he writes to, or finds it absent or failed.
LEMMA CompletedStays ==
    ASSUME TypeOK, LockInv, [Next]_vars, NEW k \in Key, ledger[k] = "completed"
    PROVE  /\ ledger'[k] = "completed"
           /\ \A a \in Attempt : call[a] = "unsent" /\ call'[a] = "sent" => Row(a) # k
<1> USE DEF Goto, Return, SetRow
<1>1. \A a \in Attempt : Owns(a) => Row(a) # k
    BY DEF LockInv, PendingIffOwned
<1>2. ASSUME NEW a \in Attempt, \/ Claim(a) \/ ClaimRaises(a) \/ MarkCompleted(a)
                               \/ MarkCompletedRaises(a) \/ MarkFailed(a)
      PROVE  ledger'[k] = "completed" /\ call' = call
    <2>1. Row(a) \in Key
        BY <1>2, RowIsKey DEF Claim, ClaimRaises, MarkCompleted, MarkCompletedRaises, MarkFailed
    <2>2. CASE Claim(a) \/ ClaimRaises(a)
        BY <2>1, <2>2 DEF Claim, ClaimRaises, Claimable, TypeOK
    <2>3. CASE MarkCompleted(a) \/ MarkCompletedRaises(a) \/ MarkFailed(a)
        <3>1. Row(a) # k
            BY <1>1, <2>3 DEF MarkCompleted, MarkCompletedRaises, MarkFailed, Owns, Executing
        <3> QED
            BY <2>1, <2>3, <3>1 DEF MarkCompleted, MarkCompletedRaises, MarkFailed, TypeOK
    <2> QED
        BY <1>2, <2>2, <2>3
<1>3. ASSUME NEW a \in Attempt, CallTool(a)
      PROVE  /\ ledger' = ledger
             /\ \A b \in Attempt : call[b] = "unsent" /\ call'[b] = "sent" => Row(b) # k
    BY <1>1, <1>3 DEF CallTool, Owns, Executing, TypeOK
<1>4. ASSUME NEW a \in Attempt,
             \/ \E r \in Request : Invoke(a, r)
             \/ GetConn(a) \/ PoolTimeout(a) \/ Skip(a) \/ CallBroken(a) \/ ToolRaises(a)
             \/ ToolAnswers(a, TRUE) \/ ToolAnswers(a, FALSE) \/ Crash(a)
      PROVE  ledger' = ledger /\ call' = call
    BY <1>4 DEF Invoke, GetConn, PoolTimeout, Skip, CallBroken, ToolRaises, ToolAnswers, Crash
<1>5. ASSUME NEW a \in Attempt, Backend(a)
      PROVE  /\ ledger' = ledger
             /\ \A b \in Attempt : call'[b] = "sent" => call[b] = "sent"
    BY <1>5 DEF Backend, Perform, Refuse, Drop, TypeOK
<1>6. CASE UNCHANGED vars
    BY <1>6 DEF vars
<1> QED
    BY <1>2, <1>3, <1>4, <1>5, <1>6 DEF Next, Execute, Fault

\* Once an action is recorded as completed, its row never changes and no call of
\* its key leaves for the order system again.
THEOREM CompletedStaysFinal == Spec => CompletedIsFinal
<1>1. TypeOK /\ LockInv /\ [Next]_vars =>
          [\A k \in Key : ledger[k] = "completed" =>
               /\ ledger'[k] = "completed"
               /\ \A a \in Attempt : call[a] = "unsent" /\ call'[a] = "sent" => Row(a) # k]_vars
    BY CompletedStays
<1>2. Init => TypeOK /\ LockInv
    BY InitTypeOK, InitLockInv
<1>3. TypeOK /\ LockInv /\ [Next]_vars => TypeOK' /\ LockInv'
    BY NextTypeOK, NextLockInv
<1> QED
    BY <1>1, <1>2, <1>3, PTL DEF Spec, CompletedIsFinal

---------------------------------------------------------------------------

\* What an attempt's result and its call say about where it stands.
ResultInv ==
    \A a \in Attempt :
        /\ result[a] = "success" => pc[a] \in {"mark_completed", "done"}
        /\ pc[a] = "mark_completed" => result[a] \in {"success", "failure"}
        /\ pc[a] = "crashed" => result[a] = "raised"
        /\ call[a] # "unsent" =>
              /\ pc[a] \in {"waiting", "mark_completed", "mark_failed", "done", "crashed"}
              /\ pc[a] = "done" => result[a] \in {"success", "failure", "raised"}
        /\ a \in performed => call[a] # "unsent"

LEMMA InitResultInv == Init => ResultInv
BY DEF Init, ResultInv

LEMMA NextResultInv == TypeOK /\ ResultInv /\ [Next]_vars => ResultInv'
<1> SUFFICES ASSUME TypeOK, ResultInv, [Next]_vars PROVE ResultInv'
    OBVIOUS
<1> USE DEF Goto, Return, ResultInv, TypeOK
<1>1. ASSUME NEW a \in Attempt, NEW r \in Request, Invoke(a, r) PROVE ResultInv'
    BY <1>1 DEF Invoke
<1>2. ASSUME NEW a \in Attempt, GetConn(a) \/ PoolTimeout(a) \/ Skip(a) PROVE ResultInv'
    BY <1>2 DEF GetConn, PoolTimeout, Skip
<1>3. ASSUME NEW a \in Attempt, Claim(a) \/ ClaimRaises(a) PROVE ResultInv'
    BY <1>3 DEF Claim, ClaimRaises
<1>4. ASSUME NEW a \in Attempt, CallTool(a) \/ CallBroken(a) \/ ToolRaises(a) PROVE ResultInv'
    BY <1>4 DEF CallTool, CallBroken, ToolRaises
<1>5. ASSUME NEW a \in Attempt, ToolAnswers(a, TRUE) \/ ToolAnswers(a, FALSE) PROVE ResultInv'
    BY <1>5 DEF ToolAnswers
<1>6. ASSUME NEW a \in Attempt,
             MarkCompleted(a) \/ MarkCompletedRaises(a) \/ MarkFailed(a) PROVE ResultInv'
    BY <1>6 DEF MarkCompleted, MarkCompletedRaises, MarkFailed
<1>7. ASSUME NEW a \in Attempt, Crash(a) PROVE ResultInv'
    BY <1>7 DEF Crash
<1>8. ASSUME NEW a \in Attempt, Backend(a) PROVE ResultInv'
    BY <1>8 DEF Backend, Perform, Refuse, Drop
<1>9. CASE UNCHANGED vars
    BY <1>9 DEF vars
<1> QED
    BY <1>1, <1>2, <1>3, <1>4, <1>5, <1>6, <1>7, <1>8, <1>9 DEF Next, Execute, Fault

\* An attempt that was told success has completed its row for good.
LEMMA NextSuccessIsDurable ==
    TypeOK /\ LockInv /\ ResultInv /\ SuccessIsDurable /\ [Next]_vars => SuccessIsDurable'
<1> SUFFICES ASSUME TypeOK, LockInv, ResultInv, SuccessIsDurable, [Next]_vars,
                    NEW a \in Attempt, pc'[a] = "done", result'[a] = "success"
             PROVE  /\ ledger'[Row(a)'] = "completed"
                    /\ \A b \in Attempt : Executing(b)' => Row(b)' # Row(a)'
    BY DEF SuccessIsDurable
<1>1. TypeOK' /\ LockInv'
    BY NextTypeOK, NextLockInv
<1>2. Row(a)' \in Key
    BY <1>1 DEF TypeOK, Row, KeyOf, Request, Key
<1>3. ledger'[Row(a)'] = "completed"
    <2>1. CASE pc[a] = "done" /\ result[a] = "success"
        <3>1. req'[a] = req[a]
            BY <2>1 DEF Next, Execute, Fault, Backend, Invoke, GetConn, PoolTimeout, Claim,
               Skip, ClaimRaises, CallTool, CallBroken, ToolRaises, ToolAnswers,
               MarkCompleted, MarkCompletedRaises, MarkFailed, Crash, Perform, Refuse,
               Drop, TypeOK, vars
        <3>2. Row(a)' = Row(a) /\ ledger[Row(a)] = "completed"
            BY <2>1, <3>1 DEF Row, SuccessIsDurable
        <3> QED
            BY <1>2, <3>2, CompletedStays
    <2>2. CASE ~(pc[a] = "done" /\ result[a] = "success")
        <3>1. MarkCompleted(a)
            BY <2>2 DEF Next, Execute, Fault, Backend, Invoke, GetConn, PoolTimeout, Claim,
               Skip, ClaimRaises, CallTool, CallBroken, ToolRaises, ToolAnswers,
               MarkCompleted, MarkCompletedRaises, MarkFailed, Crash, Perform, Refuse,
               Drop, TypeOK, vars, Goto, Return, ResultInv
        <3> QED
            BY <1>2, <3>1 DEF MarkCompleted, SetRow, Row, TypeOK
    <2> QED
        BY <2>1, <2>2
<1>4. \A b \in Attempt : Executing(b)' => Row(b)' # Row(a)'
    BY <1>1, <1>2, <1>3 DEF LockInv, PendingIffOwned, Owns
<1> QED
    BY <1>3, <1>4

\* The conjunction the remaining safety properties rest on.
SafetyInv == TypeOK /\ LockInv /\ ResultInv /\ SuccessIsDurable

LEMMA SafetyInvariant == Spec => []SafetyInv
<1>1. Init => SafetyInv
    BY InitTypeOK, InitLockInv, InitResultInv DEF SafetyInv, SuccessIsDurable, Init
<1>2. SafetyInv /\ [Next]_vars => SafetyInv'
    BY NextTypeOK, NextLockInv, NextResultInv, NextSuccessIsDurable DEF SafetyInv
<1> QED
    BY <1>1, <1>2, PTL DEF Spec

\* A caller who was told that his action succeeded can rely on it: the row of
\* its key is completed and no attempt executes the key again.
THEOREM SuccessStaysDurable == Spec => []SuccessIsDurable
<1>1. SafetyInv => SuccessIsDurable
    BY DEF SafetyInv
<1> QED
    BY <1>1, SafetyInvariant, PTL

---------------------------------------------------------------------------

\* The attempt ended without success, or is about to.
FailedEnd(a) ==
    \/ pc[a] = "mark_failed"
    \/ pc[a] \in {"done", "crashed"} /\ result[a] \in {"failure", "raised"}

\* Of two attempts of a key that both sent their call, one failed.
OneFailed ==
    \A a, b \in Attempt :
        a # b /\ call[a] # "unsent" /\ call[b] # "unsent" /\ Row(a) = Row(b) =>
            FailedEnd(a) \/ FailedEnd(b)

\* When an attempt sends its call, every earlier call of its key has failed:
\* its owner has given the row up and was not successful.
LEMMA EarlierCallsFailed ==
    ASSUME SafetyInv, NEW a \in Attempt, CallTool(a),
           NEW b \in Attempt, b # a, call[b] # "unsent", Row(b) = Row(a)
    PROVE  FailedEnd(b)
<1>1. Executing(a) /\ Owns(a)
    BY DEF CallTool, Executing, Owns
<1>2. ~Executing(b)
    BY <1>1 DEF SafetyInv, LockInv, OneOwnerPerKey, Owns
<1>3. pc[b] \in {"done", "crashed"}
    BY <1>2 DEF SafetyInv, ResultInv, Executing
<1>4. ~(pc[b] = "done" /\ result[b] = "success")
    BY <1>1 DEF SafetyInv, SuccessIsDurable
<1> QED
    BY <1>3, <1>4 DEF SafetyInv, ResultInv, FailedEnd

LEMMA NextOneFailed == SafetyInv /\ OneFailed /\ [Next]_vars => OneFailed'
<1> SUFFICES ASSUME SafetyInv, OneFailed, [Next]_vars,
                    NEW a \in Attempt, NEW b \in Attempt, a # b,
                    call'[a] # "unsent", call'[b] # "unsent", Row(a)' = Row(b)'
             PROVE  FailedEnd(a)' \/ FailedEnd(b)'
    BY DEF OneFailed
<1> USE DEF Goto, Return, TypeOK
<1>1. ASSUME NEW c \in Attempt, call'[c] # "unsent"
      PROVE  req'[c] = req[c] /\ (FailedEnd(c) => FailedEnd(c)')
    BY <1>1 DEF Next, Execute, Fault, Backend, Invoke, GetConn, PoolTimeout, Claim,
       Skip, ClaimRaises, CallTool, CallBroken, ToolRaises, ToolAnswers,
       MarkCompleted, MarkCompletedRaises, MarkFailed, Crash, Perform, Refuse,
       Drop, vars, SafetyInv, ResultInv, FailedEnd
<1>2. Row(a) = Row(b)
    BY <1>1 DEF Row
<1>3. CASE call[a] # "unsent" /\ call[b] # "unsent"
    BY <1>1, <1>2, <1>3 DEF OneFailed
<1>4. ASSUME NEW c \in Attempt, call[c] = "unsent", call'[c] # "unsent" PROVE CallTool(c)
    BY <1>4 DEF Next, Execute, Fault, Backend, Invoke, GetConn, PoolTimeout, Claim,
       Skip, ClaimRaises, CallTool, CallBroken, ToolRaises, ToolAnswers,
       MarkCompleted, MarkCompletedRaises, MarkFailed, Crash, Perform, Refuse,
       Drop, vars, SafetyInv
<1>5. ASSUME NEW c \in Attempt, NEW d \in Attempt, c # d, call[c] = "unsent",
             call'[c] # "unsent", call'[d] # "unsent", Row(c) = Row(d)
      PROVE  FailedEnd(d)'
    <2>1. CallTool(c)
        BY <1>4, <1>5
    <2>2. call[d] # "unsent"
        BY <1>5, <2>1 DEF CallTool, SafetyInv
    <2>3. FailedEnd(d)
        BY <1>5, <2>1, <2>2, EarlierCallsFailed
    <2> QED
        BY <1>1, <1>5, <2>3
<1> QED
    BY <1>2, <1>3, <1>5

\* Two calls of one key reach the order system only if one of their attempts
\* failed: nobody who got a success shares it with a second execution that
\* also succeeded, and a retry runs the tool again only after a failure.
THEOREM SecondExecutionFollowsFailure == Spec => []SecondExecutionNeedsFailure
<1>1. Init => OneFailed
    BY DEF Init, OneFailed
<1>2. SafetyInv /\ OneFailed => SecondExecutionNeedsFailure
    BY DEF SafetyInv, TypeOK, ResultInv, OneFailed, FailedEnd, SecondExecutionNeedsFailure
<1> QED
    BY <1>1, <1>2, NextOneFailed, SafetyInvariant, PTL DEF Spec

---------------------------------------------------------------------------
(* The ledger implements the lock *)

\* A key has an owner or nobody holds it.
OwnerIsRight ==
    \A k \in Key :
        \/ Owner(k) = Nobody /\ ~\E a \in Attempt : Owns(a) /\ Row(a) = k
        \/ Owner(k) \in Attempt /\ Owns(Owner(k)) /\ Row(Owner(k)) = k

LEMMA OwnerExists == OwnerIsRight
BY DEF OwnerIsRight, Owner

LEMMA NextOwnerExists == OwnerIsRight'
BY DEF OwnerIsRight, Owner

\* The lock's owner of a key is the only attempt that owns its row.
LEMMA OwnerIsOnly ==
    ASSUME LockInv, NEW k \in Key, NEW a \in Attempt
    PROVE  Owner(k) = a <=> Owns(a) /\ Row(a) = k
BY OwnerExists, NobodyIsNoAttempt DEF OwnerIsRight, LockInv, OneOwnerPerKey

LEMMA NextOwnerIsOnly ==
    ASSUME LockInv', NEW k \in Key, NEW a \in Attempt
    PROVE  Owner(k)' = a <=> Owns(a)' /\ Row(a)' = k
BY NextOwnerExists, NobodyIsNoAttempt DEF OwnerIsRight, LockInv, OneOwnerPerKey

LEMMA InitImplements == Init => Lock!LockInit
<1> SUFFICES ASSUME Init PROVE Lock!LockInit
    OBVIOUS
<1>1. \A k \in Key : Owner(k) = Nobody
    BY DEF Init, Owner, Owns, Executing
<1>2. Completed = {}
    BY DEF Init, Completed
<1> QED
    BY <1>1, <1>2 DEF Lock!LockInit

LEMMA StepImplements ==
    TypeOK /\ LockInv /\ [Next]_vars => [Lock!LockNext]_(Lock!lockVars)
<1> SUFFICES ASSUME TypeOK, LockInv, [Next]_vars PROVE [Lock!LockNext]_(Lock!lockVars)
    OBVIOUS
<1>1. KeepsTakesOrSettles /\ LockInv'
    BY StepKinds, NextLockInv DEF LockInv
<1>2. CASE Keeps
    <2>1. \A k \in Key : Owner(k)' = Owner(k)
        <3> SUFFICES ASSUME NEW k \in Key PROVE Owner(k)' = Owner(k)
            OBVIOUS
        <3>1. \A a \in Attempt : Owns(a)' /\ Row(a)' = k <=> Owns(a) /\ Row(a) = k
            BY <1>2 DEF Keeps, Row
        <3>2. \A a \in Attempt : Owner(k)' = a <=> Owner(k) = a
            BY <1>1, <3>1, OwnerIsOnly, NextOwnerIsOnly
        <3> QED
            BY <3>2, OwnerExists, NextOwnerExists DEF OwnerIsRight
    <2>2. Completed' = Completed
        BY <1>2 DEF Keeps, Completed
    <2> QED
        BY <2>1, <2>2 DEF Lock!lockVars
<1>3. ASSUME NEW a \in Attempt, Takes(a) PROVE Lock!Acquire(a, Row(a))
    <2>1. Row(a) \in Key
        BY <1>3 DEF Takes
    <2>2. Owner(Row(a)) = Nobody /\ Row(a) \notin Completed
        BY <1>3, <2>1, OwnerExists
        DEF Takes, Claimable, OwnerIsRight, LockInv, PendingIffOwned, Completed
    <2>3. \A k \in Key : Owner(k) # a
        BY <1>3, OwnerIsOnly DEF Takes
    <2>4. \A k \in Key : Owner(k)' = IF k = Row(a) THEN a ELSE Owner(k)
        <3> SUFFICES ASSUME NEW k \in Key
                     PROVE  Owner(k)' = IF k = Row(a) THEN a ELSE Owner(k)
            OBVIOUS
        <3>1. \A b \in Attempt : Owns(b)' /\ Row(b)' = k <=>
                  (Owns(b) /\ Row(b) = k) \/ (b = a /\ Row(a) = k)
            BY <1>3 DEF Takes, Row
        <3>2. \A b \in Attempt : Owner(k)' = b <=> Owner(k) = b \/ (b = a /\ Row(a) = k)
            BY <1>1, <3>1, OwnerIsOnly, NextOwnerIsOnly
        <3> QED
            BY <3>2, OwnerExists, NextOwnerExists DEF OwnerIsRight
    <2>5. Completed' = Completed
        BY <1>3, <2>1 DEF Takes, SetRow, Completed, Claimable, TypeOK
    <2> QED
        BY <2>1, <2>2, <2>3, <2>4, <2>5 DEF Lock!Acquire
<1>4. ASSUME NEW a \in Attempt, NEW s \in {"completed", "failed"}, Settles(a, s)
      PROVE  Lock!Release(a, Row(a)) \/ Lock!Settle(a, Row(a))
    <2>1. Row(a) \in Key /\ Owner(Row(a)) = a
        BY <1>4, OwnerIsOnly DEF Settles
    <2>2. \A k \in Key : Owner(k)' = IF k = Row(a) THEN Nobody ELSE Owner(k)
        <3> SUFFICES ASSUME NEW k \in Key
                     PROVE  Owner(k)' = IF k = Row(a) THEN Nobody ELSE Owner(k)
            OBVIOUS
        <3>1. \A b \in Attempt : Owns(b)' /\ Row(b)' = k <=> Owns(b) /\ Row(b) = k /\ b # a
            BY <1>4 DEF Settles, Row
        <3>2. \A b \in Attempt : Owner(k)' = b <=> Owner(k) = b /\ b # a
            BY <1>1, <3>1, OwnerIsOnly, NextOwnerIsOnly
        <3>3. k # Row(a) => Owner(k) # a
            BY OwnerIsOnly
        <3> QED
            BY <2>1, <3>2, <3>3, OwnerExists, NextOwnerExists DEF OwnerIsRight
    <2>3. \A k \in Key : ledger'[k] = IF k = Row(a) THEN s ELSE ledger[k]
        BY <1>4 DEF Settles, SetRow, TypeOK
    <2>4. ledger[Row(a)] = "pending"
        BY <1>4, <2>1 DEF Settles, LockInv, PendingIffOwned
    <2>5. CASE s = "failed"
        <3>1. Completed' = Completed
            BY <2>3, <2>4, <2>5 DEF Completed
        <3> QED
            BY <2>1, <2>2, <3>1 DEF Lock!Release
    <2>6. CASE s = "completed"
        <3>1. Completed' = Completed \cup {Row(a)}
            BY <2>1, <2>3, <2>6 DEF Completed
        <3> QED
            BY <2>1, <2>2, <3>1 DEF Lock!Settle
    <2> QED
        BY <2>5, <2>6
<1> QED
    BY <1>1, <1>2, <1>3, <1>4 DEF KeepsTakesOrSettles, Takes, Settles, Lock!LockNext

\* execute_tool, its table, its connection pool, the faults and the order system
\* together behave as a lock per key with settled keys.
THEOREM LedgerImplementsLock == Spec => ImplementsLock
<1>1. Init => TypeOK /\ LockInv
    BY InitTypeOK, InitLockInv
<1>2. TypeOK /\ LockInv /\ [Next]_vars => TypeOK' /\ LockInv'
    BY NextTypeOK, NextLockInv
<1> QED
    BY <1>1, <1>2, InitImplements, StepImplements, PTL DEF Spec, ImplementsLock, Lock!LockSpec
===========================================================================
