--------------------------- MODULE ActionLedger ---------------------------
(***************************************************************************)
(* The action agent's idempotency ledger                                   *)
(* (support_system/subagents/action_agent/graph.py, execute_tool, and the  *)
(* table approvals.executed_actions).                                      *)
(*                                                                         *)
(* An attempt is one invocation of execute_tool.  The root agent's         *)
(* ToolNode runs the tool calls of one message in parallel threads and a   *)
(* chat request may be retried, so attempts on one idempotency key overlap *)
(* and follow each other.  An attempt borrows a connection of the legacy   *)
(* pool, claims the row of its key, calls the MCP tool while it keeps the  *)
(* connection, and writes the outcome back.  The pool runs in autocommit,  *)
(* so every statement is a transaction of its own and a crash between two  *)
(* of them leaves the row as the first one wrote it.                       *)
(*                                                                         *)
(* The order system behind the MCP server is external: a call it received  *)
(* may be performed after its caller gave up, or never.                    *)
(***************************************************************************)
EXTENDS Naturals, FiniteSets

CONSTANTS
    Attempt,         \* invocations of execute_tool
    Turn,            \* the session_id:turn_id pairs
    ActionType,      \* names of MCP tools
    Params,          \* the remaining parameters (order, amount, ...)
    PoolSize         \* max_size of the legacy connection pool (5)

ASSUME ActionLedgerAssumption == PoolSize \in Nat \ {0}

Request == [turn : Turn, action : ActionType, params : Params]
Key     == [turn : Turn, action : ActionType]

NoRequest == [turn |-> "none"]

\* The idempotency key leaves the parameters out.
KeyOf(r) == [turn |-> r.turn, action |-> r.action]

VARIABLES
    ledger,     \* status column of approvals.executed_actions, by key
    pc,         \* where each attempt stands
    req,        \* the request each attempt carries
    call,       \* the attempt's MCP call, as the order system sees it
    performed,  \* attempts whose call the order system carried out
    result,     \* the ActionResult the caller gets
    leaked,     \* attempts that ended without giving their connection back
    unmarked    \* history: attempts that claimed a row and ended without
                \* their outcome being written to it

vars == <<ledger, pc, req, call, performed, result, leaked, unmarked>>

Status  == {"absent", "pending", "completed", "failed"}
Control == {"idle", "getconn", "claim", "call", "waiting", "mark_completed",
            "mark_failed", "done", "crashed"}
Call    == {"unsent", "sent", "dropped", "refused", "handled"}
Result  == {"none", "success", "failure", "skipped", "raised"}

TypeOK ==
    /\ ledger \in [Key -> Status]
    /\ pc \in [Attempt -> Control]
    /\ req \in [Attempt -> Request \cup {NoRequest}]
    /\ \A a \in Attempt : pc[a] # "idle" => req[a] \in Request
    /\ call \in [Attempt -> Call]
    /\ performed \subseteq Attempt
    /\ result \in [Attempt -> Result]
    /\ leaked \subseteq Attempt
    /\ unmarked \subseteq Attempt

---------------------------------------------------------------------------

\* The attempts that keep a connection out of the pool, and those that own the
\* row of their key.
Connected ==
    {a \in Attempt : pc[a] \in {"claim", "call", "waiting", "mark_completed", "mark_failed"}}
        \cup leaked
Executing(a) == pc[a] \in {"call", "waiting", "mark_completed", "mark_failed"}

Goto(a, l) == pc' = [pc EXCEPT ![a] = l]

\* The attempt leaves execute_tool.
Return(a, res) ==
    /\ Goto(a, "done")
    /\ result' = [result EXCEPT ![a] = res]

Row(a) == KeyOf(req[a])

SetRow(a, s) == ledger' = [ledger EXCEPT ![Row(a)] = s]

Init ==
    /\ ledger = [k \in Key |-> "absent"]
    /\ pc = [a \in Attempt |-> "idle"]
    /\ req = [a \in Attempt |-> NoRequest]
    /\ call = [a \in Attempt |-> "unsent"]
    /\ performed = {}
    /\ result = [a \in Attempt |-> "none"]
    /\ leaked = {}
    /\ unmarked = {}

\* The orchestrator (or a retry of its turn) invokes the action agent.
Invoke(a, r) ==
    /\ pc[a] = "idle"
    /\ req' = [req EXCEPT ![a] = r]
    /\ Goto(a, "getconn")
    /\ UNCHANGED <<ledger, call, performed, result, leaked, unmarked>>

\* pool.getconn() hands out a free connection ...
GetConn(a) ==
    /\ pc[a] = "getconn"
    /\ Cardinality(Connected) < PoolSize
    /\ Goto(a, "claim")
    /\ UNCHANGED <<ledger, req, call, performed, result, leaked, unmarked>>

\* ... or raises PoolTimeout when all of them stay busy.
PoolTimeout(a) ==
    /\ pc[a] = "getconn"
    /\ Cardinality(Connected) >= PoolSize
    /\ Return(a, "raised")
    /\ UNCHANGED <<ledger, req, call, performed, leaked, unmarked>>

\* Mutants: the WHERE clause is lost, or lets every finished row through.
ClaimableNoWhere(k) == ledger[k] # "completed"
ClaimableUnlessPending(k) == ledger[k] # "pending"

\* The INSERT ... ON CONFLICT DO UPDATE ... WHERE status = 'failed' returns
\* a row: the key was new, or its last attempt failed.
Claimable(k) == ledger[k] \in {"absent", "failed"}

Claim(a) ==
    /\ pc[a] = "claim"
    /\ Claimable(Row(a))
    /\ SetRow(a, "pending")
    /\ Goto(a, "call")
    /\ UNCHANGED <<req, call, performed, result, leaked, unmarked>>

\* It returns no row: reported as success, "already executed".
Skip(a) ==
    /\ pc[a] = "claim"
    /\ ~Claimable(Row(a))
    /\ Return(a, "skipped")
    /\ UNCHANGED <<ledger, req, call, performed, leaked, unmarked>>

\* The statement raises.  When the connection broke after the server had run it,
\* the row is claimed all the same.  On a broken connection the rollback of the
\* except block raises too, and putconn is never reached.
ClaimRaises(a) ==
    /\ pc[a] = "claim"
    /\ \/ UNCHANGED <<ledger, unmarked>>
       \/ /\ Claimable(Row(a))
          /\ SetRow(a, "pending")
          /\ unmarked' = unmarked \cup {a}
    /\ leaked' \in {leaked, leaked \cup {a}}
    /\ Return(a, "raised")
    /\ UNCHANGED <<req, call, performed>>

\* client.call: the request leaves for the MCP server.
CallTool(a) ==
    /\ pc[a] = "call"
    /\ Goto(a, "waiting")
    /\ call' = [call EXCEPT ![a] = "sent"]
    /\ UNCHANGED <<ledger, req, performed, result, leaked, unmarked>>

\* The connection to the MCP server breaks under a waiting call.
CallBroken(a) ==
    /\ pc[a] = "waiting"
    /\ call[a] = "dropped"
    /\ Goto(a, "mark_failed")
    /\ UNCHANGED <<ledger, req, call, performed, result, leaked, unmarked>>

\* Any other exception between the claim and the answer (a bad server path, a
\* subprocess that exits, an error of the session), whatever became of the call.
ToolRaises(a) ==
    /\ pc[a] \in {"call", "waiting"}
    /\ Goto(a, "mark_failed")
    /\ UNCHANGED <<ledger, req, call, performed, result, leaked, unmarked>>

\* Mutant: an answer that is no success is never looked at.
ToolAnswersSuccessOnly(a, success) ==
    /\ success
    /\ pc[a] = "waiting"
    /\ call[a] = "handled"
    /\ Goto(a, "mark_completed")
    /\ result' = [result EXCEPT ![a] = "success"]
    /\ UNCHANGED <<ledger, req, call, performed, leaked, unmarked>>

\* client.call returns a dictionary.  Its success is TRUE only for a call that
\* was handled; it is FALSE for a refused one and for an answer that is empty
\* or cannot be parsed.
ToolAnswers(a, success) ==
    /\ pc[a] = "waiting"
    /\ call[a] \in (IF success THEN {"handled"} ELSE {"handled", "refused"})
    /\ Goto(a, "mark_completed")
    /\ result' = [result EXCEPT ![a] = IF success THEN "success" ELSE "failure"]
    /\ UNCHANGED <<ledger, req, call, performed, leaked, unmarked>>

MarkCompleted(a) ==
    /\ pc[a] = "mark_completed"
    /\ SetRow(a, "completed")
    /\ Goto(a, "done")
    /\ UNCHANGED <<req, call, performed, result, leaked, unmarked>>

\* The final UPDATE raises, and so does execute_tool; a finally returns the
\* connection.
MarkCompletedRaises(a) ==
    /\ pc[a] = "mark_completed"
    /\ \/ /\ SetRow(a, "completed")
          /\ UNCHANGED unmarked
       \/ /\ unmarked' = unmarked \cup {a}
          /\ UNCHANGED ledger
    /\ Return(a, "raised")
    /\ UNCHANGED <<req, call, performed, leaked>>

\* The exception handler.  An error of its own UPDATE is swallowed, unless the
\* rollback that follows raises; a finally returns the connection.
MarkFailed(a) ==
    /\ pc[a] = "mark_failed"
    /\ \/ /\ SetRow(a, "failed")
          /\ UNCHANGED unmarked
       \/ /\ unmarked' = unmarked \cup {a}
          /\ UNCHANGED ledger
    /\ \E res \in {"failure", "raised"} : Return(a, res)
    /\ UNCHANGED <<req, call, performed, leaked>>

\* The process of the attempt dies (attempts may run in different API and
\* worker processes): its pool is gone, with what was leaked from it, and the row
\* stays as it is.
Crash(a) ==
    /\ pc[a] \notin {"idle", "done", "crashed"}
    /\ Goto(a, "crashed")
    /\ result' = [result EXCEPT ![a] = "raised"]
    /\ unmarked' = IF Executing(a) THEN unmarked \cup {a} ELSE unmarked
    /\ leaked' \in SUBSET leaked
    /\ UNCHANGED <<ledger, req, call, performed>>

---------------------------------------------------------------------------
(* The order system *)

\* The call is carried out.  A backend that recognises the injected
\* idempotency_key would leave out some of these; the ledger does not count on it.
Perform(a) ==
    /\ call[a] = "sent"
    /\ call' = [call EXCEPT ![a] = "handled"]
    /\ performed' = performed \cup {a}
    /\ UNCHANGED <<ledger, pc, req, result, leaked, unmarked>>

\* The call is refused and nothing changes.
Refuse(a) ==
    /\ call[a] = "sent"
    /\ call' = [call EXCEPT ![a] = "refused"]
    /\ UNCHANGED <<ledger, pc, req, performed, result, leaked, unmarked>>

\* The call is lost on its way.
Drop(a) ==
    /\ call[a] = "sent"
    /\ call' = [call EXCEPT ![a] = "dropped"]
    /\ UNCHANGED <<ledger, pc, req, performed, result, leaked, unmarked>>

---------------------------------------------------------------------------

\* What the thread of an attempt does by itself.
Execute(a) ==
    \/ GetConn(a) \/ PoolTimeout(a)
    \/ Claim(a) \/ Skip(a)
    \/ CallTool(a) \/ CallBroken(a)
    \/ ToolAnswers(a, TRUE) \/ ToolAnswers(a, FALSE)
    \/ MarkCompleted(a) \/ MarkFailed(a)

\* What the order system does with its call.
Backend(a) == Perform(a) \/ Refuse(a) \/ Drop(a)

\* What may go wrong at any time.
Fault(a) == ClaimRaises(a) \/ ToolRaises(a) \/ MarkCompletedRaises(a) \/ Crash(a)

Next ==
    \E a \in Attempt :
        \/ \E r \in Request : Invoke(a, r)
        \/ Execute(a)
        \/ Backend(a)
        \/ Fault(a)

Spec == Init /\ [][Next]_vars

\* Threads keep running, and the order system deals with every call it got.
\* client.call waits without a timeout: without Backend's fairness an attempt
\* could wait for ever.
FairSpec ==
    /\ Spec
    /\ \A a \in Attempt : WF_vars(Execute(a)) /\ WF_vars(Backend(a))

---------------------------------------------------------------------------
(* Properties *)

\* An attempt owns the row of its key from the moment it claimed it until its
\* outcome is written; if that never happens it owns it for ever.
Owns(a) == Executing(a) \/ a \in unmarked

OneOwnerPerKey ==
    \A a, b \in Attempt : Owns(a) /\ Owns(b) /\ Row(a) = Row(b) => a = b

PendingIffOwned ==
    \A k \in Key : ledger[k] = "pending" <=> \E a \in Attempt : Owns(a) /\ Row(a) = k

\* The row is a lock: it is pending exactly while an attempt owns it, and no
\* two attempts of one key ever own it together, whatever tool calls run in
\* parallel, fail, are retried or die (execute_tool's INSERT ... ON CONFLICT).
RowIsLock == OneOwnerPerKey /\ PendingIffOwned

\* Two calls of one key both reach the order system only when one of the two
\* attempts was told (or died before being told) that it failed: a caller that
\* got success is never followed or preceded by a second execution, unless
\* a failed attempt's call is among them.
SecondExecutionNeedsFailure ==
    \A a, b \in performed :
        a # b /\ Row(a) = Row(b) =>
            \E c \in {a, b} : pc[c] = "mark_failed"
                               \/ (pc[c] \in {"done", "crashed"} /\ result[c] \in {"failure", "raised"})

\* A success is durable: the row of a successful attempt is completed and stays
\* so, therefore no later attempt of the key can run the tool again.
SuccessIsDurable ==
    \A a \in Attempt :
        pc[a] = "done" /\ result[a] = "success" =>
            /\ ledger[Row(a)] = "completed"
            /\ \A b \in Attempt : Executing(b) => Row(b) # Row(a)

\* Once a key is completed no new call for it leaves for the order system and
\* the row never changes again.
CompletedIsFinal ==
    [][\A k \in Key : ledger[k] = "completed" =>
           /\ ledger'[k] = "completed"
           /\ \A a \in Attempt : call[a] = "unsent" /\ call'[a] = "sent" => Row(a) # k]_vars

\* Every invocation ends: the caller gets a result or an exception, or died.  What
\* a leaked connection takes from the pool for good shows as PoolTimeout.
EveryAttemptEnds ==
    \A a \in Attempt : pc[a] = "getconn" ~> pc[a] \in {"done", "crashed"}
===========================================================================
