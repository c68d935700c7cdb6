# Agent-I in TLA+

Agent-I is a multi-agent customer-support backend. Customers chat over HTTP or
WebSocket; an orchestrator graph (LangGraph) answers with the help of a
retrieval, an action and an escalation agent; risky actions wait for a human;
operators manage documents, members, integrations and approvals through a REST
API. Postgres holds the rows, Redis the idempotency keys and the ARQ job queue.

This directory holds TLA+ models of its chat, action, approval, ingestion and
retrieval paths and of the services behind its REST API, the TLC configurations
that check them on small instances, and TLAPS proofs of the results that matter
most. Paths below are relative to the repository's root (`backend/...`,
`support_system/...`).

## 1. Inventory

| Component | State it keeps | Operations | What is hard | What makes it correct |
|---|---|---|---|---|
| Action agent and ledger (`support_system/subagents/action_agent`) | rows of `approvals.executed_actions`, a pool of 5 connections | check approval, claim the row, call the MCP tool, write the outcome | parallel tool calls, retries, crashes between two autocommitted statements, a call whose answer is lost | one executor per key; a second execution only after a failure; a completed key stays completed |
| Chat turns (`backend/api/routers/chat.py`, `ws_chat.py`, `backend/services/chat_service.py`) | `conversation_turns`, the thread's checkpoint, Redis keys, the socket registry | post a message, stream a turn, connect, disconnect | unlocked count before insert, long graph run between the two inserts, retried requests, cancelled requests | contiguous paired transcript, one worker and one answer per keyed message |
| Approvals (`backend/services/approval_service.py`, `backend/worker.py`) | `approval_requests`, the frozen graph, ARQ jobs | approve, reject, resume | read-check-write without a lock, commit and enqueue as two steps, dying workers | a decision is final, a reported decision is queued, the graph resumes |
| Escalation agent (`support_system/subagents/escalation_agent`) | the row it inserts, its checkpoint | persist, notify (5 tries), interrupt, resolve | a crash between these | a notified row exists; the graph waits for the decision |
| Knowledge base (`backend/api/routers/knowledge.py`, `backend/services/knowledge_service.py`) | document row, chunk rows, vectors, file, ARQ job | upload, retry, delete, process | four stores without a common transaction, two jobs on one document | ready means searchable; deleted means gone |
| Vector client (`support_system/rag`) | PGVector collection, `rag.documents` | upsert, search, fuse ranks, delete | fusing two rankings | a document in both rankings is not ranked below where either puts it alone |
| Orchestrator graph (`support_system/root_agent`) | message history, risk level, subagent results, customer facts | load, prune, orchestrate, guard, execute, synthesise, save | pruning must not cut a tool answer from its call; risky calls must not slip past the guardrail; facts are read, merged and written around an LLM call | every tool answer has its call; no risky action runs unapproved |
| Guardrail policy (`support_system/guardrails`) | none | risk of an action | thresholds | risk grows with the amount |
| Retrieval agent (`support_system/subagents/retrieval_agent`) | one call's state | rewrite, search twice, fuse, rerank, answer | ranks, ties, a threshold on one document, an async node in a sync call | agreement of the searches is kept; the verdict is about all that was found |
| Memory and checkpointer (`support_system/memory`) | Postgres checkpoints, facts | get, put | conversations of a customer read and put the same item | a fact goes only by an overlap or a merge |
| Workspaces and members (`backend/services/workspace_service.py`, `member_service.py`) | `workspaces`, `workspace_members`, documents and their files | create, invite, change role, remove, upload, schedule and cancel a deletion | requests write what they loaded earlier | a workspace keeps one owner |
| Deletion scheduler (`backend/scheduler.py`, `account_service.py`) | `deletion_scheduled_at` of workspaces and users | hourly hard delete | deletion against live requests and late cancels, failures between items | what is cancelled in time stays, what is due goes, files go with rows |
| Sessions (`backend/services/auth_service.py`, `backend/api/routers/auth.py`) | `users`, `user_sessions`, the browser's cookie | register, login, refresh, logout, reset | two uses of one token, lost responses, sign-out against refresh | one session per login; a token is used once; signed out is out |
| Integrations (`backend/services/settings_service.py`) | integration rows | create, update, delete, verify | verification against an edit, two primaries | one primary per domain; active means checked |
| Providers and agents (`provider_service.py`, `agent_service.py`) | keys, one configuration row | store, delete, verify a key; choose, customise | check-then-delete, seeding | the active provider keeps its key |
| Notification channels, billing, dashboard | single rows | CRUD, aggregates | little | - |
| Notifications (`support_system/notifications`, `notification_dispatcher.py`) | a Redis list | push, pop, dispatch | the worker ends on its import | - |
| MCP client and servers | none | forward a call | an answer lost after the effect | see the ledger |
| Pools, middleware, schemas, migrations | configuration | - | - | - |

Interactions: a chat handler runs the orchestrator graph in a thread; the graph
runs the tool calls of one message in parallel; the action agent claims a
ledger row and calls an MCP server; the escalation agent inserts an approval
row, pushes a notification to a Redis list and freezes the graph; an approve or
reject request enqueues an ARQ job that is to resume it. Uploads and retries
enqueue an ARQ job that fills the vector store the retrieval agent searches.
A chat turn reads the integrations, the provider key and the agent
configuration of its workspace once, when it begins. The routes of accounts,
workspaces and members load the user, the memberships and their workspaces first
(`get_current_user`), and the services write to those loaded rows; those that
upload, retry and delete documents load neither a user nor a membership. An
hourly job deletes workspaces and users whose grace period is over.
Shared state is always a row, a Redis key or a checkpoint; the only in-memory
shared state is the socket registry and the connection pools.

The full list, with status and reason, is in `PROJECT.json` under
`components`; the behaviours that are hard to test are there under `hazards`,
each at the line where it bites.

## 2. Modules

| Module | What it is |
|---|---|
| `ExecutionLock` | abstract specification: executing a key under a lock that is released, settled, or lost |
| `ActionLedger` | the action agent's ledger, statement by statement |
| `ActionLedgerRefinement` | the refinement mapping from `ActionLedger` to `ExecutionLock` |
| `IdempotencyKey` | abstract specification: what an Idempotency-Key promises the requests that carry it |
| `ChatTurns` | chat turns of a conversation over HTTP and WebSocket, idempotency key, registry |
| `Approvals` | approve and reject requests, ARQ jobs, the waiting graph |
| `ChatTurnsRefinement`, `ApprovalsRefinement` | the refinement mappings from these two to `IdempotencyKey` |
| `KnowledgeBase` | ingestion, retry and deletion of a document |
| `Orchestrator` | the root agent's graph: runs over the message history of a thread |
| `CustomerFacts` | what runs remember of a customer, and the graph of `Orchestrator` composed with it |
| `Sessions` | an account, its refresh-token sessions and password resets, and a browser |
| `Workspaces` | workspaces, members, documents, accounts, and the hourly deletion job |
| `Settings` | integrations, provider keys and the agent configuration of a workspace |
| `Retrieval` | one call of the retrieval agent |
| `ActionLedger_proofs`, `ChatTurns_proofs`, `Approvals_proofs`, `Knowledge_proofs`, `Orchestrator_proofs`, `Sessions_proofs`, `Workspaces_proofs`, `Settings_proofs` | theorems and their TLAPS proofs |
| `MC*` | model values and symmetry for TLC |

In every module a *handler* (request, socket, attempt, job) has a program
counter `pc` (or `job`), one action per await or statement, and the actions
carry the names of the code's steps. A step that can fail has an action for the
failure, and a process that can die an action that leaves everything it wrote
as it is. Definitions under the comment *Mutant* are faulty variants of the
definition that follows; no specification uses them. Variables commented
*history* are read by properties only.

### ActionLedger

An attempt is one invocation of `execute_tool`. `GetConn` and `PoolTimeout` are
`pool.getconn()`; `Claim`, `Skip` and `ClaimRaises` the outcomes of
`INSERT ... ON CONFLICT ... WHERE status = 'failed' RETURNING`; `CallTool` to
`ToolAnswers` the MCP call; `MarkCompleted`, `MarkFailed` and their failures the
two UPDATEs. The pool is in autocommit, so each statement is durable alone.
`Perform`, `Refuse` and `Drop` are the order system behind the MCP server,
which is outside the repository: a call that has left may be carried out after
its caller gave up. `execute_tool` injects the key into the parameters of
mutating actions; a backend may use it to leave out a repetition, but the code
of the repository does not, so the model performs every call. `leaked` are the
connections that no `putconn` returned, because the rollback of a failed claim
raised as well. The approval check in front of the tool (`check_approval`) only
decides whether an attempt starts.

### ChatTurns

One conversation. Requests of one keyed message are its retries. `GetKey` and
`AcquireKey` are the two Redis calls, `CheckConversation` the 404 and 400,
`CountTurns`, `InsertCustomerTurn`, `StartGraph`, `GraphCheckpoints`,
`GraphAnswers` and `InsertAgentTurn` are `process_chat_turn`, `StoreResponse` and
`Respond` the caching of its response and the return; `TurnRaises` and
`HandleFailure` the exception path. A handler may raise after its response was
stored (a SET whose answer is lost), and then deletes a key that retries may have
been answered from.
Sockets run the same turns after `Connect` and `Receive`; one keeps its database
session for its whole life and nobody rolls it back, hence `poisoned`. The agent
graph is reduced to what a turn sees of it: it answers or raises, and its
checkpoints carry the messages it knew of when it started, less those that its
node `prune_messages` removes (`GraphPrunes`; which ones and when is the matter of
`Orchestrator`).

### IdempotencyKey

Two routers keep the response of a keyed request in Redis, with the same get,
SET NX, set and delete. `IdempotencyKey` says what that is for, without Redis
and without the work: a worker may `Take` a free key and `Store` its answer under
it; others may `Repeat` what is stored. The worker leaves the key with the answer
it returns (`Succeed`), by freeing it (`Fail`), or as it is (`Disappear`: without an
answer the key is locked until its `Expiry`). `Fail` is possible until the worker
has returned, so an answer that others were told may be taken back: the routers
do no better. In
`ChatTurnsRefinement` and `ApprovalsRefinement`, `Under` says which request works
under which key, `KeyState` reads the key's state off the Redis value and off
whether anybody works under it, `HoldsKey`, `StoredTurn` or `StoredResponse` and
`ToldTurn` or `ToldResponse` are the other variables. A request that is refused
after it took the key (404, 400) disappears in this sense. That one request at a
time works under a key (`KeyIsLock`) and that retries get one answer
(`SameAnswerForSameKey`, unless an answer was taken back) are kept as theorems.

### Approvals

`CreateCheckpoint`, `AwaitDecision` are the parts of the escalation agent that
an operator can observe. `ReadRow`, `CommitDecision`, `Enqueue`, `StoreResponse`,
`Respond`, `Raises`, `HandleFailure`, `Crash` are `approve_request` and `reject_request`
in their router. `StartJob`, `RunJob`, `WorkerDies` are ARQ and
`resume_agent_graph`. Keys of approve and reject have different prefixes, so a
key belongs to a click (an approval and a decision). `Expire` is the end of the
24 hours Redis keeps it; no request runs that long.

### KnowledgeBase

One document. `vectors` and `chunks` hold the runs that wrote them, because a
run writes all of a document's chunks or none. `Assign` is SQLAlchemy's rule to
write only the columns that differ from what the session has read: a run that
read `ready` and sets `ready` writes nothing. An upload writes the file
(`WriteFile`), then the row (`CommitDocument`). `pgvector_client.delete_document`
passes a metadata filter to LangChain's `PGVector.delete`, which deletes the ids it
is given and ignores everything else; there are none, so `DeleteVectors` leaves
the vectors where they are (the library is not part of the repository). ARQ runs a job again when
its worker died or was shut down, not when the job raised.

### Orchestrator

One thread. A run is one invocation of the graph, one action per node:
`LoadMemory`, `PruneMessages`, `OrchestratorAgent` (with the edge
`should_call_tools`), `GuardrailCheck`, `ToolEnds` and `ExecuteTools`,
`Synthesise`, `SaveMemory`. `Proceed` is what all of them do at their end:
the run's messages become the thread's latest checkpoint. `Start` appends the
customer's message to the latest checkpoint, wherever the run that wrote it
is: nothing serialises the runs of a thread. The parallel calls of a message
end one by one in any order; the first in the order of the message that raised
or interrupted decides how the run stops (`ToolsStop`), and ToolNode appends no
answer then. `GuardrailRaises` is what the code does with a risky first call:
`EscalationRequest` lacks two required fields. A frozen run stays frozen,
because the only code that resumes one fails on its import (see `Approvals`).
`risky` stands for a call of `action_agent` whose parameters `validate_action`
rates HIGH; the thresholds and `subagent_results` are left out. `MAX_MESSAGES` is 10 in the code.

### CustomerFacts

The item of one customer in the store, which all conversations of that customer
share. `LoadFacts` is `load_memory`. `save_memory` reads the item again
(`ReadFacts`), has an LLM merge what the conversation adds, and puts the answer
over what is there by then (`PutFacts`, whose new value is free), or keeps
quiet about an error (`SkipPut`); its `get` and `build_model` stand outside the
`try`, so they end the run (`LeaveGraph`). `FactsSpec` is this alone, for runs of
any threads; `MemorySpec` composes it with the graph of `Orchestrator`: the first
node loads, the last one takes its steps in between (`Remember`), and a run that
ends early leaves the memory as well (`Abandon`). `crossed`, `put` and `dropped`
are history: which runs were in `save_memory` at once, what each put, and what a
merge was shown and left out.

### Sessions

One account and one browser that keeps the last refresh cookie it got. A
request reads in one action (`ReadEmail`, `Authenticate`, `ReadSession`,
`ReadResetToken`, `BeginLogout`, `BeginRemoval`) and writes in a later one,
since nothing locks the rows. `SetRefreshCookie` and `ClearRefreshCookie` are
the responses reaching the browser, in any order; `LoseResponse` is one that
does not. `RotateSession` deletes the row that was read if it is still there
and adds a new one, so two refreshes that read the same row leave two.
`account` is the user's row; `CurrentUser` is `get_current_user`, which refuses
a user scheduled for deletion, so that `RestoreAccount` finds nothing to
restore. Access tokens live on after the session (`SignedIn`): the code checks
their signature only.

### Workspaces

Up to one request per slot: `Begin` is what `get_current_user` and
`get_current_membership` load and check, and one action per operation then
writes (`CreateWorkspace`, `InviteMember`, `UpdateMemberRole`, `RemoveMember`,
`ScheduleWorkspace`, `CancelWorkspace`, `ScheduleAccount`, `RestoreAccount`). `MayChange` is the rule of roles, which `update_member_role`
applies and `remove_member` does not; `OwnerRemains`, the last owner, is checked
by both. `seen` is what the request's session has loaded and will not
read again; setting a column to the value loaded writes nothing. The job lists
both kinds of rows once (`StartCleanup`, `ListUsers`) and deletes an item in
two steps: the files (`RemoveFiles`, which may leave some), then the rows and
the commit (`CommitWorkspace`, `DeleteUser`). `FailWorkspace` is a statement
that raises: the handler rolls back and then reads `ws.id`, which the rollback
has expired, so the run ends. `Referenced` are foreign keys without a cascade:
a user who uploaded a document or invited a member of a workspace that is still
there cannot be deleted.

Requests about documents are steps of their own, with neither user nor
membership. An upload records some member of the workspace as the uploader and
writes the file (`BeginUpload`), then the row (`CommitUpload`), whose insert fails
when workspace or uploader have gone: the file stays. A deletion loads the row
(`BeginDrop`), deletes it (`DropRow`) and removes the file (`Unlink`). Each may fail
in between (`FailFiling`). A file is known by its workspace and uploader, and as a
bound there is one of a name at a time. `stray` is history: the files whose upload
overlapped a hard deletion, or whose upload or removal failed.

### Settings

Three tables and up to one request per slot. `Flush` is SQLAlchemy's UPDATE of
the columns that differ from what was read; a row that is gone or already there
makes the request fail without effect (`Fail`). `BeginCreate` and
`ReadPrimaries` read the primary integrations that `CommitCreate` and
`CommitUpdate` then demote (`Demoted`). Rows in which the same columns change are
updated in one batch, whose row count the driver does not report, so that a row
deleted meanwhile goes unnoticed (`Batched`). `BeginVerify` reads the configuration the verifier
is called with, `FinishVerify` writes its verdict to whatever the row holds by
then; `BeginVerifyKey` and `KeyAccepted` do so for a provider key. `PutKey`
stores a key and makes its provider the active one, `BeginDropKey` refuses for
the active provider and `DropKey` deletes later. `Seed` inserts the default
configuration that reading and patching need. `Connectors` and `KeyForRun` are
what `build_agent_config` hands to a chat turn. `Customised` is what
`_update_jsonb` does: it changes the loaded dict in place and assigns an equal
copy, so that only a column that was NULL is written.

### Retrieval

One call through its nodes. The stores return any two rankings of up to `TopK`
chunks, the cross-encoder any scores, a node may raise (`Raise`). `Fused` is
`reciprocal_rank_fusion` with its constant 60, in integers (`Unit` is a common
multiple of the denominators). `Descending` is Python's stable sort: an element's
place is the number of those `Ahead` of it, by score or, in a tie, by position. `Identified` are the
chunks whose metadata holds an id; the others drop out of the dense list.
`Rerank` runs under `ainvoke` only, because the node is a coroutine function;
`invoke_retrieval_agent` uses `invoke`, and that call ends in `Raise`.

## 3. Runs

Passing runs (`expect: pass`):

| Run | Instance | Shows |
|---|---|---|
| `ledger` | 3 attempts on two actions, 2 connections, fairness | the row is a lock and implements `ExecutionLock`, success is durable, a second execution needs a failure, every attempt ends |
| `chat_http` | 3 requests retrying a keyed message, fairness | the key implements `IdempotencyKey`, a success and a cached answer have their turns, a second agent run needs an error; requests end, keys are freed |
| `chat_sockets` | 2 sockets, 2 messages each | contiguous and paired transcript under overlapping turns, an answered message is forgotten only by pruning or behind an open question, and a registry without dead sockets |
| `approvals` | 3 requests with keys, 1 approval, both clicks | what a second decision needs, what a success means, the key implements `IdempotencyKey` |
| `knowledge` | upload, retry, deletion, 2 tries, faults, fairness | a ready document is searchable, a deleted one gets no chunk rows back and no vectors of later runs; without a fault no document stays in processing |
| `orchestrator` | 2 runs, 2 rounds, 2 messages kept, up to 2 calls per message, 1 fact (`MemorySpec`) | answers stay behind their calls, unanswered calls come from cut runs only, the question is lost to long turns only, a risky call runs only behind another, a fact is lost only by an overlap or a merge |
| `sessions` | 2 sign-ups, a login, 3 refreshes, a logout, an account deletion, resets, lost responses, expiry | one session per login, a reset token is used once, the browser's cookie works in the end, signed out is out |
| `workspaces` | 2 workspaces, 2 users (one invited), 4 requests, 2 at a time, 3 instants, fairness | one owner, a cancelled deletion deletes nothing, rows and files go together up to failures and overlaps, a due workspace is deleted |
| `settings` | 2 integrations, providers and agents, 5 requests, 2 at a time | two primaries, an unchecked active row and a lost key need overlapping requests |
| `retrieval` | 4 chunks, lists of up to 3, 3 scores | fusion keeps what both lists agree on, the verdict sees all that was found |

Violation runs (`expect: violation`) state what a document says and the code
does not do; `findings` in `PROJECT.json` quotes both sides:

| Run | Claim | What happens |
|---|---|---|
| `approvals_final` | "illegal transitions return 409" (`API_REFERENCE.md:106`) | approve and reject both succeed |
| `workspaces_blocked` | "a failure on one workspace/user does not block others" (`Backend Architecture.md:548`) | the exception handler raises and ends the run with items left |

Properties that hold next to a disagreement say how far the code does go: two
decisions need overlapping reads (`SecondDecisionNeedsOverlap`), vectors of a
deleted document are from runs begun before its row went (`DeletedStaysDeleted`), a
second agent run for a key needs an error response (`SecondRunNeedsFailure`), an
answered message that was not pruned is missing from the checkpoint only if a
question in front of its own stayed unanswered (`ForgottenNeedsUnanswered`), a lost fact needs two
runs in `save_memory` at once or a merge that drops it (`LostFactNeedsOverlap`), a
second session of a login needs two overlapping refreshes
(`OneSessionPerLogin`). The mutant of `OneOwner` is worth a remark: if the
handler of a failed deletion logged the failure and went on, as the document
asks, the job would delete the owner's account while the workspace is still
there; today the abort prevents that.

**Disagreements without a run.** The models behave as the code does in these
too:

- No session lock serialises the runs of a thread, so an answered message may be
  missing from the latest checkpoint (`memory` of `ChatTurns`,
  `ForgottenNeedsUnanswered`);
  `support_system/backend/cache.py:22-24` plans one that "prevents racing
  writes to the LangGraph checkpointer".
- The resume job fails on its import, prints the error and counts as done
  (`RunJob`); `ARCHITECTURE.md:75`: "Graph unfreezes, action_agent executes the
  approved action".
- The vectors of a deleted document stay, since the store ignores the filter it is
  passed (`DeleteVectors`), as do those stored by a job afterwards
  (`UpsertVectors`); `API_REFERENCE.md:116`: "Delete a document and all its
  chunks/embeddings".
- An answered key is deleted when the SET that stored the response raises
  (`StoreResponse`, `HandleFailure`), so the agent runs again for a message that
  retries have the response of; `README.md:61`: "return the cached response and
  never re-invoke the agent".
- A failed claim on a broken connection keeps that connection out of the pool
  (`ClaimRaises`), and a file whose insert fails stays on the disk
  (`CommitUpload`).
- A risky call behind another one of its message is executed, since
  `guardrail_check` looks at `tool_calls[0]` (`RiskyOnlyBehindAnother`);
  `support_system/root_agent/graph.py:15`: "HIGH-risk calls are intercepted".
- A risky first call ends the run, because `EscalationRequest` lacks two
  required fields (`GuardrailRaises`); the same file, line 221: "For HIGH or
  CRITICAL risk, the tool call is overridden".
- Nobody scheduled for deletion passes `get_current_user`, so an account's
  deletion cannot be cancelled (`RestoreAccount`), against `Backend
  Architecture.md:426-431`.
- A second customisation of an agent is not stored (`Customised`,
  `backend/services/agent_service.py:67`).
- `build_agent_config` has no `workspace_id`, so `vector_search` and
  `keyword_search` are not narrowed to the workspace (`Searched`), which
  `retrieval_agent/graph.py:169` asks for.
- Chunks are stored without an id in their metadata, so fusion drops all dense
  results (`WithId`), and `invoke` cannot run the rerank node (`Rerank`).
- An attempt is told "already executed" of a call still in flight, or of another
  order with the same key (`Skip`); a refused tool call is recorded as completed
  (`MarkCompleted`).
- A 400 or 404 keeps the idempotency key for a day, and a conversation closed
  after the status check still gets turns (`CheckConversation`); an old socket
  that goes away removes the registration of the new one (`Disconnect`).
- A failed final commit leaves a document in processing (`CommitRaises`); a
  retry of an indexed document stores its vectors again under new ids
  (`UpsertVectors`).
- No code compares `expires_at` with the time of a decision (`ReadRow`).
- A user who uploaded, invited or resolved something that stays is never deleted
  and ends every run of the job (`DeleteUser`).

**Bounds.** Every interleaving property here is about two actors and one that
interferes, which is why three attempts, requests or refreshes are enough to
reach each case, among them a failed first, a live second and a retrying third.
Keys do not interact except through the pool, so two keys (here two action
types of one turn) with fewer connections than attempts reach what can happen
between them. In `ledger`, a constraint fixes which of the two actions the first attempt
carries out: exchanging the two maps the other half of the behaviours onto these.
One conversation, approval, document or account stands for all
because no row is shared between two of them. `MaxTries` is 3 in the code; 2
distinguishes a first run, a repeated run and an exhausted job. Each run starts
in the state the program has before the first call, and a socket sends each of
its messages once. `PoolSize` is 5 in the code.

- `ledger` (218,042 states), `chat_http` (69,075 states), `chat_sockets` (1,415,238
  states) and `knowledge` (17,547 states): as above.
- `approvals` (367,381 states): with keys, since the interplay of keys, decisions
  and jobs is what a run adds to the theorems, which are about requests with and
  without. In `approvals_final` one request has a key and one has none.
- `orchestrator` (844,135 states): two kept messages (`MAX_MESSAGES` is 10 in the code) and two
  rounds of two parallel calls overflow the history within one run, so that
  every boundary of pruning occurs, and the second run starts from every
  checkpoint the first can leave. One fact is enough, because no step treats a
  fact by what happens to another, and two runs are a lost update.
- `sessions` (917,532 states): three refreshes are two that overlap and one that
  finds what they left; two sign-ups race for the e-mail; two resets and two
  confirmations race for the token.
- `workspaces` (355,978 states): four requests (`MaxRequests`), those about
  documents among them, up to two at a time of each kind, are create, invite,
  schedule and cancel, or create, upload, a deletion of the document and one of the
  account, in any overlap.
  `Grace` is one tick for the 48 hours; `MaxTime` 2 lets the job run before,
  at and after the grace period. Two workspaces of one owner are needed for
  an item that fails and one that is blocked; two users for an owner and an
  invited member.
- `settings` (1,044,480 states): two primaries, an edit and a verification, or a
  key, its deletion and a choice of provider take up to five requests
  (`MaxRequests`) of which two overlap.
- `retrieval` (286,718 states): lists of three (`TopK` is 3 here, 5 by default in
  the code) hold an agreement, a disagreement and a cut; two chunks belong to
  the workspace, and one chunk has no id.

**Fairness.** `FairSpec` in each module that has one asks that started handlers
and workers go on (asyncio and threads schedule them), that the order system or
the graph answers or fails (`client.call` has no timeout: without this an
attempt may wait for ever; LangGraph ends a run at its recursion limit), that
Redis expires what the code gave an expiry, and, in `Workspaces`, that
APScheduler starts the hourly job, that the job goes on, and that time passes.
No fairness is asked of new requests, faults, crashes, operators or the closing
of a conversation. Deadlock is not checked, since in all models every request
may have ended.

## 4. Proofs

TLAPS proves these for all values of the constants, under the named
assumptions the modules declare: that the pool is not empty, that requests and sockets are distinct, that
retries are of known messages, that `Nobody` is no attempt, that ARQ tries a job
at least once, that the kinds of requests of an account are disjoint, that the
model values for "no row" are no rows (`RowsAssumption`) and differ from each
other, that some list of calls is the longest an LLM makes
(`LongestAssumption`: a response is bounded), that searches return at least one
rank, that scores and the threshold are integers, and that `Unit` is a common
multiple of the denominators of fusion.

Every invariant and every refinement that a passing run checks is a theorem
below; each was first checked by TLC, the invariants together with their
strengthening.

*ActionLedger_proofs.* `TypeCorrect`; `RowStaysLock` (one owner per key, pending
iff owned); `CompletedStaysFinal` (no step leaves completed); `SuccessStaysDurable`;
`SecondExecutionFollowsFailure`; `LedgerImplementsLock`, the refinement. The lock
property is inductive only with `UnmarkedEnded` (an attempt that left without
writing its outcome is not running), and durability needs `ResultInv`, which
ties an attempt's control state to its result and its call. The central lemma,
`StepKinds`, shows that each step keeps the rows and owners, takes the row
of one attempt, or settles it; the lock, the durability and the refinement
follow from that rather than from the individual actions.

*ChatTurns_proofs.* `TypeCorrect`; `TranscriptIsContiguous`; `TurnsArePaired`;
`AnswersAreStored` (a success has its two turns); `CachedAnswersAreStored`;
`KeyIsMutex`; `RetriesAgree`; `RunsAreNotRepeated`; `RegistryIsLive`;
`ForgottenBehindOpenQuestion`; `ChatImplementsKey`. The transcript properties are not inductive alone: `Placed` says,
for every handler, that the count it took was true of a prefix of the
transcript and that the turns it stored are at that place. The step that
matters is `FreeIndexIsNext`: an index that is free in a contiguous transcript
and was once its length is its length now, so the unique constraint turns a
stale count into an error and never into a gap. The key is a lock also between
`StoreResponse` and the end of its handler, where it holds that handler's own turn
(`KeyIsLock`). Retries agree because an answer stays in the cache as long as the key
lives, or was withdrawn by the handler that stored it (`AnswerKept`); a second run
needs a failure because a run that was not answered with an error keeps the key
from being absent and from being held by anybody else (`RunGuarded`). That
forgetting needs an open question rests on the pairs of the transcript: of two
runs that overlap, the one whose question stands first finds the next index
taken and stores no answer (`Unanswered`), so its question stays open
(`OpenStays`), in front of whatever the other's checkpoint then lacks
(`Remembered`); what pruning removed is set apart there. The
refinement is proved by the kinds of steps (`KeyStep`): one keeps every key, has
a request take, leave or repeat one, or lets one expire, and each kind is a step
of `IdempotencyKey`.

*Approvals_proofs.* `TypeCorrect`; `SecondDecisionOverlaps`; `SuccessesAreQueued`;
`KeyIsMutex`; `ClickImplementsKey`, by the same kinds of steps, with `KeyIsAsked`
(a key in Redis is one of a click that was made). That a second decision needs an overlap is not inductive alone: a
request that is past its read may still decide, so `ReadBeforeDecision` says what
such a request has read and which decisions it overlaps. `Delivery` ties a
success to progress (which control state implies a committed decision and which a
queued job); `DeliveredStays` says that later steps, of workers that die too, keep
what was delivered, and the cache of a retried click needs it.

*Sessions_proofs.* `TypeCorrect`, with `Minted` (every stored session belongs to
a login that had created its own before, and a request that has not written yet
has minted nothing); `OneSessionForLogin`;
`ResetTokenIsUsedOnce`; `CookieHasSession`; `SignedOutForGood`. `Rotation` is the inductive form of the first: of a
login that no two refreshes have used at once, a refresh under way is alone and
holds the one session there is, so its delete and insert keep the number.
`Resets` does the same for reset tokens: a confirmation past its check overlaps
every other one of that token that is. The cookie works because its session
goes only while a response is under way (`Cookies`). Signing out needs the most:
of a login whose refreshes never overlapped, the browser's cookie is the only
session unless a response is about to bring the next one (`BrowserHolds`,
`SoleResponse`), so the logout that presents it deletes all there is
(`LoggedOut`), and a logout that crossed nothing leaves no request that could
add one (`Quiet`).

*Knowledge_proofs.* Of `KnowledgeBase`: `TypeCorrect`; `ReadyStaysSearchable`;
`DeletionIsFinal`. The first needs `Backed` (a run about to commit has its own vectors
stored), the second `Orphans` (the row is created once, and what runs when it is
gone had begun when it went). Of `Retrieval`:
`RetrievalInvariant`, with the types; `FusionKeepsAgreement`; `VerdictIsOnAll`. Both
rest on what sorting does: `Descending` places each element by the number of
those ahead of it, these places are an injection into `1..n` and so a bijection,
hence it returns each element once and higher scores first. An element that both
lists put before another has the larger share in each (`ShareFalls`), so the
larger sum; and the first after reranking has the best score of all (`FirstIsBest`).

*Orchestrator_proofs.* `TypeCorrect`; `RiskyNeedsCompany`; `AnswersStandBehindCalls`;
`QuestionLostOnlyByLongTurn`; `LostAnswersNeedCutRun`; of `CustomerFacts`,
`FactsTypeCorrect` and `FactsAreLostOnlyByOverlap`; `MemoryImplementsParts` and, from
it, `GraphWithMemory`: all five invariants of the run for the composition. The types need `Calling`:
the run that is about to check or to run tools ends with a call message of its
own. `Cut`, `Kept`, `Appended` and `AnswersShape` say what pruning, appending
and `execute_tools` do to a history. That an answer stands behind some call is not
inductive; `InPlace` is: the answer of call j stands j places behind the message
that makes it, with answers of that message in between, and a cut that does not
fall in front of an answer keeps this. The same fact bounds the prompt
(`PrunedBounded`): the walk back from the boundary ends at the call, at most one
message's answers away. `Asked` is the other half: the customer's message is
there with the run's own behind it, or the run's own fill what is kept. `Carried`
adds to `UnansweredNeedsCutRun` what the checkpoint lacks (`Left`), since that is
what the next run starts from: a call without answers there is one of a run
that was cut, or that still hangs where it can only fail or answer. The facts need
`SavesCross`: what is stored and was not when a run in `save_memory` read it was
put by a run that was there with it.

*Workspaces_proofs.* `TypeCorrect`; `FilesGoWithRows`; `CancelledStays`;
`WorkspaceHasOneOwner`. That files go with rows needs `Filed` (which file and row a
request about a document relies on at each of its steps, until a deletion makes
it stray), `DeletedFiles` (what a hard deletion under way has left on the disk) and
`MembersExist` (a membership has its workspace and user, so an upload begins with
both). A kept workspace must also be on no list of a run under way
(`KeptAside`). One owner is the longest argument, because the job deletes users
too: `OwnersGo` says that a workspace is due no later than its owner, `ListedUsers`
that no user on the job's list owns a workspace that is still there, which holds
because the list of users is made only after a run has dealt with every due
workspace (`Listed`). `Leaves`, `Stale`, `Overlap` and `OwnerRequests` say what
requests under way have loaded and which overlaps with the deletion of an
account put a workspace into `crossed`. `KeepsOwners` collects what a step must
do for `SoleOwner`, and each operation is shown to do it.

*Settings_proofs.* `TypeCorrect`; `PrimariesCollideOnlyByOverlap`; `VerifiedIsChecked`;
`ActiveProviderKeepsKey`. All three rest on `Contention` (two requests under way
that touch the same thing are recorded as crossed) and on lemmas about `Flush`,
the column-wise UPDATE. `Displacing` is the inductive form of the first: a
request about to make its integration primary will demote all others but
those it crossed. `RowAsSeen` and `KeyAsSeen` say that what a verification has
read is still there unless it was crossed, `DropsOthers` that a deletion of a key
is not one of the active provider.

`TypeOK` and its like are proved for all ten concrete modules and not repeated in
their runs.

Only model-checked: the five liveness properties (`EveryAttemptEnds`,
`EveryRequestEnds`, `KeyIsFreedInTheEnd`, `ProcessingEnds`, `DueIsDeleted`), which
are beyond the prover.

## 5. Plan

Written, in this order: `ActionLedger`, `ExecutionLock` and the refinement;
`ChatTurns`; `Approvals`; `KnowledgeBase`; the proofs of the first two;
`Orchestrator`; `Sessions`; `Workspaces`; `Settings`; `Retrieval`; the proofs of
`Approvals`, `Sessions` and `KnowledgeBase`; those of `Settings`, `Workspaces` and
`Orchestrator`, and the rest of those of `ActionLedger`, `ChatTurns` and `Sessions`.

Then `IdempotencyKey` and its two refinements, the proofs of `Retrieval`, and
`CustomerFacts` with its composition and proofs.

Left: an abstract approval (pending, decided once, resumed), as a specification
that the behaviours without overlapping requests implement.

## 6. What is not modelled

- LLM calls (any answer is possible), prompts, formatting, tracing, request
  validation, encryption, migrations, tests and scratch scripts.
- The notification worker: it imports a name that `backend/db/base.py` does not
  define and ends before its loop, so what `notify_operator` pushes is never
  popped and no other component depends on it. Notification channels, billing,
  the dashboard, `PATCH /me` and renaming are rows or reads on their own that no
  modelled property depends on. `resend_invite` sends a mail.
- `apply_decision` of the escalation agent, which no path reaches.
- What the LLM makes of the facts of a customer: any result is possible.
- Risk thresholds and tiers: a call is risky or not.
- Database isolation is Postgres's read committed, with one step per statement
  or commit; the loss of the database itself, a failover of Redis and clock skew
  are not considered.
