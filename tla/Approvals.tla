---------------------------- MODULE Approvals ----------------------------
(***************************************************************************)
(* Human approval of high-risk actions                                     *)
(* (backend/services/approval_service.py, backend/api/routers/approvals.py,*)
(* backend/worker.py and support_system/subagents/escalation_agent).       *)
(*                                                                         *)
(* The escalation agent inserts a pending row, notifies the operators and  *)
(* freezes its graph with interrupt().  An operator's approve or reject    *)
(* request reads the row, commits the decision and then enqueues a job     *)
(* that is to resume the graph.  The read takes no lock and the three are  *)
(* separate awaits, so requests interleave between them.  ARQ keeps the    *)
(* jobs in Redis and runs them at least once, up to max_tries times.       *)
(*                                                                         *)
(* A click is a decision about an approval: the requests that carry it     *)
(* with an Idempotency-Key are its retries.  Clicks of other operators and *)
(* of the other endpoint never share a key, so they stand for themselves.  *)
(***************************************************************************)
EXTENDS Naturals

CONSTANTS
    Approval,      \* rows of approvals.approval_requests
    Request,       \* approve and reject requests
    KeyedRequest,  \* those that carry an Idempotency-Key
    MaxTries       \* WorkerSettings.max_tries

ASSUME ApprovalsAssumption ==
    /\ KeyedRequest \subseteq Request
    /\ MaxTries \in Nat \ {0}

Decision == {"approved", "rejected"}
Click    == [approval : Approval, decision : Decision]
NoClick  == [approval |-> "none"]

VARIABLES
    row,      \* status of each approval request
    graph,    \* the escalation graph that waits for each decision
    pc,       \* where each request stands
    click,    \* what it asks for
    cache,    \* idemp:approve:<key> and idemp:reject:<key>, by click
    outcome,  \* the response
    job,      \* the resume_agent_graph job a request has enqueued
    tries,    \* how often that job was started
    read,     \* history: the decisions already committed at a request's read
    decided   \* history: the requests that committed a decision

handlerVars == <<pc, click, outcome>>
jobVars     == <<job, tries>>
history     == <<read, decided>>
vars == <<row, graph, handlerVars, cache, jobVars, history>>

Control == {"new", "get", "setnx", "select", "commit", "enqueue", "cache",
            "return", "fail", "done"}
Outcome == {"none", "ok", "cached", "in_progress", "illegal", "error", "lost"}
Job     == {"none", "queued", "running", "done", "exhausted"}

\* A handler in one of these has set its key in progress.
Holding  == {"select", "commit", "enqueue", "cache", "return", "fail"}
Holds(h) == h \in KeyedRequest /\ pc[h] \in Holding

TypeOK ==
    /\ row \in [Approval -> {"absent", "pending"} \cup Decision]
    /\ graph \in [Approval -> {"running", "frozen", "resumed"}]
    /\ pc \in [Request -> Control]
    /\ click \in [Request -> Click \cup {NoClick}]
    /\ \A h \in Request : pc[h] # "new" => click[h] \in Click
    /\ cache \in [Click -> {"absent", "in_progress", "response"}]
    /\ outcome \in [Request -> Outcome]
    /\ job \in [Request -> Job]
    /\ tries \in [Request -> 0..MaxTries]
    /\ read \in [Request -> SUBSET Request]
    /\ decided \subseteq Request

Init ==
    /\ row = [a \in Approval |-> "absent"]
    /\ graph = [a \in Approval |-> "running"]
    /\ pc = [h \in Request |-> "new"]
    /\ click = [h \in Request |-> NoClick]
    /\ cache = [c \in Click |-> "absent"]
    /\ outcome = [h \in Request |-> "none"]
    /\ job = [h \in Request |-> "none"]
    /\ tries = [h \in Request |-> 0]
    /\ read = [h \in Request |-> {}]
    /\ decided = {}

Goto(h, l)   == pc' = [pc EXCEPT ![h] = l]
SetKey(h, v) == cache' = [cache EXCEPT ![click[h]] = v]
Finish(h, o) ==
    /\ Goto(h, "done")
    /\ outcome' = [outcome EXCEPT ![h] = o]

\* The committed decisions about the approval of a request.
DecidedOn(a) == {g \in decided : click[g].approval = a}

---------------------------------------------------------------------------
(* Escalation agent: create_checkpoint, notify_operator, await_decision *)

\* The row is committed before the graph freezes.
CreateCheckpoint(a) ==
    /\ row[a] = "absent"
    /\ row' = [row EXCEPT ![a] = "pending"]
    /\ UNCHANGED <<graph, handlerVars, cache, jobVars, history>>

\* The notification is pushed (or given up after five attempts), and
\* interrupt() saves the graph.  An operator need not wait for that.
AwaitDecision(a) ==
    /\ row[a] # "absent"
    /\ graph[a] = "running"
    /\ graph' = [graph EXCEPT ![a] = "frozen"]
    /\ UNCHANGED <<row, handlerVars, cache, jobVars, history>>

---------------------------------------------------------------------------
(* approve_approval and reject_approval *)

Submit(h, c) ==
    /\ pc[h] = "new"
    /\ row[c.approval] # "absent"
    /\ click' = [click EXCEPT ![h] = c]
    /\ Goto(h, IF h \in KeyedRequest THEN "get" ELSE "select")
    /\ UNCHANGED <<row, graph, outcome, cache, jobVars, history>>

GetKey(h) ==
    /\ pc[h] = "get"
    /\ \/ /\ cache[click[h]] = "absent"
          /\ Goto(h, "setnx")
          /\ UNCHANGED outcome
       \/ /\ cache[click[h]] = "in_progress"
          /\ Finish(h, "in_progress")
       \/ /\ cache[click[h]] = "response"
          /\ Finish(h, "cached")
    /\ UNCHANGED <<row, graph, click, cache, jobVars, history>>

\* Mutant: the SET has lost its NX.
AcquireKeyPlainSet(h) ==
    /\ pc[h] = "setnx"
    /\ SetKey(h, "in_progress")
    /\ Goto(h, "select")
    /\ UNCHANGED <<row, graph, click, outcome, jobVars, history>>

AcquireKey(h) ==
    /\ pc[h] = "setnx"
    /\ \/ /\ cache[click[h]] = "absent"
          /\ SetKey(h, "in_progress")
          /\ Goto(h, "select")
          /\ UNCHANGED outcome
       \/ /\ cache[click[h]] # "absent"
          /\ Finish(h, "in_progress")
          /\ UNCHANGED cache
    /\ UNCHANGED <<row, graph, click, jobVars, history>>

---------------------------------------------------------------------------
(* approve_request and reject_request *)

\* Mutant: the status is not looked at.
ReadRowUnchecked(h) ==
    /\ pc[h] = "select"
    /\ read' = [read EXCEPT ![h] = DecidedOn(click[h].approval)]
    /\ Goto(h, "commit")
    /\ UNCHANGED <<row, graph, click, outcome, cache, jobVars, decided>>

\* The row is read; any status but pending is answered with 409.
ReadRow(h) ==
    /\ pc[h] = "select"
    /\ read' = [read EXCEPT ![h] = DecidedOn(click[h].approval)]
    /\ IF row[click[h].approval] = "pending"
       THEN Goto(h, "commit") /\ UNCHANGED outcome
       ELSE Goto(h, "fail") /\ outcome' = [outcome EXCEPT ![h] = "illegal"]
    /\ UNCHANGED <<row, graph, click, cache, jobVars, decided>>

\* UPDATE ... WHERE id: the status read before is not in the WHERE clause.
CommitDecision(h) ==
    /\ pc[h] = "commit"
    /\ row' = [row EXCEPT ![click[h].approval] = click[h].decision]
    /\ decided' = decided \cup {h}
    /\ Goto(h, "enqueue")
    /\ UNCHANGED <<graph, click, outcome, cache, jobVars, read>>

\* Mutant: an error of the enqueue is swallowed.
EnqueueQuietly(h) ==
    /\ pc[h] = "enqueue"
    /\ job' \in {job, [job EXCEPT ![h] = "queued"]}
    /\ Goto(h, "cache")
    /\ UNCHANGED <<row, graph, click, outcome, cache, tries, history>>

Enqueue(h) ==
    /\ pc[h] = "enqueue"
    /\ job' = [job EXCEPT ![h] = "queued"]
    /\ Goto(h, "cache")
    /\ UNCHANGED <<row, graph, click, outcome, cache, tries, history>>

\* SET key <response> EX 86400: a retry is told it from here on.
StoreResponse(h) ==
    /\ pc[h] = "cache"
    /\ h \in KeyedRequest
    /\ SetKey(h, "response")
    /\ Goto(h, "return")
    /\ UNCHANGED <<row, graph, click, outcome, jobVars, history>>

Respond(h) ==
    /\ pc[h] = (IF h \in KeyedRequest THEN "return" ELSE "cache")
    /\ Finish(h, "ok")
    /\ UNCHANGED <<row, graph, click, cache, jobVars, history>>

\* A database or Redis call raises, before or after it took effect (in the
\* second case the next step raises instead: a SET whose answer is lost leaves the
\* handler at "return").
Raises(h) ==
    /\ pc[h] \in {"select", "commit", "enqueue", "cache", "return"}
    /\ Goto(h, "fail")
    /\ outcome' = [outcome EXCEPT ![h] = "error"]
    /\ UNCHANGED <<row, graph, click, cache, jobVars, history>>

\* The except block deletes the key, whatever it holds, also after a 409, and
\* re-raises; the key stays if Redis fails there too.
HandleFailure(h) ==
    /\ pc[h] = "fail"
    /\ \/ h \in KeyedRequest /\ SetKey(h, "absent")
       \/ UNCHANGED cache
    /\ Goto(h, "done")
    /\ UNCHANGED <<row, graph, click, outcome, jobVars, history>>

\* The API process dies, or the request is cancelled.
Crash(h) ==
    /\ pc[h] \notin {"new", "done"}
    /\ Finish(h, "lost")
    /\ UNCHANGED <<row, graph, click, cache, jobVars, history>>

\* Twenty-four hours have passed since the key was written; no request runs
\* that long.
Expire(c) ==
    /\ cache[c] # "absent"
    /\ \A h \in Request : Holds(h) => click[h] # c
    /\ cache' = [cache EXCEPT ![c] = "absent"]
    /\ UNCHANGED <<row, graph, handlerVars, jobVars, history>>

---------------------------------------------------------------------------
(* ARQ worker: resume_agent_graph *)

StartJob(h) ==
    /\ job[h] = "queued"
    /\ IF tries[h] < MaxTries
       THEN /\ job' = [job EXCEPT ![h] = "running"]
            /\ tries' = [tries EXCEPT ![h] = @ + 1]
       ELSE /\ job' = [job EXCEPT ![h] = "exhausted"]
            /\ UNCHANGED tries
    /\ UNCHANGED <<row, graph, handlerVars, cache, history>>

\* The import of escalation_agent raises ImportError (graph.py of the agent
\* has get_escalation_agent and invoke_escalation_agent only).  The error is
\* printed and the job is over: ARQ sees a success and the graph stays frozen.
RunJob(h) ==
    /\ job[h] = "running"
    /\ job' = [job EXCEPT ![h] = "done"]
    /\ UNCHANGED <<row, graph, handlerVars, cache, tries, history>>

\* The worker dies or is shut down: ARQ hands the job out again.
WorkerDies(h) ==
    /\ job[h] = "running"
    /\ job' = [job EXCEPT ![h] = "queued"]
    /\ UNCHANGED <<row, graph, handlerVars, cache, tries, history>>

---------------------------------------------------------------------------

Handle(h) ==
    \/ GetKey(h) \/ AcquireKey(h)
    \/ ReadRow(h) \/ CommitDecision(h) \/ Enqueue(h)
    \/ StoreResponse(h) \/ Respond(h)
    \/ HandleFailure(h)

Work(h) == StartJob(h) \/ RunJob(h)

Next ==
    \/ \E a \in Approval : CreateCheckpoint(a) \/ AwaitDecision(a)
    \/ \E h \in Request :
          \/ \E c \in Click : Submit(h, c)
          \/ Handle(h) \/ Raises(h) \/ Crash(h)
          \/ Work(h) \/ WorkerDies(h)
    \/ \E c \in Click : Expire(c)

Spec == Init /\ [][Next]_vars

\* Handlers and a worker keep running, and an interrupted graph is saved.
FairSpec ==
    /\ Spec
    /\ \A h \in Request : WF_vars(Handle(h)) /\ WF_vars(Work(h))
    /\ \A a \in Approval : WF_vars(AwaitDecision(a))

---------------------------------------------------------------------------
(* Properties *)

\* Two decisions about one approval are committed only by requests that both
\* read the row before either committed: a request that comes after a decision
\* gets 409, whichever endpoint, key or retry it is (approval_service.py:70).
SecondDecisionNeedsOverlap ==
    \A g, h \in decided : click[g].approval = click[h].approval => g \notin read[h]

\* An operator who is told that the request was approved or rejected, at once or
\* from the cache, can rely on it: the decision was committed and its job is in
\* the hands of ARQ, whatever failed or was repeated before; and a job tells the
\* worker of a committed decision only.
SuccessIsQueued ==
    /\ \A h \in Request :
          outcome[h] \in {"ok", "cached"} =>
              \E g \in decided : click[g] = click[h] /\ job[g] # "none"
    /\ \A h \in Request : job[h] # "none" => h \in decided

\* The Redis key is a lock: one request of a click at a time works on it, and as
\* long as it does the key is in progress or holds this request's own response.
KeyIsLock ==
    \A g, h \in Request :
        Holds(h) =>
            /\ \/ pc[h] # "return" /\ cache[click[h]] = "in_progress"
               \/ pc[h] \in {"return", "fail"} /\ cache[click[h]] = "response"
            /\ Holds(g) /\ click[g] = click[h] => g = h

---------------------------------------------------------------------------
(* What the documents say *)

\* "Illegal transitions return 409 Conflict (e.g. approving an already-approved
\* request)" (API_REFERENCE.md:106): a decision is not replaced by another one.
ResolvedIsFinal ==
    [][\A a \in Approval : row[a] \in Decision => row'[a] = row[a]]_vars
===========================================================================
