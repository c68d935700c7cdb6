-------------------------- MODULE KnowledgeBase --------------------------
(***************************************************************************)
(* Ingestion, retry and deletion of one knowledge-base document            *)
(* (backend/api/routers/knowledge.py, process_document_task of             *)
(* backend/services/knowledge_service.py, support_system/rag).             *)
(*                                                                         *)
(* A document lives in four places that no transaction spans: its row and  *)
(* its chunk rows (the chunks reference the row, ON DELETE CASCADE), its   *)
(* vectors in PGVector, its file on disk, and a job in ARQ's queue.  API   *)
(* handlers and the worker write them step by step, in different           *)
(* processes.  Documents share nothing, so one stands for all.             *)
(*                                                                         *)
(* A run is one start of a job; it writes all chunks of the document or    *)
(* none, so the vectors and chunk rows it wrote are named after it.        *)
(***************************************************************************)
EXTENDS Naturals

CONSTANTS
    Upload,     \* the request that uploads the document
    Retry,      \* POST .../retry requests
    Deleter,    \* DELETE requests
    MaxTries    \* WorkerSettings.max_tries

ASSUME KnowledgeBaseAssumption ==
    /\ Upload \notin Retry \cup Deleter
    /\ Retry \cap Deleter = {}
    /\ MaxTries \in Nat \ {0}

Handler == {Upload} \cup Retry \cup Deleter
Job     == {Upload} \cup Retry      \* named after the request that enqueues it
Run     == Job \X (1..MaxTries)

VARIABLES
    status,    \* documents.status, or that the row does not exist
    file,      \* is the file on disk?
    vectors,   \* runs whose vectors are in PGVector
    chunks,    \* runs whose rows are in document_chunks
    pc,        \* where each handler stands
    seen,      \* the status a retry request has read
    job,       \* where each job stands
    tries,     \* how often it was started
    loaded,    \* the status its current run has read
    begun,     \* history: the runs begun by the time the row was deleted
    faulted    \* history: has a call raised or a process died?

store       == <<status, file, vectors, chunks>>
handlerVars == <<pc, seen>>
workerVars  == <<job, tries, loaded>>
history     == <<begun, faulted>>
vars == <<store, handlerVars, workerVars, history>>

Status    == {"none", "processing", "ready", "failed", "deleted"}
Exists    == status \notin {"none", "deleted"}
RunOf(j)  == <<j, tries[j]>>
AtWork    == {"fetched", "upserted", "failing"}

TypeOK ==
    /\ status \in Status
    /\ file \in BOOLEAN
    /\ vectors \subseteq Run
    /\ chunks \subseteq Run
    /\ pc \in [Handler -> {"new", "commit", "set", "enqueue", "vectors", "row", "file", "done"}]
    /\ seen \in [Retry -> Status]
    /\ job \in [Job -> {"none", "queued", "done", "raised", "exhausted"} \cup AtWork]
    /\ tries \in [Job -> 0..MaxTries]
    /\ loaded \in [Job -> Status]
    /\ begun \subseteq Run
    /\ faulted \in BOOLEAN

Init ==
    /\ status = "none"
    /\ file = FALSE
    /\ vectors = {}
    /\ chunks = {}
    /\ pc = [h \in Handler |-> "new"]
    /\ seen = [h \in Retry |-> "none"]
    /\ job = [j \in Job |-> "none"]
    /\ tries = [j \in Job |-> 0]
    /\ loaded = [j \in Job |-> "none"]
    /\ begun = {}
    /\ faulted = FALSE

Goto(h, l) == pc' = [pc EXCEPT ![h] = l]
Move(j, l) == job' = [job EXCEPT ![j] = l]

\* SQLAlchemy writes a status only where it differs from the one it has read.
Assign(old, new) == status' = IF old = new THEN status ELSE new

---------------------------------------------------------------------------
(* API handlers *)

\* upload_document: the file is written, then the row committed as processing.
WriteFile(h) ==
    /\ h = Upload
    /\ pc[h] = "new"
    /\ file' = TRUE
    /\ Goto(h, "commit")
    /\ UNCHANGED <<status, vectors, chunks, seen, workerVars, history>>

CommitDocument(h) ==
    /\ pc[h] = "commit"
    /\ status' = "processing"
    /\ Goto(h, "enqueue")
    /\ UNCHANGED <<file, vectors, chunks, seen, workerVars, history>>

\* retry_document: whatever the status is, it is set to processing ...
ReadForRetry(h) ==
    /\ h \in Retry
    /\ pc[h] = "new"
    /\ status # "none"
    /\ seen' = [seen EXCEPT ![h] = status]
    /\ Goto(h, IF Exists THEN "set" ELSE "done")
    /\ UNCHANGED <<store, workerVars, history>>

\* ... unless the row has gone since and there is something to write.
SetProcessing(h) ==
    /\ pc[h] = "set"
    /\ IF Exists
       THEN Assign(seen[h], "processing") /\ Goto(h, "enqueue")
       ELSE /\ Goto(h, IF seen[h] = "processing" THEN "enqueue" ELSE "done")
            /\ UNCHANGED status
    /\ UNCHANGED <<file, vectors, chunks, seen, workerVars, history>>

Enqueue(h) ==
    /\ pc[h] = "enqueue"
    /\ Move(h, "queued")
    /\ Goto(h, "done")
    /\ UNCHANGED <<store, seen, tries, loaded, history>>

\* delete_document: vectors, then row and (by cascade) chunks, then file.
ReadForDelete(h) ==
    /\ h \in Deleter
    /\ pc[h] = "new"
    /\ status # "none"
    /\ Goto(h, IF Exists THEN "vectors" ELSE "done")
    /\ UNCHANGED <<store, seen, workerVars, history>>

\* pgvector_client.delete_document passes a filter to PGVector.delete, which looks
\* at its ids only, and there are none: nothing is deleted.
DeleteVectors(h) ==
    /\ pc[h] = "vectors"
    /\ Goto(h, "row")
    /\ UNCHANGED <<store, seen, workerVars, history>>

DeleteRow(h) ==
    /\ pc[h] = "row"
    /\ status' = "deleted"
    /\ chunks' = {}
    /\ begun' = IF Exists THEN {r \in Run : r[2] <= tries[r[1]]} ELSE begun
    /\ Goto(h, "file")
    /\ UNCHANGED <<file, vectors, seen, workerVars, faulted>>

DeleteFile(h) ==
    /\ pc[h] = "file"
    /\ file' = FALSE
    /\ Goto(h, "done")
    /\ UNCHANGED <<status, vectors, chunks, seen, workerVars, history>>

\* A call of a handler raises or its process dies: what it did stays done.
HandlerFails(h) ==
    /\ pc[h] \notin {"new", "done"}
    /\ Goto(h, "done")
    /\ faulted' = TRUE
    /\ UNCHANGED <<store, seen, workerVars, begun>>

---------------------------------------------------------------------------
(* Worker: process_document_task *)

\* Mutant: a missing document is not noticed.
StartJobUnchecked(j) ==
    /\ job[j] = "queued"
    /\ tries[j] < MaxTries
    /\ tries' = [tries EXCEPT ![j] = @ + 1]
    /\ loaded' = [loaded EXCEPT ![j] = status]
    /\ Move(j, "fetched")
    /\ UNCHANGED <<store, handlerVars, history>>

\* ARQ starts the job, or gives it up; the run ends at once without a row.
StartJob(j) ==
    /\ job[j] = "queued"
    /\ IF tries[j] < MaxTries
       THEN /\ tries' = [tries EXCEPT ![j] = @ + 1]
            /\ loaded' = [loaded EXCEPT ![j] = status]
            /\ Move(j, IF Exists THEN "fetched" ELSE "done")
       ELSE /\ Move(j, "exhausted")
            /\ UNCHANGED <<tries, loaded>>
    /\ UNCHANGED <<store, handlerVars, history>>

\* load, split and upsert_chunks
UpsertVectors(j) ==
    /\ job[j] = "fetched"
    /\ file
    /\ vectors' = vectors \cup {RunOf(j)}
    /\ Move(j, "upserted")
    /\ UNCHANGED <<status, file, chunks, handlerVars, tries, loaded, history>>

\* The file is gone, or loading, embedding or storing raises.
UpsertRaises(j) ==
    /\ job[j] = "fetched"
    /\ faulted' = (faulted \/ file)
    /\ vectors' \in {vectors} \cup (IF file THEN {vectors \cup {RunOf(j)}} ELSE {})
    /\ Move(j, "failing")
    /\ UNCHANGED <<status, file, chunks, handlerVars, tries, loaded, begun>>

\* Mutants: the document becomes ready before its vectors are stored; the
\* status is not written.
CommitChunks(j) ==
    /\ job[j] = "upserted"
    /\ Exists
    /\ chunks' = chunks \cup {RunOf(j)}
    /\ Move(j, "done")
    /\ UNCHANGED <<status, file, vectors, handlerVars, tries, loaded, history>>

CommitReadyFirst(j) ==
    /\ job[j] = "fetched"
    /\ Exists
    /\ chunks' = chunks \cup {RunOf(j)}
    /\ Assign(loaded[j], "ready")
    /\ Move(j, "done")
    /\ UNCHANGED <<file, vectors, handlerVars, tries, loaded, history>>

\* One transaction stores the chunks and the status.
CommitReady(j) ==
    /\ job[j] = "upserted"
    /\ Exists
    /\ chunks' = chunks \cup {RunOf(j)}
    /\ Assign(loaded[j], "ready")
    /\ Move(j, "done")
    /\ UNCHANGED <<file, vectors, handlerVars, tries, loaded, history>>

\* The commit raises (always when the row is gone).  The handler's own commit
\* then finds the session in need of a rollback and raises too: the status is
\* left as it was.  ARQ does not run a job again that raised.
CommitRaises(j) ==
    /\ job[j] = "upserted"
    /\ faulted' = (faulted \/ Exists)
    /\ Move(j, "raised")
    /\ UNCHANGED <<store, handlerVars, tries, loaded, begun>>

\* The exception handler; there may be no row to mark, and it may raise.
MarkFailed(j) ==
    /\ job[j] = "failing"
    /\ IF Exists THEN Assign(loaded[j], "failed") ELSE UNCHANGED status
    /\ Move(j, "raised")
    /\ UNCHANGED <<file, vectors, chunks, handlerVars, tries, loaded, history>>

MarkFailedRaises(j) ==
    /\ job[j] = "failing"
    /\ Move(j, "raised")
    /\ faulted' = TRUE
    /\ UNCHANGED <<store, handlerVars, tries, loaded, begun>>

\* The worker dies or shuts down: ARQ hands the job out again.
WorkerDies(j) ==
    /\ job[j] \in AtWork
    /\ Move(j, "queued")
    /\ faulted' = TRUE
    /\ UNCHANGED <<store, handlerVars, tries, loaded, begun>>

---------------------------------------------------------------------------

Handle(h) ==
    \/ CommitDocument(h) \/ SetProcessing(h) \/ Enqueue(h)
    \/ DeleteVectors(h) \/ DeleteRow(h) \/ DeleteFile(h)

Work(j) ==
    \/ StartJob(j) \/ UpsertVectors(j) \/ UpsertRaises(j)
    \/ CommitReady(j) \/ CommitRaises(j) \/ MarkFailed(j)

Next ==
    \/ \E h \in Handler :
          \/ WriteFile(h) \/ ReadForRetry(h) \/ ReadForDelete(h)
          \/ Handle(h) \/ HandlerFails(h)
    \/ \E j \in Job : Work(j) \/ MarkFailedRaises(j) \/ WorkerDies(j)

Spec == Init /\ [][Next]_vars

\* Handlers and a worker keep running.
FairSpec ==
    /\ Spec
    /\ \A h \in Handler : WF_vars(Handle(h))
    /\ \A j \in Job : WF_vars(Work(j))

---------------------------------------------------------------------------
(* Properties *)

\* A ready document is searchable (the vectors of some run are there) and its audit
\* rows refer to vectors that exist (no foreign key enforces
\* langchain_embedding_id), whatever retries, deaths and errors came before
\* (upsert_chunks before the commit, knowledge_service.py:82-105).
ReadyIsSearchable == (status = "ready" => vectors # {}) /\ chunks \subseteq vectors

\* A deletion is the end of ingestion: chunk rows never outlive the document, nor
\* does a job or a retry that raced the deletion bring some back, and a run that
\* starts after it adds no vectors.  (Those of runs begun before stay.)
DeletedStaysDeleted ==
    status = "deleted" => chunks = {} /\ vectors \subseteq begun

\* When nothing fails, a document does not stay in processing, however retries
\* and deletions interleave with its jobs.
ProcessingEnds == status = "processing" ~> status # "processing" \/ faulted
===========================================================================
