---------------------------- MODULE IngestionJob ----------------------------
(***************************************************************************)
(* Asynchronous ingestion: the row of an ingestion job, committed by the   *)
(* request that creates it, and the background task run_ingestion_job of   *)
(* backend/app/rag/pipeline.py that moves it from stage to stage, one      *)
(* transaction each.                                                       *)
(***************************************************************************)
EXTENDS DocumentStore

VARIABLES stage,  \* ingestion_jobs.stage
          task,   \* how far the background task got
          audit   \* telemetry_events: what the audit log says of the job

jobVars == <<stage, task, audit>>

Following == [queued |-> "parsing", parsing |-> "chunking",
              chunking |-> "embedding", embedding |-> "storing"]

Stages == {"none", "queued", "parsing", "chunking", "embedding", "storing",
           "complete", "failed"}

JobTypeOK ==
    /\ stage \in [Jobs -> Stages]
    /\ task \in [Jobs -> {"none", "running", "stored", "caught", "noted",
                          "over", "lost"}]
    /\ audit \in [Jobs -> SUBSET {"completed", "failed"}]

JobInit ==
    /\ stage = [j \in Jobs |-> "none"]
    /\ task = [j \in Jobs |-> "none"]
    /\ audit = [j \in Jobs |-> {}]

Task(j, from, to) == task[j] = from /\ task' = [task EXCEPT ![j] = to]

\* create_ingestion_job commits the row, then schedules the task.
CreateJob(j) ==
    /\ Task(j, "none", "running")
    /\ stage' = [stage EXCEPT ![j] = "queued"]
    /\ UNCHANGED <<storeVars, audit>>

\* Parsing, chunking and embedding write nothing but the stage.
Advance(j) ==
    /\ task[j] = "running"
    /\ stage[j] \in DOMAIN Following
    /\ stage' = [stage EXCEPT ![j] = Following[@]]
    /\ UNCHANGED <<storeVars, task, audit>>

\* Wrong on purpose: the document is committed before its chunks.
StoreDocumentFirst(j) ==
    /\ stage[j] = "storing" /\ Task(j, "running", "stored")
    /\ j \notin stored /\ stored' = stored \cup {j}
    /\ documents' = documents \cup {j}
    /\ audit' = [audit EXCEPT ![j] = @ \cup {"completed"}]
    /\ UNCHANGED <<chunks, linked, dropped, removed, stage>>

\* The document, its chunks and the event are one transaction.
Store(j) ==
    /\ stage[j] = "storing"
    /\ Task(j, "running", "stored")
    /\ InsertDocument(j)
    /\ audit' = [audit EXCEPT ![j] = @ \cup {"completed"}]
    /\ UNCHANGED stage

\* The last _advance sets document_id, and waits for whoever is deleting the
\* document;
Complete(j) ==
    /\ Task(j, "stored", "over")
    /\ j \in documents \ UNION {removed[r] : r \in Requests}
    /\ stage' = [stage EXCEPT ![j] = "complete"]
    /\ linked' = linked \cup {j}
    /\ UNCHANGED <<stored, documents, chunks, dropped, removed, audit>>

\* ... when the document is gone already, the foreign key refuses.
CompleteFails(j) ==
    /\ Task(j, "stored", "caught")
    /\ j \notin documents
    /\ UNCHANGED <<storeVars, stage, audit>>

\* Wrong on purpose: an exception that ends the task.
RaiseUncaught(j) ==
    /\ task[j] \in {"running", "stored"}
    /\ task' = [task EXCEPT ![j] = "over"]
    /\ UNCHANGED <<storeVars, stage, audit>>

\* A parser, an embedding provider or the database raises.
Raise(j) ==
    /\ task[j] \in {"running", "stored"}
    /\ task' = [task EXCEPT ![j] = "caught"]
    /\ UNCHANGED <<storeVars, stage, audit>>

\* Wrong on purpose: the event is added to a session nobody commits.
NoteUncommitted(j) ==
    /\ Task(j, "caught", "noted")
    /\ UNCHANGED <<storeVars, stage, audit>>

\* The handler records the failure in a transaction of its own,
NoteFailure(j) ==
    /\ Task(j, "caught", "noted")
    /\ audit' = [audit EXCEPT ![j] = @ \cup {"failed"}]
    /\ UNCHANGED <<storeVars, stage>>

\* ... and marks the job in another.
MarkFailed(j) ==
    /\ Task(j, "noted", "over")
    /\ stage' = [stage EXCEPT ![j] = "failed"]
    /\ UNCHANGED <<storeVars, audit>>

\* The handler itself raises: nothing is left that could touch the job.
HandlerFails(j) ==
    /\ task[j] \in {"caught", "noted"}
    /\ task' = [task EXCEPT ![j] = "lost"]
    /\ UNCHANGED <<storeVars, stage, audit>>

\* The process ends, and its background tasks with it.
LoseTasks ==
    /\ task' = [j \in Jobs |-> IF task[j] \in {"none", "over"} THEN task[j] ELSE "lost"]
    /\ UNCHANGED <<stage, audit>>

RunJob(j) ==
    \/ Advance(j) \/ Store(j) \/ Complete(j) \/ CompleteFails(j)
    \/ NoteFailure(j) \/ MarkFailed(j)

=============================================================================
