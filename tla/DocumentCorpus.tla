--------------------------- MODULE DocumentCorpus ---------------------------
(***************************************************************************)
(* The knowledge base of one tenant under everything that writes to it at  *)
(* the same time: ingestion jobs, uploads, the removal of documents, and   *)
(* racing decisions about pending calls of the tool that deletes them all. *)
(***************************************************************************)
EXTENDS IngestionJob, TenantRequests, Naturals

CONSTANT MaxFaults  \* bound on database errors and restarts

ASSUME CorpusAssumption == MaxFaults \in Nat

VARIABLE faults  \* how many there were

vars == <<storeVars, jobVars, requestVars, faults>>

TypeOK ==
    /\ StoreTypeOK
    /\ JobTypeOK
    /\ RequestTypeOK
    /\ faults \in 0..MaxFaults

Init ==
    /\ StoreInit
    /\ JobInit
    /\ RequestInit
    /\ faults = 0

\* POST /v1/documents: document and chunks in one transaction.
Upload(u) ==
    /\ InsertDocument(u)
    /\ UNCHANGED <<jobVars, requestVars, faults>>

Job(j) == (CreateJob(j) \/ RunJob(j) \/ Raise(j)) /\ UNCHANGED <<requestVars, faults>>

Request(r) == (Load(r) \/ Serve(r)) /\ UNCHANGED <<jobVars, faults>>

Propose(c) == ProposeCall(c) /\ UNCHANGED <<jobVars, faults>>

Fault ==
    /\ faults < MaxFaults
    /\ faults' = faults + 1
    /\ \/ \E j \in Jobs : HandlerFails(j) /\ UNCHANGED requestVars
       \/ \E r \in Requests : AbortAll({r}) /\ UNCHANGED jobVars
       \/ LoseTasks /\ AbortAll(Requests)

Next ==
    \/ \E u \in Uploads : Upload(u)
    \/ \E j \in Jobs : Job(j)
    \/ \E c \in Calls : Propose(c)
    \/ \E r \in Requests : Request(r)
    \/ Fault

\* A background task and a request that were started are scheduled.
Fairness ==
    /\ \A j \in Jobs : WF_vars(RunJob(j) /\ UNCHANGED <<requestVars, faults>>)
    /\ \A r \in Requests : WF_vars(Serve(r) /\ UNCHANGED <<jobVars, faults>>)

Spec == Init /\ [][Next]_vars /\ Fairness

-----------------------------------------------------------------------------
(* Properties.                                                             *)

\* A document is never seen without its chunks, a chunk never without its
\* document, and a complete job never without its document, although deletes
\* take several statements, may be rolled back after any of them, and run
\* while jobs store and link new documents.
DocumentsWhole ==
    /\ documents \ Blank = chunks \ Blank
    /\ chunks \subseteq documents
    /\ \A j \in Jobs : stage[j] = "complete" => j \in documents

\* A tool call that took effect is not offered for approval again, whatever
\* fails in between: the deletion and its outcome are one transaction, unlike
\* in the approval of actions of ai-sdlc-assistant.
ExecutedIsResolved ==
    \A c \in Calls : executed[c] # {} => status[c] # "pending"

\* An approval that took effect has left none of the documents it reported,
\* although other requests delete some of them first and jobs refer to some:
\* it is all of them or a failed request.
ApprovedLeavesNone ==
    \A r \in Requests :
        pc[r] = "committed" /\ Kind(r) = "approve" => counted[r] \cap documents = {}

\* The audit log of a job says "completed" exactly when its document was
\* stored, and "failed" of every job that failed and of no job that is
\* complete, although stage and event are written by different transactions.
\* A job that failed after its document was stored (pipeline.py:141-150, or a
\* delete that came between) has both events, and its document stays.
AuditAgrees ==
    \A j \in Jobs :
        /\ "completed" \in audit[j] <=> j \in stored
        /\ stage[j] = "complete" => audit[j] = {"completed"}
        /\ stage[j] = "failed" => "failed" \in audit[j]

\* A job reaches "complete" or "failed", whatever raises and whoever deletes
\* its document meanwhile, unless its task was lost to a restart or to an
\* error of the database while the failure was being recorded.
JobsEnd ==
    \A j \in Jobs :
        stage[j] = "queued" ~> stage[j] \in {"complete", "failed"} \/ task[j] = "lost"

-----------------------------------------------------------------------------
(* Claims of the comments and tests that the code does not keep.           *)

\* test_delete_document_removes_it_and_its_chunks: a DELETE that was answered
\* with {"deleted": ...} has removed the document.
DeletedIsGone ==
    \A r \in Requests : pc[r] = "lost" => Kind(r) # "delete"

=============================================================================
