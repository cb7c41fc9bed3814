--------------------------- MODULE TenantRequests ---------------------------
(***************************************************************************)
(* The requests of ai-platform that delete documents: the decisions about  *)
(* a pending call of the delete_all_documents tool                         *)
(* (backend/app/api/tool_approval_routes.py, backend/app/tools/builtin/)   *)
(* and the removal of a single document (admin_routes.py).                 *)
(*                                                                         *)
(* Each runs in the session of get_scoped_session, whose transaction ends  *)
(* when the dependency is torn down: after the answer has been sent.       *)
(***************************************************************************)
EXTENDS DocumentStore

CONSTANTS Calls,  \* pending_tool_approvals
          None    \* no request

VARIABLES status,    \* pending_tool_approvals.status
          request,   \* what each request asks for
          pc,        \* how far it got
          counted,   \* the documents an approval counted before deleting
          executed   \* per call, the approvals whose deletion took effect

requestVars == <<status, request, pc, counted, executed>>

Asked == [kind : {"approve", "reject"}, call : Calls]
             \cup [kind : {"delete"}, doc : Docs]

Active == {"loaded", "counted", "dropped", "executed", "answered"}

RequestTypeOK ==
    /\ status \in [Calls -> {"none", "pending", "approved", "rejected"}]
    /\ request \in [Requests -> Asked \cup {None}]
    /\ pc \in [Requests -> {"idle", "refused", "failed", "lost", "committed"} \cup Active]
    /\ counted \in [Requests -> SUBSET Docs]
    /\ executed \in [Calls -> SUBSET Requests]

RequestInit ==
    /\ status = [c \in Calls |-> "none"]
    /\ request = [r \in Requests |-> None]
    /\ pc = [r \in Requests |-> "idle"]
    /\ counted = [r \in Requests |-> {}]
    /\ executed = [c \in Calls |-> {}]

Goto(r, from, to) == pc[r] = from /\ pc' = [pc EXCEPT ![r] = to]
Kind(r) == request[r].kind

\* The chat turn that stops at a high-risk tool commits the pending call.
ProposeCall(c) ==
    /\ status[c] = "none"
    /\ status' = [status EXCEPT ![c] = "pending"]
    /\ UNCHANGED <<storeVars, request, pc, counted, executed>>

\* The row is loaded: 409 for a call that is not pending any more, 404 for a
\* document that is not there.
Load(r) ==
    /\ \E q \in Asked :
          /\ request' = [request EXCEPT ![r] = q]
          /\ q.kind # "delete" => status[q.call] # "none"
          /\ Goto(r, "idle",
                  IF IF q.kind = "delete" THEN q.doc \in documents
                                          ELSE status[q.call] = "pending"
                  THEN "loaded" ELSE "refused")
    /\ UNCHANGED <<storeVars, status, counted, executed>>

\* execute() of delete_all_documents: SELECT count(*),
CountAll(r) ==
    /\ Goto(r, "loaded", "counted")
    /\ Kind(r) = "approve"
    /\ counted' = [counted EXCEPT ![r] = documents]
    /\ UNCHANGED <<storeVars, status, request, executed>>

\* ... DELETE FROM chunks,
DropAll(r) ==
    /\ Goto(r, "counted", "dropped")
    /\ DropChunks(r, Docs)
    /\ UNCHANGED <<status, request, counted, executed>>

\* Wrong on purpose: the documents a job still refers to are spared.
RemoveUnreferenced(r) ==
    /\ Goto(r, "dropped", "executed")
    /\ RemoveDocuments(r, Docs \ linked)
    /\ UNCHANGED <<status, request, counted, executed>>

\* ... DELETE FROM documents.
RemoveAll(r) ==
    /\ Goto(r, "dropped", "executed")
    /\ RemoveDocuments(r, Docs)
    /\ UNCHANGED <<status, request, counted, executed>>

\* The foreign keys refuse, nobody catches the IntegrityError, and the whole
\* request is rolled back: the call stays pending.
RemoveFails(r) ==
    /\ Goto(r, "dropped", "failed")
    /\ Referenced(r, Docs)
    /\ Rollback({r})
    /\ UNCHANGED <<status, request, counted, executed>>

\* delete_document: the chunks of one document; the document itself is only
\* marked for deletion in the session.
DropOne(r) ==
    /\ Goto(r, "loaded", "executed")
    /\ Kind(r) = "delete"
    /\ DropChunks(r, {request[r].doc})
    /\ UNCHANGED <<status, request, counted, executed>>

\* The route returns and its answer is sent.
Answer(r) ==
    /\ \/ Goto(r, "executed", "answered")
       \/ Goto(r, "loaded", "answered") /\ Kind(r) = "reject"
    /\ UNCHANGED <<storeVars, status, request, counted, executed>>

-----------------------------------------------------------------------------
(* The teardown: the session is flushed and committed.                     *)

Decide(r, outcome) == status' = [status EXCEPT ![request[r].call] = outcome]

\* Wrong on purpose: the outcome is written to a row of another session.
CommitToolOnly(r) ==
    /\ Goto(r, "answered", "committed") /\ Kind(r) = "approve"
    /\ CommitDeletes(r, removed[r])
    /\ executed' = [executed EXCEPT ![request[r].call] = @ \cup {r}]
    /\ UNCHANGED <<status, request, counted>>

\* What the tool deleted and the outcome are one transaction.
CommitApprove(r) ==
    /\ Goto(r, "answered", "committed")
    /\ Kind(r) = "approve"
    /\ CommitDeletes(r, removed[r])
    /\ Decide(r, "approved")
    /\ executed' = [executed EXCEPT ![request[r].call] = @ \cup {r}]
    /\ UNCHANGED <<request, counted>>

\* The UPDATE has no condition on the status that was loaded.
CommitReject(r) ==
    /\ Goto(r, "answered", "committed")
    /\ Kind(r) = "reject"
    /\ Decide(r, "rejected")
    /\ UNCHANGED <<storeVars, request, counted, executed>>

\* The flush deletes the document, when it is still there,
CommitDelete(r) ==
    /\ Goto(r, "answered", "committed")
    /\ Kind(r) = "delete"
    /\ request[r].doc \notin LockedByOthers(r, removed)
    /\ ~Referenced(r, {request[r].doc})
    /\ CommitDeletes(r, {request[r].doc})
    /\ UNCHANGED <<status, request, counted, executed>>

\* ... unless the foreign key refuses, too late for the answer.
CommitDeleteFails(r) ==
    /\ Goto(r, "answered", "lost")
    /\ Kind(r) = "delete"
    /\ Referenced(r, {request[r].doc})
    /\ Rollback({r})
    /\ UNCHANGED <<status, request, counted, executed>>

\* The database connection breaks under these requests, or their process ends.
AbortAll(rs) ==
    /\ pc' = [r \in Requests |-> IF r \notin rs \/ pc[r] \notin Active THEN pc[r]
                                 ELSE IF pc[r] = "answered" THEN "lost" ELSE "failed"]
    /\ Rollback(rs)
    /\ UNCHANGED <<status, request, counted, executed>>

Serve(r) ==
    \/ CountAll(r) \/ DropAll(r) \/ RemoveAll(r) \/ RemoveFails(r) \/ DropOne(r)
    \/ Answer(r)
    \/ CommitApprove(r) \/ CommitReject(r) \/ CommitDelete(r) \/ CommitDeleteFails(r)

=============================================================================
